------------------------------ MODULE WsSession ------------------------------
(***************************************************************************)
(* The server's side of one WebSocket connection, for one run: emitters    *)
(* that persist an event and then broadcast it, the connection's receiver  *)
(* of the bounded A-channel, and the two tasks of handle_ws that share a   *)
(* WsSession, a_forward ("fwd") and cmd_loop ("cmd").  A task gives up the *)
(* session's lock before it sends, so what it does under one lock, or      *)
(* sends at once, is one action.                                           *)
(*                                                                         *)
(* An event is its sequence number; log is the number of events in         *)
(* events.jsonl, and a page of the log is what EventLog says it is.  The   *)
(* other end of up and wire is in WsDelivery.                              *)
(***************************************************************************)
EXTENDS Naturals, FiniteSets, SequencesExt

CONSTANTS
    Emitters,    \* tasks of the server that emit bus events of the run
    MaxEvents,   \* bound: events of the run
    MaxFaults,   \* bound: failed reads, connection attempts and timeouts
    ChanCap,     \* capacity of the A-channel (8192)
    BufCap,      \* REPLAY_BUFFER_CAPACITY (4096)
    PageSize     \* events in a catch-up page

ASSUME WsSessionAssumption ==
    /\ MaxEvents \in Nat /\ MaxFaults \in Nat
    /\ ChanCap \in Nat \ {0} /\ BufCap \in Nat \ {0} /\ PageSize \in Nat \ {0}

VARIABLES
    log,      \* events of the run that are in events.jsonl
    held,     \* the event each emitter has persisted and not yet broadcast, or 0
    chan,     \* messages a_rx can still receive
    lagged,   \* messages were overwritten before a_rx received them
    sess,     \* the run's part of WsSession
    task,     \* a_forward and cmd_loop
    conn,     \* "up", "closing" (the client called close), "down"
    up, wire, \* client to server, server to client
    faults,   \* bound: faults so far
    ghost     \* history: .gone, overwritten in chan and not yet noticed; .owed, what
              \* a full reload must bring; .excused, events a page may miss

emitting == <<log, held>>
channel == <<chan, lagged>>

Seqs == 0 .. MaxEvents
MaxOf(a, b) == IF a > b THEN a ELSE b
\* The events above a number, in their order.
Above(n, events) == FoldLeft(LAMBDA kept, s : IF s > n THEN Append(kept, s) ELSE kept, <<>>, events)
Msg(kind, s) == [kind |-> kind, s |-> s]

NewSession == [sub |-> FALSE, cp |-> 0, rep |-> FALSE, buf |-> <<>>, pend |-> FALSE]
Idle == [pc |-> "idle", out |-> <<>>, pos |-> 0, max |-> 0, more |-> FALSE,
         reply |-> Msg("none", 0)]
NoGhost == [gone |-> {}, owed |-> {}, excused |-> {}]
NewTasks == [t \in {"fwd", "cmd"} |-> Idle]

Become(t, r) == task' = [task EXCEPT ![t] = r]
\* *cp = (*cp).max(s), if the run is still subscribed
Advanced(s) == IF sess.sub THEN [sess EXCEPT !.cp = MaxOf(@, s)] ELSE sess
Unsent == sess.cp + 1 .. log
Fault == faults < MaxFaults /\ faults' = faults + 1

-----------------------------------------------------------------------------
\* persist_and_emit_durable: the number is given, and the line written, under
\* the writer's lock; the broadcast follows outside it.
Persist(e) ==
    /\ log < MaxEvents /\ held[e] = 0
    /\ log' = log + 1
    /\ held' = [held EXCEPT ![e] = log + 1]
    /\ UNCHANGED <<channel, sess, task, conn, up, wire, faults, ghost>>

\* A full channel overwrites its oldest message and the receiver lags.
Publish(e) ==
    /\ held[e] # 0
    /\ held' = [held EXCEPT ![e] = 0]
    /\ LET queue == Append(chan, held[e])
           full == conn = "up" /\ Len(queue) > ChanCap
       IN /\ chan' = IF full THEN Tail(queue) ELSE IF conn = "up" THEN queue ELSE chan
          /\ lagged' = (lagged \/ full)
          /\ ghost' = [ghost EXCEPT
                !.gone = @ \cup (IF full THEN {Head(queue)} ELSE {}),
                !.excused = @ \cup (Range(held) \cap 1 .. held[e] - 1)]
    /\ UNCHANGED <<log, sess, task, conn, up, wire, faults>>

-----------------------------------------------------------------------------
\* a_forward, Ok(msg)
Receiving(s) ==
    /\ conn = "up" /\ task["fwd"].pc = "idle" /\ ~lagged
    /\ chan # <<>> /\ s = Head(chan)
    /\ chan' = Tail(chan)
    /\ UNCHANGED <<emitting, lagged, conn, up, wire, faults, ghost>>

FwdSkip ==
    \E s \in Seqs :
        /\ Receiving(s)
        /\ \/ ~sess.sub
           \/ sess.rep /\ Len(sess.buf) >= BufCap
           \/ ~sess.rep /\ s <= sess.cp
        /\ UNCHANGED <<sess, task>>

FwdBuffer ==
    \E s \in Seqs :
        /\ Receiving(s)
        /\ sess.sub /\ sess.rep /\ Len(sess.buf) < BufCap
        /\ sess' = [sess EXCEPT !.buf = Append(@, s)]
        /\ UNCHANGED task

FwdTake ==
    \E s \in Seqs :
        /\ Receiving(s)
        /\ sess.sub /\ ~sess.rep /\ s > sess.cp
        /\ Become("fwd", [Idle EXCEPT !.pc = "event", !.max = s])
        /\ UNCHANGED sess

FwdSend ==
    /\ task["fwd"].pc = "event"
    /\ wire' = Append(wire, Msg("event", task["fwd"].max))
    /\ Become("fwd", [task["fwd"] EXCEPT !.pc = "mark"])
    /\ UNCHANGED <<emitting, channel, sess, conn, up, faults, ghost>>

FwdMark ==
    /\ task["fwd"].pc = "mark"
    /\ sess' = Advanced(task["fwd"].max)
    /\ Become("fwd", Idle)
    /\ UNCHANGED <<emitting, channel, conn, up, wire, faults, ghost>>

\* Err(Lagged): replay from the checkpoint, but not a run that is being
\* replayed already or waits for its client's reload.
FwdLagged ==
    /\ conn = "up" /\ task["fwd"].pc = "idle" /\ lagged
    /\ lagged' = FALSE
    /\ IF sess.sub /\ ~sess.rep /\ ~sess.pend
         THEN /\ sess' = [sess EXCEPT !.rep = TRUE]
              /\ Become("fwd", [Idle EXCEPT !.pc = "read", !.pos = sess.cp])
              /\ ghost' = [ghost EXCEPT !.gone = {}]
         ELSE /\ UNCHANGED <<sess, task>>
              /\ ghost' = [ghost EXCEPT !.gone = {}, !.excused = @ \cup
                             (IF sess.sub THEN ghost.gone ELSE {})]
    /\ UNCHANGED <<emitting, chan, conn, up, wire, faults>>

-----------------------------------------------------------------------------
\* cmd_loop takes the next request of the client.
Taking(kind) ==
    /\ task["cmd"].pc = "idle"
    /\ up # <<>> /\ Head(up).kind = kind
    /\ up' = Tail(up)

Subscribe ==
    /\ Taking("subscribe")
    /\ LET from == MaxOf(sess.cp, Head(up).s) IN
       /\ sess' = [sess EXCEPT !.sub = TRUE, !.cp = from, !.pend = FALSE, !.rep = TRUE]
       /\ Become("cmd", [Idle EXCEPT !.pc = IF sess.rep THEN "reply" ELSE "read",
                                     !.pos = from, !.reply = Msg("ack", 0)])
    /\ ghost' = [ghost EXCEPT !.owed = {}]
    /\ UNCHANGED <<emitting, channel, conn, wire, faults>>

\* The client has no pending request for the reply, which is left out.
Unsubscribe ==
    /\ Taking("unsubscribe")
    /\ sess' = NewSession
    /\ UNCHANGED <<emitting, channel, task, conn, wire, faults, ghost>>

\* The reads of a history load (summary, page, catch-up pages), as the last of
\* them: it goes through dispatch_command and reaches the end of the log.
ReadHistory ==
    /\ Taking("load")
    /\ \/ Become("cmd", [Idle EXCEPT !.pc = "reply", !.reply = Msg("history", log)])
          /\ UNCHANGED faults
       \/ Become("cmd", [Idle EXCEPT !.pc = "reply", !.reply = Msg("noHistory", 0)])
          /\ Fault
    /\ UNCHANGED <<emitting, channel, sess, conn, wire, ghost>>

Reply ==
    /\ task["cmd"].pc = "reply"
    /\ wire' = Append(wire, task["cmd"].reply)
    /\ Become("cmd", Idle)
    /\ UNCHANGED <<emitting, channel, sess, conn, up, faults, ghost>>

-----------------------------------------------------------------------------
\* replay_events, by either task: a page is read, then its events are sent.
AtPage(t) ==
    \/ task[t].pc = "read"
    \/ task[t].pc = "send" /\ task[t].out = <<>> /\ task[t].more

Done(t) == IF t = "fwd" THEN Idle ELSE [task[t] EXCEPT !.pc = "reply"]

ReplayPage(t) ==
    /\ AtPage(t)
    /\ LET pos == task[t].pos
           n == IF log - pos > PageSize THEN PageSize ELSE log - pos
       IN Become(t, [task[t] EXCEPT !.pc = "send", !.more = pos + n < log,
                                    !.out = [i \in 1 .. n |-> pos + i]])
    /\ UNCHANGED <<emitting, channel, sess, conn, up, wire, faults, ghost>>

ReplayFails(t) ==
    /\ AtPage(t) /\ Fault
    /\ Become(t, [task[t] EXCEPT !.pc = "reload", !.reply = Msg("nack", 0)])
    /\ UNCHANGED <<emitting, channel, sess, conn, up, wire, ghost>>

ReplaySend(t) ==
    /\ task[t].pc = "send" /\ task[t].out # <<>>
    /\ wire' = Append(wire, Msg("event", Head(task[t].out)))
    /\ Become(t, [task[t] EXCEPT !.pos = Head(task[t].out), !.out = Tail(@)])
    /\ UNCHANGED <<emitting, channel, sess, conn, up, faults, ghost>>

\* advance_checkpoint
ReplayDone(t) ==
    /\ task[t].pc = "send" /\ task[t].out = <<>> /\ ~task[t].more
    /\ sess' = Advanced(task[t].pos)
    /\ Become(t, [task[t] EXCEPT !.pc = "drain", !.max = 0])
    /\ UNCHANGED <<emitting, channel, conn, up, wire, faults, ghost>>

\* Mutant: a_forward forwards again while the buffer is still being sent.
DrainOpensEarly(t) ==
    /\ task[t].pc = "drain"
    /\ sess' = [sess EXCEPT !.buf = <<>>, !.rep = FALSE]
    /\ Become(t, IF sess.buf = <<>> THEN Done(t)
                 ELSE [task[t] EXCEPT !.pc = "flush", !.out = sess.buf])
    /\ UNCHANGED <<emitting, channel, conn, up, wire, faults, ghost>>

\* flush_replay_buffer: an empty buffer ends the replay, a full one means that
\* events were not buffered, and others are sent outside the lock.
Drain(t) ==
    /\ task[t].pc = "drain"
    /\ \/ /\ sess.buf = <<>>
          /\ sess' = [Advanced(task[t].max) EXCEPT !.rep = FALSE]
          /\ Become(t, Done(t))
          /\ UNCHANGED ghost
       \/ /\ Len(sess.buf) >= BufCap
          /\ sess' = [sess EXCEPT !.buf = <<>>, !.rep = FALSE]
          /\ Become(t, [task[t] EXCEPT !.pc = "reload", !.reply = Msg("nack", 0)])
          /\ ghost' = [ghost EXCEPT !.owed = @ \cup Unsent]
       \/ /\ Len(sess.buf) \in 1 .. BufCap - 1
          /\ sess' = [sess EXCEPT !.buf = <<>>]
          /\ LET checkpoint == MaxOf(sess.cp, task[t].max) IN
             Become(t, [task[t] EXCEPT !.pc = "flush",
                        !.out = Above(checkpoint, sess.buf)])
          /\ UNCHANGED ghost
    /\ UNCHANGED <<emitting, channel, conn, up, wire, faults>>

FlushSend(t) ==
    /\ task[t].pc = "flush" /\ task[t].out # <<>>
    /\ wire' = Append(wire, Msg("event", Head(task[t].out)))
    /\ Become(t, [task[t] EXCEPT !.max = MaxOf(@, Head(task[t].out)), !.out = Tail(@)])
    /\ UNCHANGED <<emitting, channel, sess, conn, up, faults, ghost>>

FlushMark(t) ==
    /\ task[t].pc = "flush" /\ task[t].out = <<>>
    /\ sess' = Advanced(task[t].max)
    /\ Become(t, [task[t] EXCEPT !.pc = "drain"])
    /\ UNCHANGED <<emitting, channel, conn, up, wire, faults, ghost>>

\* send_full_reload: begin_full_reload under the lock, then one message unless
\* the client owes a subscription for an earlier one.
BeginFullReload(t) ==
    /\ task[t].pc = "reload"
    /\ sess' = [sess EXCEPT !.buf = <<>>, !.rep = FALSE, !.pend = TRUE]
    /\ Become(t, IF sess.pend THEN Done(t) ELSE [task[t] EXCEPT !.pc = "announce"])
    /\ ghost' = [ghost EXCEPT !.owed = @ \cup Unsent]
    /\ UNCHANGED <<emitting, channel, conn, up, wire, faults>>

SendFullReload(t) ==
    /\ task[t].pc = "announce"
    /\ wire' = Append(wire, Msg("reload", 0))
    /\ Become(t, Done(t))
    /\ UNCHANGED <<emitting, channel, sess, conn, up, faults, ghost>>

Replaying(t) ==
    \/ ReplayPage(t) \/ ReplaySend(t) \/ ReplayDone(t) \/ Drain(t) \/ FlushSend(t)
    \/ FlushMark(t) \/ BeginFullReload(t) \/ SendFullReload(t)

Forwarding == FwdSkip \/ FwdBuffer \/ FwdTake \/ FwdSend \/ FwdMark \/ FwdLagged
                  \/ Replaying("fwd")
Commands == Subscribe \/ Unsubscribe \/ ReadHistory \/ Reply \/ Replaying("cmd")

\* What handle_ws starts with: an empty session, tasks at their first await and
\* a receiver that sees only what is broadcast from now on.  A _full_reload that
\* was not delivered is forgotten, and what it owed the page with it.
Failing == \E t \in DOMAIN task : task[t].pc \in {"reload", "announce"}
Undelivered == Failing \/ Msg("reload", 0) \in Range(wire)
FreshServer ==
    /\ sess' = NewSession /\ task' = NewTasks
    /\ chan' = <<>> /\ lagged' = FALSE
    /\ wire' = <<>>
    /\ ghost' = [NoGhost EXCEPT !.excused = ghost.excused \cup
                    (IF Undelivered THEN ghost.owed ELSE {})]
=============================================================================
