----------------------------- MODULE WsDelivery -----------------------------
(***************************************************************************)
(* Delivery of a run's events to one browser page: WsSession on the        *)
(* server, and on the client, for the same run, the WsTransport (tr), the  *)
(* EventMiddleware (mw) and the SessionStore (st).  The page opens a run   *)
(* with loadRun, or creates it and subscribes from 0; the connection is    *)
(* lost and made again; the user leaves the run and comes back.            *)
(*                                                                         *)
(* The client is single-threaded: the handler of a message, with the       *)
(* promise reactions that follow it, is one action.  Replies come in the   *)
(* order of the requests, so tr.old and st.stale count the replies that    *)
(* belong to requests the client no longer waits for.                      *)
(***************************************************************************)
EXTENDS WsSession

CONSTANTS
    Attempts,      \* _FULL_RELOAD_MAX_ATTEMPTS (3)
    MaxDrops,      \* bound: connections lost
    MaxVisits,     \* bound: times the page opens the run
    OtherInvokes   \* other parts of the page make requests of their own

ASSUME WsDeliveryAssumption ==
    /\ Attempts \in Nat \ {0} /\ MaxDrops \in Nat /\ MaxVisits \in Nat
    /\ OtherInvokes \in BOOLEAN

VARIABLES tr, mw, st, drops, visits

client == <<tr, mw, st>>
vars == <<log, held, chan, lagged, sess, task, conn, up, wire, faults, ghost,
          tr, mw, st, drops, visits>>

NewTransport == [last |-> 0, intent |-> FALSE, live |-> FALSE, susp |-> FALSE,
                 need |-> FALSE, att |-> "none", old |-> 0]
NewMiddleware == [load |-> FALSE, buf |-> <<>>, reload |-> 0, again |-> FALSE]
NewStore == [page |-> "closed", pc |-> "idle", last |-> 0, timeline |-> <<>>, stale |-> 0]

Init ==
    /\ log = 0 /\ held = [e \in Emitters |-> 0]
    /\ chan = <<>> /\ lagged = FALSE
    /\ sess = NewSession /\ task = NewTasks
    /\ conn = "up" /\ up = <<>> /\ wire = <<>>
    /\ tr = NewTransport /\ mw = NewMiddleware /\ st = NewStore
    /\ ghost = NoGhost
    /\ faults = 0 /\ drops = 0 /\ visits = 0

-----------------------------------------------------------------------------
(* WsTransport.  Operators from one transport to the next.                 *)

Unanswered(t) == t.old + (IF t.att = "none" THEN 0 ELSE 1)

\* subscribeRun on an open connection, up to its request
SubscribeRun(t, seq, live) ==
    [last |-> MaxOf(t.last, seq), intent |-> TRUE, live |-> live, susp |-> FALSE,
     need |-> FALSE, att |-> "own", old |-> Unanswered(t)]

\* unsubscribeRun
UnsubscribeRun(t) == [NewTransport EXCEPT !.old = Unanswered(t)]

\* The catch clauses of confirmSubscription and, for its own attempt, of
\* subscribeRun: a new session retries, a history load must ask again.
AttemptFailed(t) ==
    CASE t.att = "none" -> t
      [] t.att = "resub" -> [t EXCEPT !.att = "none", !.need = TRUE]
      [] t.att = "own" -> [t EXCEPT !.att = "none", !.need = t.live, !.susp = ~t.live]

\* Mutant: the subscription is forgotten with its connection.
ClosedForgets(t) == [AttemptFailed(t) EXCEPT !.old = 0]

\* onclose: what was subscribed must be again, pending requests are rejected.
Closed(t) ==
    [AttemptFailed([t EXCEPT !.need = @ \/ (t.intent /\ ~t.susp)]) EXCEPT !.old = 0]

\* resubscribeAll; replies to requests made on another socket never come.
Resubscribes(t) == t.need /\ t.intent /\ ~t.susp
Opened(t) == IF Resubscribes(t) THEN [t EXCEPT !.att = "resub", !.old = 0]
                                ELSE [t EXCEPT !.need = FALSE, !.old = 0]

-----------------------------------------------------------------------------
(* SessionStore and EventMiddleware.                                       *)

\* loadRun up to its first await: beginHistoryLoad and _clearContentState
StartLoad(s) ==
    [page |-> "open", pc |-> "start", last |-> 0, timeline |-> <<>>,
     stale |-> s.stale + (IF s.pc = "history" THEN 1 ELSE 0)]

\* _requestFullReload
RequestFullReload ==
    IF mw.reload > 0
      THEN mw' = [mw EXCEPT !.again = TRUE] /\ UNCHANGED st
      ELSE mw' = [mw EXCEPT !.load = TRUE, !.reload = Attempts] /\ st' = StartLoad(st)

\* applyEvent drops a number that is not above the last one, applyEventBatch
\* applies whatever it is given.
Apply(s, events) ==
    IF Len(events) = 1 /\ Head(events) <= s.last
      THEN s
      ELSE [s EXCEPT !.timeline = @ \o events,
                     !.last = FoldLeft(MaxOf, @, events)]

\* loadRun fails: cancelHistoryLoad, and a full reload tries again or, after the
\* last attempt, gives up its subscription.
Exhausted == mw.reload = 1

\* Mutant: a load that no full reload asked for uses up an attempt as well.
LoadFailedCounts(stale) ==
    /\ mw' = [NewMiddleware EXCEPT !.reload = mw.reload - 1]
    /\ st' = [st EXCEPT !.page = "failed", !.stale = stale, !.pc = "idle"]

LoadFailed(stale) ==
    /\ mw' = [load |-> FALSE, buf |-> <<>>, again |-> mw.again /\ ~Exhausted,
              reload |-> IF mw.reload = 0 THEN 0 ELSE mw.reload - 1]
    /\ st' = [st EXCEPT !.page = "failed", !.stale = stale,
                        !.pc = IF mw.reload > 1 THEN "retry" ELSE "idle"]
GivesUp(t) == IF Exhausted THEN UnsubscribeRun(t) ELSE t

\* Mutant: what arrived while the history was loaded is dropped.
LoadFinishedDropsBuffer ==
    mw' = NewMiddleware /\ st' = [st EXCEPT !.pc = "idle"]

\* The subscription is acknowledged: finishHistoryLoad, and a reload that was
\* asked for in the meantime starts.
LoadFinished ==
    LET released == Above(st.last, mw.buf)
        loaded == Apply([st EXCEPT !.pc = "idle"], released)
    IN IF mw.again
         THEN /\ mw' = [load |-> TRUE, buf |-> <<>>, reload |-> Attempts, again |-> FALSE]
              /\ st' = StartLoad(loaded)
         ELSE mw' = NewMiddleware /\ st' = loaded

-----------------------------------------------------------------------------
(* The user.                                                               *)

\* The run's page is opened: subscribeCurrent and loadRun.
OpenRun ==
    /\ st.page = "closed" /\ visits < MaxVisits
    /\ visits' = visits + 1
    /\ mw' = [mw EXCEPT !.load = TRUE]
    /\ st' = StartLoad(st)
    /\ UNCHANGED <<log, held, chan, lagged, sess, task, conn, up, wire, faults, ghost, tr, drops>>

\* A run is created from this page: _wsSubscribeNewSession.
StartSession ==
    /\ st.page = "closed" /\ visits = 0 /\ visits < MaxVisits /\ log = 0
    /\ conn = "up"
    /\ visits' = visits + 1
    /\ st' = [st EXCEPT !.page = "open"]
    /\ tr' = SubscribeRun(tr, 0, TRUE)
    /\ up' = Append(up, Msg("subscribe", 0))
    /\ UNCHANGED <<log, held, chan, lagged, sess, task, conn, wire, faults, ghost, mw, drops>>

\* Another run is opened (not while a full reload of this one is under way).
LeaveRun ==
    /\ st.page # "closed" /\ mw.reload = 0
    /\ tr' = UnsubscribeRun(tr)
    /\ mw' = NewMiddleware
    /\ st' = [NewStore EXCEPT !.stale = StartLoad(st).stale]
    /\ up' = IF conn = "up" THEN Append(up, Msg("unsubscribe", 0)) ELSE up
    /\ UNCHANGED <<log, held, chan, lagged, sess, task, conn, wire, faults, ghost, drops, visits>>

-----------------------------------------------------------------------------
(* The client's own steps.                                                 *)

\* The history requests of loadRun, once ensureConnected has returned
RequestHistory ==
    /\ st.pc = "start" /\ conn = "up"
    /\ st' = [st EXCEPT !.pc = "history"]
    /\ up' = Append(up, Msg("load", 0))
    /\ UNCHANGED <<log, held, chan, lagged, sess, task, conn, wire, faults, ghost, tr, mw, drops, visits>>

RetryReload ==
    /\ st.pc = "retry"
    /\ mw' = [mw EXCEPT !.load = TRUE]
    /\ st' = StartLoad(st)
    /\ UNCHANGED <<log, held, chan, lagged, sess, task, conn, up, wire, faults, ghost, tr, drops, visits>>

\* _flush of the microbatch
Flush ==
    /\ st.page # "closed" /\ mw.buf # <<>> /\ ~mw.load
    /\ st' = Apply(st, mw.buf)
    /\ mw' = [mw EXCEPT !.buf = <<>>]
    /\ UNCHANGED <<log, held, chan, lagged, sess, task, conn, up, wire, faults, ghost, tr, drops, visits>>

\* connect and its onopen, after a timer or for a request
Connect ==
    /\ conn = "down"
    /\ conn' = "up"
    /\ tr' = Opened(tr)
    /\ up' = IF Resubscribes(tr) THEN <<Msg("subscribe", tr.last)>> ELSE <<>>
    /\ FreshServer
    /\ UNCHANGED <<log, held, faults, mw, st, drops, visits>>

\* The connection that loadRun waits for is refused.
ConnectFails ==
    /\ conn = "down" /\ st.pc = "start" /\ Fault
    /\ LoadFailed(0)
    /\ tr' = GivesUp(tr)
    /\ UNCHANGED <<log, held, chan, lagged, sess, task, conn, up, wire, ghost, drops, visits>>

\* onclose: LoadFailed if loadRun waits for a reply on this connection
ConnectionLost ==
    /\ conn' = "down"
    /\ IF st.pc \in {"history", "ack", "hung"}
         THEN LoadFailed(0) /\ tr' = GivesUp(Closed(tr))
         ELSE mw' = mw /\ st' = [st EXCEPT !.stale = 0] /\ tr' = Closed(tr)

Drop ==
    /\ conn = "up" /\ drops < MaxDrops
    /\ drops' = drops + 1
    /\ ConnectionLost
    /\ up' = <<>> /\ FreshServer
    /\ UNCHANGED <<log, held, faults, visits>>

OnClose ==
    /\ conn = "closing"
    /\ ConnectionLost
    /\ UNCHANGED <<log, held, chan, lagged, sess, task, up, wire, faults, ghost, drops, visits>>

\* A request finds the socket closing and opens another: the old one's onclose
\* will find this.ws changed and return, and reject nothing.
Supersede ==
    /\ conn = "closing"
    /\ OtherInvokes \/ st.pc = "start"
    /\ conn' = "up"
    /\ tr' = Opened(tr)
    /\ up' = IF Resubscribes(tr) THEN <<Msg("subscribe", tr.last)>> ELSE <<>>
    /\ st' = [st EXCEPT !.stale = 0, !.pc = IF @ = "history" THEN "hung" ELSE @]
    /\ FreshServer
    /\ UNCHANGED <<log, held, faults, mw, drops, visits>>

\* confirmSubscription fails and closes the socket, after which no message is
\* delivered; the server's tasks end.
SubscriptionFailed ==
    /\ tr' = AttemptFailed(tr)
    /\ IF st.pc = "ack" THEN LoadFailed(st.stale) ELSE UNCHANGED <<mw, st>>
    /\ conn' = "closing"
    /\ up' = <<>> /\ FreshServer

SubscribeTimeout ==
    /\ conn = "up" /\ tr.att # "none" /\ Fault
    /\ SubscriptionFailed
    /\ UNCHANGED <<log, held, drops, visits>>

-----------------------------------------------------------------------------
(* handleMessage                                                           *)

Delivered(kind) ==
    /\ wire # <<>> /\ Head(wire).kind = kind
    /\ UNCHANGED <<log, held, faults, drops, visits>>

NextMessage ==
    /\ wire' = Tail(wire)
    /\ UNCHANGED <<chan, lagged, sess, task, conn, ghost>>

\* Mutant: what arrives while the history is loaded is not buffered.
OnEventUnbuffered ==
    /\ Delivered("event") /\ NextMessage
    /\ tr' = [tr EXCEPT !.last = MaxOf(@, Head(wire).s)]
    /\ mw' = IF st.page = "closed" \/ mw.load
               THEN mw ELSE [mw EXCEPT !.buf = Append(@, Head(wire).s)]
    /\ UNCHANGED <<st, up>>

OnEvent ==
    /\ Delivered("event") /\ NextMessage
    /\ tr' = [tr EXCEPT !.last = MaxOf(@, Head(wire).s)]
    /\ mw' = IF st.page = "closed" THEN mw ELSE [mw EXCEPT !.buf = Append(@, Head(wire).s)]
    /\ UNCHANGED <<st, up>>

OnFullReload ==
    /\ Delivered("reload") /\ NextMessage
    /\ tr' = [tr EXCEPT !.last = 0, !.need = FALSE, !.live = FALSE, !.susp = TRUE]
    /\ IF st.page = "closed" THEN UNCHANGED <<mw, st>> ELSE RequestFullReload
    /\ UNCHANGED up

\* The history is in place; loadRun goes on to subscribeRun.
OnHistory ==
    /\ Delivered("history") /\ NextMessage
    /\ IF st.stale > 0
         THEN st' = [st EXCEPT !.stale = @ - 1] /\ UNCHANGED <<tr, up>>
         ELSE LET s == Head(wire).s IN
              /\ st' = [st EXCEPT !.pc = "ack", !.last = s, !.timeline = [i \in 1 .. s |-> i]]
              /\ tr' = SubscribeRun(tr, s, FALSE)
              /\ up' = Append(up, Msg("subscribe", tr'.last))
    /\ UNCHANGED mw

OnNoHistory ==
    /\ Delivered("noHistory") /\ NextMessage
    /\ IF st.stale > 0
         THEN st' = [st EXCEPT !.stale = @ - 1] /\ UNCHANGED <<tr, mw, up>>
         ELSE /\ LoadFailed(st.stale) /\ tr' = GivesUp(tr)
              /\ up' = IF Exhausted THEN Append(up, Msg("unsubscribe", 0)) ELSE up

\* An acknowledgement of a superseded request only rejects its caller.
OnAck ==
    /\ Delivered("ack") /\ NextMessage
    /\ IF tr.old > 0
         THEN tr' = [tr EXCEPT !.old = @ - 1] /\ UNCHANGED <<mw, st>>
         ELSE /\ tr' = [tr EXCEPT !.att = "none", !.need = FALSE]
              /\ IF st.pc = "ack" THEN LoadFinished ELSE UNCHANGED <<mw, st>>
    /\ UNCHANGED up

OnNack ==
    /\ Delivered("nack")
    /\ IF tr.old > 0
         THEN /\ tr' = [tr EXCEPT !.old = @ - 1]
              /\ UNCHANGED <<mw, st, up>> /\ NextMessage
         ELSE SubscriptionFailed

Receive == OnEvent \/ OnFullReload \/ OnHistory \/ OnNoHistory \/ OnAck \/ OnNack

-----------------------------------------------------------------------------
Server ==
    /\ \/ \E e \in Emitters : Persist(e) \/ Publish(e)
       \/ Forwarding \/ Commands
       \/ \E t \in {"fwd", "cmd"} : ReplayFails(t)
    /\ UNCHANGED <<client, drops, visits>>

Client == OpenRun \/ StartSession \/ LeaveRun \/ RequestHistory \/ RetryReload \/ Flush
              \/ Connect \/ ConnectFails \/ Drop \/ OnClose \/ Supersede
              \/ SubscribeTimeout \/ Receive

Next == Server \/ Client

Spec == Init /\ [][Next]_vars

\* Every task of the server and every handler and timer of the client goes on;
\* nothing obliges an emitter to emit or a user to act.
Fairness ==
    /\ \A e \in Emitters : WF_vars(Publish(e) /\ UNCHANGED <<client, drops, visits>>)
    /\ WF_vars(Forwarding /\ UNCHANGED <<client, drops, visits>>)
    /\ WF_vars(Commands /\ UNCHANGED <<client, drops, visits>>)
    /\ WF_vars(RequestHistory) /\ WF_vars(RetryReload) /\ WF_vars(Flush)
    /\ WF_vars(Connect) /\ WF_vars(OnClose) /\ WF_vars(Receive)

FairSpec == Spec /\ Fairness

-----------------------------------------------------------------------------
TypeOK ==
    /\ log \in Seqs /\ held \in [Emitters -> Seqs]
    /\ chan \in Seq(Seqs) /\ Len(chan) <= ChanCap /\ lagged \in BOOLEAN
    /\ sess \in [sub : BOOLEAN, cp : Seqs, rep : BOOLEAN, buf : Seq(Seqs), pend : BOOLEAN]
    /\ Len(sess.buf) <= BufCap
    /\ conn \in {"up", "closing", "down"}
    /\ tr \in [last : Seqs, intent : BOOLEAN, live : BOOLEAN, susp : BOOLEAN,
               need : BOOLEAN, att : {"none", "own", "resub"}, old : Nat]
    /\ mw \in [load : BOOLEAN, buf : Seq(Seqs), reload : 0 .. Attempts, again : BOOLEAN]
    /\ st \in [page : {"closed", "open", "failed"},
               pc : {"idle", "start", "history", "hung", "ack", "retry"},
               last : Seqs, timeline : Seq(Seqs), stale : Nat]

Shown == Range(st.timeline)
Loaded == st.page = "open" /\ st.pc = "idle" /\ ~sess.pend /\ ~Failing
Due(S) == S \ ghost.excused

\* A loaded page that is not about to be reloaded has no hole in its timeline up
\* to the number below which the store drops what arrives, except for events
\* the history variable names: a later number was broadcast first; a_forward
\* lagged while the run was replayed or reloading; the connection ended with a
\* _full_reload under way.
NoHole == Loaded => Due(1 .. st.last) \subseteq Shown

\* The timeline shows no event ahead of one that precedes it in the log, although
\* two tasks of the server write to one socket and batches are applied unseen.
\* (It may show an event twice: applyEventBatch does not look at numbers.)
InOrder ==
    Loaded => \A i \in DOMAIN st.timeline :
        Due(1 .. st.timeline[i] - 1) \subseteq {st.timeline[j] : j \in 1 .. i - 1}

\* What the transport will tell the next connection not to send again is on the
\* page or in the middleware's buffer.
CheckpointHonest ==
    Loaded /\ tr.intent /\ ~tr.susp => Due(1 .. tr.last) \subseteq Shown \cup Range(mw.buf)

\* Through lost connections, failed replays and reloads an open page shows every
\* event of the log in the end, or its user is told that loading failed.
CaughtUp ==
    \A s \in 1 .. MaxEvents :
        log >= s ~> st.page # "open" \/ s \in Shown \cup ghost.excused

\* A-class events are reliable: when nothing is under way any more, a loaded page
\* that is subscribed shows the whole log.
EveryEventShown ==
    (/\ Loaded /\ conn = "up" /\ sess.sub /\ ~sess.rep
     /\ \A e \in Emitters : held[e] = 0
     /\ \A t \in DOMAIN task : task[t] = Idle
     /\ ~lagged /\ chan = <<>> /\ up = <<>> /\ wire = <<>> /\ mw.buf = <<>>)
        => 1 .. log \subseteq Shown
=============================================================================
