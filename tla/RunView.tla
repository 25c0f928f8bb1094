------------------------------ MODULE RunView ------------------------------
(***************************************************************************)
(* What the chat page shows: loads, resumes, forks, new conversations and    *)
(* older pages, each a chain of awaits, and a user who goes elsewhere in the *)
(* middle of them (lib/stores/session-store.svelte.ts, event-middleware.ts,  *)
(* the route effect and handlers of routes/chat/+page.svelte).              *)
(*                                                                         *)
(* There is one store.  An operation notes the generation it began in, and   *)
(* gives up after an await when there is a newer one.  Events of the run     *)
(* that is subscribed arrive in order, and wait in a buffer during a load.   *)
(*                                                                         *)
(* An answer is read when it is taken.  How events become cards, and that    *)
(* one that comes twice makes one card, is in ChatTimeline; connections that *)
(* lose events are in WsDelivery; here they come as in the desktop window.   *)
(***************************************************************************)
EXTENDS Integers, Sequences, FiniteSets

CONSTANTS
  Chats,     \* runs there are at first
  Fresh,     \* runs that are made
  MaxLog,    \* bound: events of a run
  MaxOps     \* bound: operations of the user

VARIABLES
  page,      \* the store, the route and the subscription
  gen,       \* _loadGen
  ops,       \* the operations, in the order they were begun
  holding,   \* _historyLoads: the load that buffers events of a run
  buffer,    \* the events it holds back
  log,       \* the events of each run, as persisted
  alive,     \* the runs with a session
  wire,      \* events emitted that the page has not seen
  mishaps    \* history: the known ways in which operations disturb each other

backend == <<log, alive, wire>>
held == <<holding, buffer>>
vars == <<page, gen, ops, held, backend, mishaps>>

None == "none"
AllRuns == Chats \cup Fresh
Known == {r \in AllRuns : log[r] # <<>>}
Steps == {"create", "getRun", "stop", "stopped", "interrupt", "again", "page", "catchup", "page2",
          "catchup2", "subscribe", "fork", "forked", "spawn", "spawned", "send", "older", "done"}

(* "misaimed": a stop, when its interrupt is answered, stops another run    *)
(* than it was asked to; "overtaken": a getRun that is late gave the page   *)
(* another run than the one it loads; "wiped": a catch-up that is late      *)
(* cleared the page; "strayed": the user went back while a resume and a load*)
(* were under way, and no load was begun; "deaf": the page shows a run it is*)
(* not subscribed to; "misled": the page was told of another session's end, *)
(* or waits for one that has not begun; "missed": a session ended or began  *)
(* between two reads of a load; "unread": a load failed; "crossed": a load  *)
(* was under way when a resume began, or was done anew under older pages.   *)
Mishaps == {"overtaken", "wiped", "strayed", "deaf", "misled", "missed", "unread", "crossed",
            "misaimed"}

TypeOK ==
  /\ page.route \in AllRuns \cup {None} /\ page.run \in AllRuns \cup {None}
  /\ page.sub \in AllRuns \cup {None}
  /\ page.phase \in {"empty", "loading", "live", "dead", "failed"}
  /\ page.seq \in 0..MaxLog /\ page.cursor \in 0..MaxLog /\ page.older \in BOOLEAN
  /\ gen \in Nat /\ \A i \in DOMAIN ops : ops[i].at \in Steps
  /\ holding \in [AllRuns -> 0..Len(ops)]
  /\ \A r \in AllRuns : Len(log[r]) <= MaxLog
                        /\ \A k \in DOMAIN log[r] : log[r][k] \in {"on", "off", "say"}
  /\ alive \subseteq AllRuns
  /\ mishaps \subseteq Mishaps

(* A store without a run: _clearContentState, reset. *)
Cleared(p) == [p EXCEPT !.shown = <<>>, !.seq = 0, !.cursor = 0, !.older = FALSE]
Blank == [route |-> None, run |-> None, phase |-> "empty", sub |-> None,
          shown |-> <<>>, seq |-> 0, cursor |-> 0, older |-> FALSE]

Init ==
  /\ page = Blank /\ gen = 0 /\ ops = <<>>
  /\ holding = [r \in AllRuns |-> 0] /\ buffer = [r \in AllRuns |-> <<>>]
  /\ alive \in SUBSET Chats
  /\ log = [r \in AllRuns |-> IF r \in Fresh THEN <<>> ELSE IF r \in alive THEN <<"on">>
                              ELSE <<"on", "off">>]
  /\ wire = <<>> /\ mishaps = {}

-----------------------------------------------------------------------------
(* The reducer: applyEvent, applyEventBatch.  An event is <<run, number>>.    *)

Numbers(r, from, to) == [k \in 1..(to - from) |-> <<r, from + k>>]
KindOf(e) == log[e[1]][e[2]]

PhaseAfter(phase, events) ==
  LET states == {k \in DOMAIN events : KindOf(events[k]) # "say"}
      last == CHOOSE k \in states : \A j \in states : j <= k
  IN IF states = {} THEN phase ELSE IF KindOf(events[last]) = "on" THEN "live" ELSE "dead"

Unseen(p, events) ==
  SelectSeq(events, LAMBDA e : \A k \in DOMAIN p.shown : p.shown[k] # e)

Applied(p, events, replayOnly) ==
  LET top == IF events = <<>> THEN 0 ELSE events[Len(events)][2]
  IN [p EXCEPT !.shown = @ \o Unseen(p, events), !.seq = IF top > @ THEN top ELSE @,
               !.phase = IF replayOnly THEN @ ELSE PhaseAfter(@, events)]

-----------------------------------------------------------------------------
(* The middleware *)

(* subscribeCurrent: the buffer of the run that was subscribed goes. *)
Subscribed(p, r) == [p EXCEPT !.sub = r]
Dropped(f, none, r) == [x \in AllRuns |-> IF x = page.sub /\ page.sub # r THEN none ELSE f[x]]
Switch(r) == holding' = Dropped(holding, 0, r) /\ buffer' = Dropped(buffer, <<>>, r)

(* cancelHistoryLoad, by the load that holds the run. *)
Holds(i) == holding[ops[i].run] = i
Release(i) ==
  IF Holds(i) THEN /\ holding' = [holding EXCEPT ![ops[i].run] = 0]
                   /\ buffer' = [buffer EXCEPT ![ops[i].run] = <<>>]
  ELSE UNCHANGED held

(* finishHistoryLoad: what the page has not seen is applied. *)
Newer(p, events) == SelectSeq(events, LAMBDA e : e[2] > p.seq)

(* _handleBusEvent and _flush: an event of its own is looked at for its run   *)
(* and number (applyEvent), those that come in a batch are not.             *)
Deliver(n) ==
  /\ n <= Len(wire)
  /\ LET events == SubSeq(wire, 1, n)
         r == wire[1][1]
         late == n = 1 /\ (page.run # r \/ wire[1][2] <= page.seq)
     IN /\ \A k \in 1..n : events[k][1] = r
        /\ IF page.sub # r THEN UNCHANGED <<page, buffer>>
           ELSE IF holding[r] # 0
           THEN buffer' = [buffer EXCEPT ![r] = @ \o events] /\ UNCHANGED page
           ELSE page' = (IF late THEN page ELSE Applied(page, events, FALSE)) /\ UNCHANGED buffer
  /\ wire' = SubSeq(wire, n + 1, Len(wire))
  /\ UNCHANGED <<gen, ops, holding, log, alive, mishaps>>

-----------------------------------------------------------------------------
(* The sessions: what they emit is persisted first. *)

Emit(r, kind) ==
  /\ log' = [log EXCEPT ![r] = Append(@, kind)]
  /\ wire' = Append(wire, <<r, Len(log[r]) + 1>>)

Says(r) ==
  /\ r \in alive /\ Len(log[r]) < MaxLog - 1
  /\ Emit(r, "say")
  /\ UNCHANGED <<alive, page, gen, ops, held, mishaps>>

Killed(r) ==
  IF r \in alive /\ Len(log[r]) < MaxLog THEN alive' = alive \ {r} /\ Emit(r, "off")
  ELSE UNCHANGED backend

Dies(r) ==
  /\ r \in alive /\ Len(log[r]) < MaxLog
  /\ Killed(r)
  /\ UNCHANGED <<page, gen, ops, held, mishaps>>

-----------------------------------------------------------------------------
(* Operations *)

Begun(kind, r, g, at) ==
  [kind |-> kind, run |-> r, gen |-> g, at |-> at, from |-> page.cursor, read |-> <<>>]
Resumes == {"resume", "fork", "connect"}
Room == Len(ops) < MaxOps
Unused == {r \in Fresh \ Known : \A i \in DOMAIN ops : ops[i].run # r}
Resuming == \E i \in DOMAIN ops : ops[i].kind \in Resumes /\ ops[i].at # "done"
At(i, at) == ops[i].at = at
Over(op) == [op EXCEPT !.at = "done", !.kind = "load", !.gen = 0, !.from = 0, !.read = <<>>]
Goes(i, at) ==
  ops' = IF at = "done" THEN [ops EXCEPT ![i] = Over(@)] ELSE [ops EXCEPT ![i].at = at]
Stale(i) == ops[i].gen # gen
Mishap(name, happens) == mishaps' = IF happens THEN mishaps \cup {name} ELSE mishaps

(* loadRun, up to its first await: begun over the page p. *)
LoadOver(p, r, os) ==
  /\ gen' = gen + 1
  /\ IF r = None
     THEN page' = [Cleared(p) EXCEPT !.run = None, !.phase = "empty"] /\ ops' = os
     ELSE /\ page' = [Cleared(p) EXCEPT !.phase = "loading"]
          /\ ops' = Append(os, Begun("load", r, gen + 1, "getRun"))

(* The route effect of the page: subscribe, invalidate, and load unless a    *)
(* resume owns the run or it is alive on the page already.                  *)
Navigate(r) ==
  /\ r # page.route /\ Room
  /\ LET shown == [Subscribed(page, r) EXCEPT !.route = r]
         begins == r # page.run \/ ~(Resuming \/ (r # None /\ page.phase = "live"))
         cleared == Dropped(holding, 0, r)
     IN /\ IF begins THEN LoadOver(shown, r, ops) ELSE page' = shown /\ UNCHANGED <<gen, ops>>
        /\ holding' = IF begins /\ r # None THEN [cleared EXCEPT ![r] = Len(ops) + 1] ELSE cleared
        /\ buffer' = Dropped(buffer, <<>>, r)
        /\ IF begins THEN mishaps' = {} ELSE Mishap("strayed", page.phase = "loading")
  /\ r \in Known \cup {None}
  /\ UNCHANGED backend

(* api.getRun.  The store takes the run before it looks whether it is late;  *)
(* a resume looks first.                                                    *)
LoadGetRun(i) ==
  /\ At(i, "getRun") /\ ops[i].kind = "load"
  /\ LET r == ops[i].run
     IN /\ page' = IF Stale(i) THEN [page EXCEPT !.run = r]
                   ELSE [page EXCEPT !.run = r, !.phase = IF r \in alive THEN "live" ELSE "dead"]
        /\ Mishap("overtaken", Stale(i) /\ page.run # r)
        /\ IF Stale(i) THEN Goes(i, "done") /\ Release(i) ELSE Goes(i, "page") /\ UNCHANGED held
  /\ UNCHANGED <<gen, backend>>

(* History that is read does not overtake the events it holds: both come the *)
(* same way.                                                                *)
Arrived(i) == \A k \in DOMAIN wire : wire[k][1] # ops[i].run

(* _loadLatestHistory and _applyHistoryPage: the newest page is one event. A *)
(* load of a run that has ended does not ask for what came after.           *)
HistoryPage(i) ==
  /\ ops[i].at \in {"page", "page2"} /\ Arrived(i)
  /\ LET r == ops[i].run
         n == Len(log[r])
         ended == ops[i].kind = "load" /\ page.phase = "dead" /\ At(i, "page")
     IN IF Stale(i) THEN Goes(i, "done") /\ Release(i) /\ UNCHANGED page
        ELSE /\ page' = [page EXCEPT !.shown = Numbers(r, IF n = 0 THEN 0 ELSE n - 1, n),
                                     !.seq = n, !.cursor = n]
             /\ Goes(i, IF ended THEN "subscribe"
                        ELSE IF At(i, "page") THEN "catchup" ELSE "catchup2")
             /\ UNCHANGED held
  /\ Mishap("missed", /\ ~Stale(i) /\ ops[i].kind = "load"
                      /\ (page.phase = "live") # (ops[i].run \in alive))
  /\ UNCHANGED <<gen, backend>>

(* _loadHistoryWithCatchup: what was written since.                         *)
CatchUp(i) ==
  /\ ops[i].at \in {"catchup", "catchup2"} /\ Arrived(i)
  /\ LET r == ops[i].run
     IN IF Stale(i) THEN Goes(i, "done") /\ Release(i) /\ UNCHANGED page
        ELSE /\ page' = Applied(page, Numbers(r, page.seq, Len(log[r])), ops[i].kind # "load")
             /\ Goes(i, "subscribe") /\ UNCHANGED held
  /\ UNCHANGED <<gen, backend, mishaps>>

(* An event among it is too large: the page is cleared at once, and loaded   *)
(* from a rebuilt projection.                                               *)
CatchUpOversized(i) ==
  /\ At(i, "catchup") /\ Len(log[ops[i].run]) > 1
  /\ page' = Cleared(page)
  /\ Goes(i, "page2")
  /\ Mishap("wiped", Stale(i))
  /\ UNCHANGED <<gen, held, backend>>

(* _wsSubscribeWithSeq.  A load ends here: the buffer is let go, and a run   *)
(* that was over when it was read is shown so.  A resume goes on.           *)
LoadEnds(i) ==
  /\ At(i, "subscribe") /\ ops[i].kind = "load"
  /\ LET r == ops[i].run
     IN IF Stale(i) \/ page.run # r THEN Release(i) /\ UNCHANGED page
        ELSE /\ page' = IF Holds(i) THEN Applied(page, Newer(page, buffer[r]), FALSE) ELSE page
             /\ Release(i)
  /\ Goes(i, "done")
  /\ UNCHANGED <<gen, backend, mishaps>>

-----------------------------------------------------------------------------
(* handleResume and resumeSession.  A fork is one whose source may be alive,  *)
(* and goes on with the new run.                                            *)

Resume(kind) ==
  /\ page.run \in Known /\ ~Resuming /\ Room /\ page.phase \notin {"loading", "empty"}
  /\ kind = "resume" => page.phase # "live"
  /\ ops' = Append(ops, Begun(kind, page.run, gen, "getRun"))
  /\ IF kind = "resume" THEN page' = Subscribed(page, page.run) /\ Switch(page.run)
     ELSE UNCHANGED <<page, held>>
  /\ Mishap("crossed", holding[page.run] # 0)
  /\ UNCHANGED <<gen, backend>>

(* A run that is still active is stopped first, and read again. *)
ResumeGetRun(i) ==
  /\ ops[i].at \in {"getRun", "again"} /\ ops[i].kind \in Resumes
  /\ IF Stale(i) THEN Goes(i, "done") /\ UNCHANGED <<page, gen>>
     ELSE IF ops[i].kind = "resume" /\ ops[i].run \in alive
     THEN /\ Goes(i, IF At(i, "getRun") THEN "stop" ELSE "done")
          /\ page' = IF At(i, "getRun") THEN page ELSE [page EXCEPT !.phase = "failed"]
          /\ UNCHANGED gen
     ELSE /\ gen' = gen + 1
          /\ ops' = [ops EXCEPT ![i].at = "page", ![i].gen = gen + 1]
          /\ page' = [Cleared(page) EXCEPT !.run = ops[i].run]
  /\ UNCHANGED <<held, backend, mishaps>>

(* stopRun, stopSession, at the backend. *)
Stops(i) ==
  /\ At(i, "stop")
  /\ Killed(ops[i].run)
  /\ Goes(i, IF ops[i].kind = "resume" THEN "again" ELSE "stopped")
  /\ UNCHANGED <<page, gen, held, mishaps>>

(* With its history there, the session is started or the fork is made.  The  *)
(* page goes to the new run before that is started (connectSession).        *)
ResumeGoesOn(i) ==
  /\ At(i, "subscribe") /\ ops[i].kind \in Resumes
  /\ LET r == ops[i].run
         to == CASE ops[i].kind = "fork" -> None
                 [] ops[i].kind = "connect" -> r
                 [] OTHER -> page.sub
     IN IF Stale(i) \/ page.run # r THEN Goes(i, "done") /\ UNCHANGED <<page, held>>
        ELSE /\ page' = [Subscribed(page, to) EXCEPT
                           !.phase = "live", !.route = IF ops[i].kind = "connect" THEN r ELSE @]
             /\ Goes(i, IF ops[i].kind = "fork" THEN "fork" ELSE "spawn")
             /\ Switch(to)
  /\ UNCHANGED <<gen, backend, mishaps>>

(* fork_session: the source is stopped, and its log copied into a new run.  *)
Forks(i) ==
  /\ At(i, "fork")
  /\ \E n \in Unused :
       LET r == ops[i].run
           copy == IF r \in alive THEN Append(log[r], "off") ELSE log[r]
       IN /\ Len(copy) <= MaxLog
          /\ log' = [log EXCEPT ![r] = copy, ![n] = copy]
          /\ wire' = IF r \in alive THEN Append(wire, <<r, Len(copy)>>) ELSE wire
          /\ alive' = alive \ {r}
          /\ ops' = [ops EXCEPT ![i].at = "forked", ![i].read = <<n>>]
  /\ UNCHANGED <<page, gen, held, mishaps>>

(* _handleFork: the new run is loaded as one that is resumed. *)
ForkGetRun(i) ==
  /\ At(i, "forked")
  /\ IF Stale(i) THEN Goes(i, "done") /\ UNCHANGED page
     ELSE /\ page' = [Cleared(page) EXCEPT !.run = ops[i].read[1]]
          /\ ops' = [ops EXCEPT ![i].kind = "connect", ![i].run = ops[i].read[1],
                                ![i].read = <<ops[i].run>>, ![i].at = "page"]
  /\ UNCHANGED <<gen, held, backend, mishaps>>

(* handleForkCancel: the fork is given up and its session stopped; then the  *)
(* source is loaded again.  Only a change of the route subscribes to it.    *)
Source(i) == IF ops[i].kind = "fork" THEN ops[i].run ELSE ops[i].read[1]

CancelFork(i) ==
  /\ Room /\ ops[i].kind \in {"fork", "connect"} /\ ops[i].at \notin {"spawn", "spawned", "done"}
  /\ gen' = gen + 1
  /\ LET at == IF page.run \in {Source(i), None} THEN "stopped" ELSE "stop"
     IN ops' = Append(ops, [Begun("cancel", page.run, gen', at) EXCEPT !.read = <<Source(i)>>])
  /\ page' = Subscribed(page, None) /\ Switch(None)
  /\ UNCHANGED <<backend, mishaps>>

ForkCancelled(i) ==
  /\ At(i, "stopped") /\ ops[i].kind = "cancel"
  /\ LET r == ops[i].read[1]
         to == IF page.route = r THEN page.sub ELSE r
     IN /\ LoadOver([Subscribed(page, to) EXCEPT !.route = r], r, [ops EXCEPT ![i] = Over(@)])
        /\ holding' = [Dropped(holding, 0, to) EXCEPT ![r] = Len(ops) + 1]
        /\ buffer' = Dropped(buffer, <<>>, to)
        /\ mishaps' = IF to # r THEN {"deaf"} ELSE {}
  /\ UNCHANGED backend

-----------------------------------------------------------------------------
(* startSession of the store, with the first message of a conversation, *)
StartNew ==
  /\ page.run = None /\ page.phase = "empty" /\ Room
  /\ page' = [page EXCEPT !.phase = "live"]
  /\ ops' = Append(ops, Begun("start", None, gen, "create"))
  /\ UNCHANGED <<gen, held, backend, mishaps>>

(* startRun: the run is there, whether the page still wants it or not. *)
Creates(i) ==
  /\ At(i, "create")
  /\ IF Stale(i) THEN Goes(i, "done") /\ UNCHANGED <<page, held>>
     ELSE \E n \in Unused :
            /\ page' = [Subscribed(page, n) EXCEPT !.run = n] /\ Switch(n)
            /\ ops' = [ops EXCEPT ![i].run = n, ![i].at = "spawn"]
  /\ UNCHANGED <<gen, backend, mishaps>>

(* api.startSession, at the backend, *)
Spawns(i) ==
  /\ At(i, "spawn")
  /\ Len(log[ops[i].run]) < MaxLog
  /\ IF ops[i].run \in alive THEN UNCHANGED backend
     ELSE alive' = alive \cup {ops[i].run} /\ Emit(ops[i].run, "on")
  /\ Goes(i, "spawned")
  /\ UNCHANGED <<page, gen, held, mishaps>>

(* and its answer: the page goes to the run. *)
SpawnAnswered(i) ==
  /\ At(i, "spawned")
  /\ LET r == ops[i].run
     IN IF Stale(i) \/ page.run # r THEN UNCHANGED <<page, held>>
        ELSE page' = [Subscribed(page, r) EXCEPT !.route = r] /\ Switch(r)
  /\ Goes(i, "done")
  /\ UNCHANGED <<gen, backend, mishaps>>

-----------------------------------------------------------------------------
(* sendMessage, to a session that is alive as far as the page knows.  The     *)
(* answer is of use to timers only.                                         *)
Send ==
  /\ page.run # None /\ page.phase = "live" /\ Room
  /\ ops' = Append(ops, Begun("send", page.run, gen, "send"))
  /\ UNCHANGED <<page, gen, held, backend, mishaps>>

Sent(i) ==
  /\ At(i, "send")
  /\ LET r == ops[i].run
     IN IF r \in alive /\ Len(log[r]) < MaxLog - 1 THEN Emit(r, "say") /\ UNCHANGED alive
        ELSE UNCHANGED backend
  /\ Goes(i, "done")
  /\ UNCHANGED <<page, gen, held, mishaps>>

-----------------------------------------------------------------------------
(* loadOlderHistory: pages are read one by one and shown together. *)

PagesAtOnce == 2

Older ==
  /\ page.run # None /\ page.cursor > 1 /\ ~page.older /\ Room
  /\ page' = [page EXCEPT !.older = TRUE]
  /\ ops' = Append(ops, Begun("older", page.run, gen, "older"))
  /\ UNCHANGED <<gen, held, backend, mishaps>>

OlderPage(i) ==
  /\ At(i, "older")
  /\ LET first == ops[i].from - Len(ops[i].read) - 1
         read == <<<<ops[i].run, first>>>> \o ops[i].read
     IN IF Stale(i) THEN Goes(i, "done") /\ UNCHANGED page
        ELSE IF page.run # ops[i].run
        THEN Goes(i, "done") /\ page' = [page EXCEPT !.older = FALSE]
        ELSE IF first > 1 /\ Len(read) < PagesAtOnce
        THEN ops' = [ops EXCEPT ![i].read = read] /\ UNCHANGED page
        ELSE /\ page' = [page EXCEPT !.shown = Unseen(page, read) \o @,
                                     !.cursor = first, !.older = FALSE]
             /\ Goes(i, "done")
  /\ Mishap("crossed", ~Stale(i) /\ page.cursor # ops[i].from)
  /\ UNCHANGED <<gen, held, backend>>

-----------------------------------------------------------------------------
(* stop: an agent that works is interrupted first; what the page shows when  *)
(* that is answered is stopped, and what it shows when that is answered is   *)
(* taken for what was stopped.                                              *)
Stop ==
  /\ page.run # None /\ page.phase = "live" /\ Room
  /\ \E at \in {"interrupt", "stop"} : ops' = Append(ops, Begun("stop", page.run, gen, at))
  /\ UNCHANGED <<page, gen, held, backend, mishaps>>

Interrupted(i) ==
  /\ At(i, "interrupt")
  /\ ops' = [ops EXCEPT ![i].run = page.run, ![i].at = IF page.run = None THEN "stopped" ELSE "stop"]
  /\ Mishap("misaimed", page.run # ops[i].run)
  /\ UNCHANGED <<page, gen, held, backend>>

StopAnswered(i) ==
  /\ At(i, "stopped") /\ ops[i].kind = "stop"
  /\ page' = [page EXCEPT !.phase = "dead"]
  /\ Goes(i, "done")
  /\ Mishap("misled", Stale(i) \/ page.run # ops[i].run \/ page.run \in alive)
  /\ UNCHANGED <<gen, held, backend>>

(* A call that fails ends its operation, and the page says so unless there   *)
(* is a newer one.  When the new run of a fork cannot be started, the page   *)
(* keeps waiting for it.                                                    *)
Fails(i) ==
  /\ ops[i].at \in {"create", "getRun", "page", "catchup", "fork", "spawn", "older"}
  /\ LET waits == At(i, "spawn") /\ ops[i].kind = "connect"
         mishap == IF waits THEN {"misled"} ELSE IF At(i, "fork") THEN {"deaf"}
                   ELSE IF ops[i].at \in {"getRun", "page", "catchup"} THEN {"unread"} ELSE {}
     IN /\ page' = IF Stale(i) \/ waits THEN page
                   ELSE IF ops[i].kind = "older" THEN [page EXCEPT !.older = FALSE]
                   ELSE [page EXCEPT !.phase = "failed"]
        /\ mishaps' = IF Stale(i) THEN mishaps ELSE mishaps \cup mishap
  /\ Goes(i, "done") /\ IF ops[i].kind = "load" THEN Release(i) ELSE UNCHANGED held
  /\ UNCHANGED <<gen, backend>>

Next ==
  \/ Deliver(1) \/ Deliver(2) \/ StartNew \/ Send \/ Older \/ Stop
  \/ \E r \in AllRuns \cup {None} : Navigate(r)
  \/ \E r \in AllRuns : Says(r) \/ Dies(r)
  \/ \E kind \in {"resume", "fork"} : Resume(kind)
  \/ \E i \in DOMAIN ops :
       \/ LoadGetRun(i) \/ HistoryPage(i) \/ CatchUp(i) \/ CatchUpOversized(i) \/ LoadEnds(i)
       \/ ResumeGetRun(i) \/ Stops(i) \/ ResumeGoesOn(i) \/ Forks(i) \/ ForkGetRun(i)
       \/ CancelFork(i) \/ ForkCancelled(i) \/ Creates(i) \/ Spawns(i) \/ SpawnAnswered(i)
       \/ Sent(i) \/ OlderPage(i) \/ Interrupted(i) \/ StopAnswered(i) \/ Fails(i)

Spec == Init /\ [][Next]_vars

-----------------------------------------------------------------------------
(* Properties *)

Settled == wire = <<>> /\ \A i \in DOMAIN ops : At(i, "done")
Without(known) == mishaps \cap known = {}

(* In the end the page shows the run the user went to last, or that it       *)
(* failed, however the answers of the operations before came.               *)
RouteShown ==
  Settled /\ page.phase # "failed" /\ Without({"overtaken", "strayed", "unread"}) =>
    page.run = page.route \/ (page.route = None /\ page.run \in Fresh)

(* Everything the page shows is of the run it names. *)
OneRun ==
  Without({"overtaken", "strayed", "unread"}) =>
    \A k \in DOMAIN page.shown : page.shown[k][1] = page.run

(* In the end the page shows every event of its run from the oldest that was *)
(* read, once, in order.                                                    *)
Whole ==
  Settled /\ page.run # None /\ Without(Mishaps \ {"misled", "missed"}) =>
    page.shown =
      Numbers(page.run, IF page.cursor = 0 THEN 0 ELSE page.cursor - 1, Len(log[page.run]))

(* In the end the page says that the run is alive if and only if it is. *)
PhaseTrue ==
  Settled /\ page.run # None /\ page.phase # "failed" /\ mishaps = {} =>
    (page.phase = "live") = (page.run \in alive)

(* Nothing waits for an operation that is over: no load spins, no older page *)
(* is under way, and no event is held back.                                 *)
Released ==
  Settled => /\ page.phase = "loading" => mishaps # {}
             /\ ~page.older
             /\ \A r \in AllRuns : holding[r] = 0 /\ buffer[r] = <<>>

=============================================================================
