------------------------------ MODULE PipeChat ------------------------------
(***************************************************************************)
(* A Codex run in pipe mode, where every message is a process of its own:  *)
(* send_chat_message (commands/chat.rs), run_agent and stop_process         *)
(* (agent/stream.rs), stop_run (commands/runs.rs), the parser of the        *)
(* process's output (agent/pipe_parser.rs) and the phase of the page.       *)
(*                                                                         *)
(* All of them share one entry of the process map, under the run's id:      *)
(* whoever removes it has the child that is there, which need not be his.   *)
(* The page's stop button takes a run that shows "running" for a session    *)
(* and asks stop_session, which finds none: only the page changes.          *)
(***************************************************************************)
EXTENDS Naturals, FiniteSets

CONSTANTS
  Sends,       \* the messages, each with its task and its process
  MaxStops,    \* bound: calls of stop_run
  MaxUpsets    \* bound: crashes, and whole copies of meta.json that are written back

NoChild == [child |-> "none"]
NoCopy == [copy |-> "none"]

VARIABLES
  task,      \* of each message: where run_agent is
  fate,      \* of its process: it runs, or how it ended
  seqOf,     \* its codex_process_seq
  timedOut,  \* messages whose task saw the idle timeout
  removed,   \* the child a task has removed from the map at the end
  slot,      \* the entry of the process map
  stop,      \* stop_run
  meta,      \* meta.json: status, codex_process_seq
  copy,      \* a whole copy somebody else has read
  shown,     \* the phase of the page
  verdict,   \* history: the status each task has written last
  mixed,     \* history: messages whose tasks overlapped another's
  taken,     \* history: messages whose process a stop_run has taken
  refused, late, rewound, \* history: see Settled and OwnCards
  stops, upsets

counters == <<stops, upsets>>
vars == <<task, fate, seqOf, timedOut, removed, slot, stop, meta, copy, shown,
          verdict, mixed, taken, refused, late, rewound, counters>>

Statuses == {"Pending", "Running", "Completed", "Stopped", "Failed"}
Metas == [status : Statuses, seq : 0..Cardinality(Sends)]

TypeOK ==
  /\ task \in [Sends -> {"none", "spawn", "insert", "read", "drain", "wait",
                         "fail", "emit", "over"}]
  /\ fate \in [Sends -> {"none", "runs", "ok", "error", "killed"}]
  /\ seqOf \in [Sends -> 0..Cardinality(Sends)]
  /\ timedOut \subseteq Sends
  /\ removed \in [Sends -> Sends \cup {NoChild}] /\ slot \in Sends \cup {NoChild}
  /\ stop \in [step : {"none", "wait", "write"}, child : Sends \cup {NoChild}]
  /\ meta \in Metas /\ copy \in Metas \cup {NoCopy}
  /\ shown \in {"ready", "running", "idle", "stopped", "failed"}
  /\ verdict \in [Sends -> Statuses \cup {"none"}]
  /\ mixed \subseteq Sends /\ taken \subseteq Sends
  /\ refused \in BOOLEAN /\ late \in BOOLEAN /\ rewound \in BOOLEAN
  /\ stops \in 0..MaxStops /\ upsets \in 0..MaxUpsets

Init ==
  /\ task = [s \in Sends |-> "none"] /\ fate = [s \in Sends |-> "none"]
  /\ seqOf = [s \in Sends |-> 0] /\ timedOut = {}
  /\ removed = [s \in Sends |-> NoChild] /\ slot = NoChild
  /\ stop = [step |-> "none", child |-> NoChild]
  /\ meta = [status |-> "Pending", seq |-> 0] /\ copy = NoCopy
  /\ shown = "ready"
  /\ verdict = [s \in Sends |-> "none"]
  /\ mixed = {} /\ taken = {}
  /\ refused = FALSE /\ late = FALSE /\ rewound = FALSE
  /\ stops = 0 /\ upsets = 0

Goto(s, place) == task' = [task EXCEPT ![s] = place]

UpdateStatus(status) == meta' = [meta EXCEPT !.status = status]

Under == {s \in Sends : task[s] \notin {"none", "over"}}

Works(s) == fate[s] = "runs"

-----------------------------------------------------------------------------
(* A message *)

(* The page sends when nothing seems to run.  Running is written before the *)
(* command line is built; when that fails it stays.                        *)
Send(s) ==
  /\ task[s] = "none" /\ shown # "running"
  /\ UpdateStatus("Running")
  /\ shown' = "running"
  /\ \/ Goto(s, "spawn") /\ UNCHANGED refused
     \/ Goto(s, "over") /\ refused' = TRUE
  /\ late' = (late \/ stop.step # "none")
  /\ mixed' = IF Under = {} THEN mixed ELSE mixed \cup Under \cup {s}
  /\ UNCHANGED <<fate, seqOf, timedOut, removed, slot, stop, copy, verdict, taken,
                 rewound, counters>>

(* next_codex_process_seq, under the lock of meta.json, then the process. *)
Spawn(s) ==
  /\ task[s] = "spawn"
  /\ \/ Goto(s, "fail") /\ UNCHANGED <<fate, meta, seqOf>>
     \/ /\ meta' = [meta EXCEPT !.seq = @ + 1]
        /\ seqOf' = [seqOf EXCEPT ![s] = meta.seq + 1]
        /\ \/ Goto(s, "fail") /\ UNCHANGED fate
           \/ Goto(s, "insert") /\ fate' = [fate EXCEPT ![s] = "runs"]
  /\ UNCHANGED <<timedOut, removed, slot, stop, copy, shown, verdict, mixed, taken, refused,
                 late, rewound, counters>>

(* The child of a Child that is dropped is killed. *)
Kill(c) == IF c # NoChild /\ Works(c) THEN [fate EXCEPT ![c] = "killed"] ELSE fate

\* Mutant: the child in the map is not dropped.
InsertBeside(s) ==
  /\ task[s] = "insert"
  /\ slot' = s
  /\ Goto(s, "read")
  /\ UNCHANGED <<fate, seqOf, timedOut, removed, stop, meta, copy, shown, verdict, mixed,
                 taken, refused, late, rewound, counters>>

(* Only now can a stop find the process; the child of an earlier message   *)
(* that is still in the map is dropped.                                    *)
Insert(s) ==
  /\ task[s] = "insert"
  /\ slot' = s
  /\ fate' = Kill(slot)
  /\ Goto(s, "read")
  /\ UNCHANGED <<seqOf, timedOut, removed, stop, meta, copy, shown, verdict, mixed,
                 taken, refused, late, rewound, counters>>

-----------------------------------------------------------------------------
(* The output.  Codex counts the items of a process from 0, so the ids of    *)
(* its cards are scoped by the process's number.                            *)

(* The process goes on after turn.failed, but the page shows failed. *)
ReadTurnFailed(s) ==
  /\ task[s] = "read"
  /\ shown' = "failed"
  /\ UNCHANGED <<task, fate, seqOf, timedOut, removed, slot, stop, meta, copy, verdict,
                 mixed, taken, refused, late, rewound, counters>>

(* CODEX_IDLE_TIMEOUT: whatever is in the map is killed. *)
IdleTimeout(s) ==
  /\ task[s] = "read"
  /\ timedOut' = timedOut \cup {s}
  /\ fate' = Kill(slot) /\ slot' = NoChild
  /\ Goto(s, "drain")
  /\ UNCHANGED <<seqOf, removed, stop, meta, copy, shown, verdict, mixed, taken, refused,
                 late, rewound, counters>>

-----------------------------------------------------------------------------
(* The end *)

(* Both pipes are at their end, later than the process when its children    *)
(* keep them open.                                                          *)
Remove(s) ==
  /\ task[s] \in {"read", "drain"} /\ ~Works(s)
  /\ removed' = [removed EXCEPT ![s] = slot]
  /\ slot' = NoChild
  /\ Goto(s, "wait")
  /\ UNCHANGED <<fate, seqOf, timedOut, stop, meta, copy, shown, verdict, mixed, taken,
                 refused, late, rewound, counters>>

(* The exit code of the child that was in the map; without one, -2 after a  *)
(* timeout and -1, "Stopped by user", otherwise.                            *)
Result(s) ==
  IF removed[s] # NoChild THEN IF fate[removed[s]] = "ok" THEN "Completed" ELSE "Failed"
  ELSE IF s \in timedOut THEN "Failed" ELSE "Stopped"

WriteStatus(s) ==
  /\ \/ task[s] = "wait" /\ removed[s] \in {c \in Sends : ~Works(c)} \cup {NoChild}
     \/ task[s] = "fail"
  /\ LET result == IF task[s] = "fail" THEN "Failed" ELSE Result(s)
     IN UpdateStatus(result) /\ verdict' = [verdict EXCEPT ![s] = result]
  /\ Goto(s, "emit")
  /\ UNCHANGED <<fate, seqOf, timedOut, removed, slot, stop, copy, shown, mixed, taken,
                 refused, late, rewound, counters>>

(* A completed run is idle once its thread is known. *)
Phase(status) ==
  CASE status = "Completed" -> "idle"
    [] status = "Stopped" -> "stopped"
    [] status = "Failed" -> "failed"
    [] status = "Running" -> "running"
    [] OTHER -> "ready"

(* RunState *)
EmitState(s) ==
  /\ task[s] = "emit"
  /\ shown' = Phase(verdict[s])
  /\ removed' = [removed EXCEPT ![s] = NoChild]
  /\ Goto(s, "over")
  /\ UNCHANGED <<fate, seqOf, timedOut, slot, stop, meta, copy, verdict, mixed, taken,
                 refused, late, rewound, counters>>

-----------------------------------------------------------------------------
(* stop_run, from the command palette *)

StopRun ==
  /\ stop.step = "none" /\ stops < MaxStops
  /\ stops' = stops + 1
  /\ stop' = [step |-> IF slot = NoChild THEN "write" ELSE "wait", child |-> slot]
  /\ slot' = NoChild
  /\ taken' = taken \cup ({slot} \cap Sends)
  /\ UNCHANGED <<task, fate, seqOf, timedOut, removed, meta, copy, shown, verdict, mixed,
                 refused, late, rewound, upsets>>

(* reap_gracefully: the child ends by itself, or is killed. *)
StopWait ==
  /\ stop.step = "wait"
  /\ fate' = Kill(stop.child)
  /\ stop' = [stop EXCEPT !.step = "write"]
  /\ UNCHANGED <<task, seqOf, timedOut, removed, slot, meta, copy, shown, verdict, mixed,
                 taken, refused, late, rewound, counters>>

(* The status is written whether or not there was a process. *)
StopWrite ==
  /\ stop.step = "write"
  /\ UpdateStatus("Stopped")
  /\ late' = (late \/ stop.child = NoChild \/ stop.child \in timedOut)
  /\ stop' = [step |-> "none", child |-> NoChild]
  /\ UNCHANGED <<task, fate, seqOf, timedOut, removed, slot, copy, shown, verdict, mixed,
                 taken, refused, rewound, counters>>

(* The stop button: stop_session has nothing to stop. *)
PageStop ==
  /\ shown = "running"
  /\ shown' = "stopped"
  /\ UNCHANGED <<task, fate, seqOf, timedOut, removed, slot, stop, meta, copy, verdict,
                 mixed, taken, refused, late, rewound, counters>>

-----------------------------------------------------------------------------
(* The surroundings *)

(* The process ends by itself. *)
Exit(s) ==
  /\ Works(s)
  /\ \E how \in {"ok", "error"} : fate' = [fate EXCEPT ![s] = how]
  /\ UNCHANGED <<task, seqOf, timedOut, removed, slot, stop, meta, copy, shown, verdict,
                 mixed, taken, refused, late, rewound, counters>>

(* set_runs_archived reads meta.json and writes it back later. *)
ReadCopy ==
  /\ copy = NoCopy /\ upsets < MaxUpsets
  /\ copy' = meta /\ upsets' = upsets + 1
  /\ UNCHANGED <<task, fate, seqOf, timedOut, removed, slot, stop, meta, shown, verdict,
                 mixed, taken, refused, late, rewound, stops>>

WriteCopy ==
  /\ copy # NoCopy
  /\ meta' = copy /\ copy' = NoCopy
  /\ rewound' = (rewound \/ copy # meta)
  /\ UNCHANGED <<task, fate, seqOf, timedOut, removed, slot, stop, shown, verdict, mixed,
                 taken, refused, late, counters>>

(* The application dies and is started again; its children lose their pipes. *)
Crash ==
  /\ upsets < MaxUpsets
  /\ upsets' = upsets + 1
  /\ task' = [s \in Sends |-> IF task[s] = "none" THEN "none" ELSE "over"]
  /\ fate' = [s \in Sends |-> "none"] /\ timedOut' = {}
  /\ removed' = [s \in Sends |-> NoChild] /\ slot' = NoChild
  /\ stop' = [step |-> "none", child |-> NoChild] /\ copy' = NoCopy
  /\ meta' = [meta EXCEPT !.status = CASE @ = "Running" -> "Stopped"
                                       [] @ = "Pending" -> "Failed"
                                       [] OTHER -> @]
  /\ shown' = Phase(meta'.status)
  /\ verdict' = [s \in Sends |-> "none"]
  /\ mixed' = {} /\ taken' = {} /\ refused' = FALSE /\ late' = FALSE
  /\ UNCHANGED <<seqOf, rewound, stops>>

Next ==
  \/ \E s \in Sends :
       \/ Send(s) \/ Spawn(s) \/ Insert(s)
       \/ ReadTurnFailed(s) \/ IdleTimeout(s)
       \/ Remove(s) \/ WriteStatus(s) \/ EmitState(s) \/ Exit(s)
  \/ StopRun \/ StopWait \/ StopWrite \/ PageStop
  \/ ReadCopy \/ WriteCopy \/ Crash

Spec == Init /\ [][Next]_vars

-----------------------------------------------------------------------------
(* Properties *)

(* A message that met no other is told the truth about its process: it is   *)
(* completed only if it ended well, and then always unless a stop took it;  *)
(* stopped only if a stop took it; and a hang is a failure.                 *)
OwnVerdict ==
  \A s \in Sends \ mixed :
    /\ verdict[s] = "Completed" => fate[s] = "ok"
    /\ verdict[s] \in {"Failed", "Stopped"} /\ fate[s] = "ok" => s \in taken \cup timedOut
    /\ verdict[s] = "Stopped" => s \in taken \ timedOut

(* When nothing is under way the page and meta.json tell the same of the    *)
(* run, and neither that it runs.  The exceptions: messages that            *)
(* overlapped, a command line that could not be built, a stop_run that had   *)
(* nothing to stop, or only what the timeout had given up, or that was      *)
(* still under way when the next message was sent, and a whole copy written *)
(* back.                                                                    *)
Settled ==
  /\ Under = {} /\ stop.step = "none" /\ ~rewound /\ ~refused =>
       shown # "running" /\ meta.status # "Running"
  /\ Under = {} /\ stop.step = "none" /\ ~rewound /\ ~refused /\ ~late /\ mixed = {} =>
       shown = Phase(meta.status)

(* Two processes of the run work at the same time only while the second is  *)
(* not yet in the map, or when a stop_run or the task of an earlier message *)
(* has removed one of them and waits for its end; and every process is in   *)
(* somebody's reach.                                                        *)
OneProcess ==
  /\ \A s, t \in Sends : s # t /\ Works(s) /\ Works(t) =>
       \E c \in {s, t} :
         task[c] = "insert" \/ stop.child = c \/ \E o \in Sends \ {c} : removed[o] = c
  /\ \A s \in Sends : Works(s) =>
       slot = s \/ stop.child = s \/ task[s] = "insert" \/ \E o \in Sends : removed[o] = s

(* No two processes have the same number, so that a card is never changed   *)
(* by the process of another message: also across restarts and for messages *)
(* that overlapped, unless a whole copy has set the number back.            *)
OwnCards ==
  ~rewound => \A s, t \in Sends : s # t /\ seqOf[s] # 0 => seqOf[s] # seqOf[t]

=============================================================================
