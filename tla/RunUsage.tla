------------------------------ MODULE RunUsage ------------------------------
(***************************************************************************)
(* What a run has cost: the usage_update lines that its processes leave in  *)
(* the log, and what the two readers of the log make of them,               *)
(* extract_run_usage (storage/events.rs, the usage page) and scan_run       *)
(* (storage/run_index.rs, the list of runs).                               *)
(*                                                                         *)
(* A line has no mark for the process that wrote it.  The reader knows from *)
(* the run's meta.json whether amounts are those of one turn, which are     *)
(* added up, or those of the process so far: then a drop is taken for a     *)
(* new process.  An amount is the cost of a Claude run, the tokens of a     *)
(* Codex run, for which the CLI reports no cost.  An imported run is one    *)
(* whose lines come from a transcript; "resumed" stands for such a run that *)
(* is continued in the application.                                         *)
(*                                                                         *)
(* The readers go over the log once; the tallies are what they have found   *)
(* when they are through with the lines so far.                            *)
(***************************************************************************)
EXTENDS Naturals, Sequences

CONSTANTS
  RunKinds,      \* the kinds of run considered
  Amounts,    \* what a turn may cost
  MaxTurns,   \* bound: turns
  MaxStarts,  \* bound: processes
  MaxReports  \* bound: usage_update lines, of one run

ASSUME UsageAssumption ==
  /\ RunKinds \subseteq {"claude", "imported", "resumed", "pipe", "appServer"}
  /\ Amounts \subseteq Nat
  /\ MaxTurns \in Nat /\ MaxStarts \in Nat /\ MaxReports \in Nat

VARIABLES
  kind,      \* the run's agent, source and execution path
  process,   \* its CLI process, and the amount it has come to
  starts,    \* processes so far
  next,      \* next_turn_index
  queue,     \* queued_user: the turn indexes of the tickets
  active,    \* the index of the turn that runs
  messages,  \* user_message lines in the log
  indexes,   \* turn_index of the usage_update lines in the log
  afresh,    \* history: a process was begun in mode New after messages
  spent,     \* history: what all processes have come to, as far as they said
  hidden,    \* history: a process began no lower than the last one ended
  extracted, \* the tally of extract_run_usage
  listed     \* the tally of scan_run

vars == <<kind, process, starts, next, queue, active, messages, indexes, afresh, spent, hidden,
          extracted, listed>>
log == <<messages, indexes, spent, hidden, extracted, listed>>

NoTurn == 0
NoProcess == [alive |-> FALSE, amount |-> 0, said |-> 0]
NewTally == [total |-> 0, previous |-> 0, peak |-> 0]

-----------------------------------------------------------------------------
(* The readers *)

Sum(t, amount) == [t EXCEPT !.total = @ + amount]
TakeLast(t, amount) == [t EXCEPT !.total = amount]

(* Less than nine tenths of the amount before. *)
Drops(t, amount) == t.previous > 0 /\ 10 * amount < 9 * t.previous

\* Mutant: the peak of the process before is kept.
DetectPeakKept(t, amount) ==
  LET begun == IF Drops(t, amount) THEN t.total + t.peak ELSE t.total
  IN [total |-> begun, previous |-> amount,
      peak |-> IF amount > t.peak THEN amount ELSE t.peak]

\* Mutant: the highest amount is taken for that of all processes.
DetectPeakOnce(t, amount) ==
  [t EXCEPT !.previous = amount, !.peak = IF amount > @ THEN amount ELSE @]

DetectPeak(t, amount) ==
  LET begun == IF Drops(t, amount) THEN [total |-> t.total + t.peak, peak |-> 0]
               ELSE [total |-> t.total, peak |-> t.peak]
  IN [total |-> begun.total, previous |-> amount,
      peak |-> IF amount > begun.peak THEN amount ELSE begun.peak]

ExtractRunUsage(t, amount) ==
  IF kind = "claude" THEN DetectPeak(t, amount) ELSE Sum(t, amount)

\* Mutant: the amounts of an imported run are taken for cumulative ones.
ScanRunNative(t, amount) ==
  IF kind \in {"claude", "imported"} THEN DetectPeak(t, amount) ELSE TakeLast(t, amount)

(* Cost of Claude, tokens of Codex. *)
ScanRun(t, amount) ==
  CASE kind = "imported" -> Sum(t, amount)
    [] kind = "claude" -> DetectPeak(t, amount)
    [] OTHER -> TakeLast(t, amount)

Shown(t) == t.total + t.peak

-----------------------------------------------------------------------------
(* The CLI processes, and the amounts they report *)

(* A process counts from nothing; the thread of an app server goes on. *)
Begun ==
  IF kind = "appServer" THEN [process EXCEPT !.alive = TRUE] ELSE [NoProcess EXCEPT !.alive = TRUE]

(* Mode New: the first process; a resume whose transcript Claude has         *)
(* deleted; a stopped Codex run that gets a message.                        *)
MayBeNew == kind \in {"claude", "resumed", "appServer"}

\* Mutant: a resumed session counts its turns from the start.
InitialTurnIndexAfresh(isNew) == 1

\* Mutant: the first turn is the number of messages before it.
InitialTurnIndexFromZero(isNew) == messages

(* count_user_messages: a resumed session goes on after the messages it has. *)
InitialTurnIndex(isNew) == IF isNew THEN 1 ELSE messages + 1

(* start_session *)
Start(isNew) ==
  /\ ~process.alive /\ starts < MaxStarts
  /\ isNew => MayBeNew
  /\ starts' = starts + 1
  /\ process' = Begun
  /\ next' = InitialTurnIndex(isNew)
  /\ afresh' = (afresh \/ (isNew /\ messages > 0))
  /\ UNCHANGED <<kind, queue, active, log>>

(* handle_send_message: the ticket gets its index when it is queued. *)
Send ==
  /\ process.alive /\ messages + Len(queue) < MaxTurns
  /\ queue' = Append(queue, next)
  /\ next' = next + 1
  /\ UNCHANGED <<kind, process, starts, active, afresh, log>>

(* start_user_turn: the message is in the log once the CLI has it.  A CLI   *)
(* whose stdin is broken takes no other message: the tickets it does not    *)
(* get go with the process.                                                *)
StartUserTurn ==
  /\ process.alive /\ active = NoTurn /\ queue # <<>>
  /\ active' = Head(queue) /\ queue' = Tail(queue)
  /\ messages' = messages + 1
  /\ UNCHANGED <<kind, process, starts, next, indexes, afresh, spent, hidden, extracted, listed>>

(* start_ralph_turn: the index of a Ralph turn is taken when it starts. *)
StartRalphTurn ==
  /\ process.alive /\ active = NoTurn /\ queue = <<>> /\ messages < MaxTurns
  /\ active' = next /\ next' = next + 1
  /\ messages' = messages + 1
  /\ UNCHANGED <<kind, process, starts, queue, indexes, afresh, spent, hidden, extracted, listed>>

(* A transcript and Codex exec tell what the turn has come to, Claude what  *)
(* its process has, an app server what the thread has.                      *)
PerTurn == kind \in {"imported", "pipe"}

Said(cost) == IF PerTurn THEN cost ELSE process.amount + cost

(* Each message of pipe mode has a parser of its own, which counts turns.   *)
Index == IF kind = "pipe" THEN 1 ELSE active

(* A new process whose first report does not show that it is one. *)
Unseen(said) == process.said = 0 /\ said > 0 /\ extracted.previous > 0 /\ ~Drops(extracted, said)

(* usage_update with the index of the turn: the turn's result, but an app   *)
(* server tells its usage while the turn goes on.                           *)
Result(cost) ==
  LET amount == process.amount + cost
      said == Said(cost)
  IN /\ process.alive /\ active # NoTurn /\ Len(indexes) < MaxReports
     /\ process' = [process EXCEPT !.amount = amount, !.said = amount]
     /\ spent' = spent + (IF PerTurn THEN cost ELSE amount - process.said)
     /\ hidden' = (hidden \/ Unseen(said))
     /\ indexes' = Append(indexes, Index)
     /\ extracted' = ExtractRunUsage(extracted, said)
     /\ listed' = ScanRun(listed, said)
     /\ active' = IF kind = "appServer" THEN active ELSE NoTurn
     /\ UNCHANGED <<kind, starts, next, queue, messages, afresh>>

(* The turn ends without a report, as when it is given up after a timeout:  *)
(* what it cost is in the next report of its process.                       *)
GiveUp(cost) ==
  /\ process.alive /\ active # NoTurn
  /\ process' = [process EXCEPT !.amount = @ + cost]
  /\ active' = NoTurn
  /\ UNCHANGED <<kind, starts, next, queue, afresh, log>>

(* The process is gone, with the turn that ran and the tickets. *)
Ends ==
  /\ process.alive
  /\ process' = [process EXCEPT !.alive = FALSE]
  /\ active' = NoTurn /\ queue' = <<>>
  /\ UNCHANGED <<kind, starts, next, afresh, log>>

-----------------------------------------------------------------------------
Init ==
  /\ kind \in RunKinds
  /\ process = NoProcess /\ starts = 0
  /\ next = 1 /\ queue = <<>> /\ active = NoTurn
  /\ messages = 0 /\ indexes = <<>> /\ afresh = FALSE
  /\ spent = 0 /\ hidden = FALSE
  /\ extracted = NewTally /\ listed = NewTally

Next ==
  \/ \E isNew \in BOOLEAN : Start(isNew)
  \/ Send
  \/ StartUserTurn
  \/ StartRalphTurn
  \/ \E cost \in Amounts : Result(cost) \/ GiveUp(cost)
  \/ Ends

Spec == Init /\ [][Next]_vars

-----------------------------------------------------------------------------
(* Properties *)

Tally == [total : Nat, previous : Nat, peak : Nat]

TypeOK ==
  /\ kind \in RunKinds
  /\ process \in [alive : BOOLEAN, amount : Nat, said : Nat] /\ starts \in 0..MaxStarts
  /\ next \in Nat \ {NoTurn} /\ active \in Nat
  /\ queue \in Seq(Nat \ {NoTurn}) /\ indexes \in Seq(Nat \ {NoTurn})
  /\ messages \in 0..MaxTurns
  /\ spent \in Nat /\ hidden \in BOOLEAN /\ afresh \in BOOLEAN
  /\ extracted \in Tally /\ listed \in Tally

(* No more is shown than was spent: a report that repeats what an earlier   *)
(* one had, after a failed, interrupted or abandoned turn, over all the     *)
(* restarts of the CLI, is not counted twice.                               *)
NeverOver == kind \in {"claude", "imported", "pipe"} => Shown(extracted) <= spent

(* All that was spent is shown, unless a process whose first turn cost      *)
(* nearly as much as all of the process before went unseen.                 *)
NothingLost ==
  kind \in {"claude", "imported", "pipe"} /\ ~hidden => Shown(extracted) = spent

(* The list of runs and the usage page show the same cost. *)
ListedAlike == kind \in {"claude", "imported"} => listed = extracted

(* No two turns of a run report under the same index, over restarts of the  *)
(* CLI, tickets that were queued and dropped, and Ralph turns, unless a     *)
(* conversation with messages was begun afresh.                             *)
TurnsApart ==
  kind \in {"claude", "imported", "resumed"} /\ ~afresh =>
    \A i, j \in DOMAIN indexes : i < j => indexes[i] < indexes[j]

(* events.rs:604 and 634: the usage of a Codex turn is per turn, and summed. *)
CodexPerTurn == kind = "appServer" => Shown(extracted) = spent

(* events.rs:603: an imported run has the cost of each turn, and is summed. *)
ImportsPerTurn == kind = "resumed" => Shown(extracted) = spent

(* run_index.rs:169: all but imported runs have cumulative amounts, of which *)
(* the last is taken.                                                       *)
ListedTokens == kind = "pipe" => Shown(listed) = spent

(* src/lib/stores/types.ts:28: the index of a turn's usage is the number of  *)
(* user messages seen before it, by which it is matched to the turn.        *)
IndexIsMessages ==
  kind \in {"claude", "imported", "resumed", "appServer"} /\ active # NoTurn => active = messages

=============================================================================
