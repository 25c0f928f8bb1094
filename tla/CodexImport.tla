---------------------------- MODULE CodexImport ----------------------------
(***************************************************************************)
(* Import of a Codex thread into a run, and the syncs after it              *)
(* (storage/codex_sessions.rs).                                            *)
(*                                                                         *)
(* Codex writes one rollout file for each process that works on a thread.   *)
(* The import reads every rollout of the thread; a sync those that          *)
(* meta.json does not list yet, and nothing more of the others.  A line is  *)
(* turned into events by an importer that counts turns, gives calls their   *)
(* ids, and leaves out what another line has already said.                 *)
(*                                                                         *)
(* A line is a kind and the text or the call it is about.  What thread it   *)
(* is Codex writes is chosen once, from Threads; Codex appends its lines    *)
(* while the importers read.  Lines that only yield an event of their own   *)
(* (reasoning, compaction, reviews) and half-written lines are left out.    *)
(***************************************************************************)
EXTENDS Integers, Sequences, FiniteSets, ImportIndex

CONSTANTS
  Importers,    \* calls of import_session and sync_session at the same time
  Threads,      \* the threads Codex may write: sequences of rollouts
  MaxFaults     \* bound: calls that fail or that a crash ends

VARIABLES
  thread,     \* what Codex writes, chosen once
  written,    \* the lines of each rollout that are in its file
  there,      \* meta.json has been saved
  listed,     \* codex_imported_rollouts, with the lines each had when read
  noUsage,    \* cli_usage_incomplete
  log,        \* events.jsonl
  index,      \* import-index.jsonl (ImportIndex)
  job,        \* what each importer does
  rough,      \* history: syncs overlapped
  faults      \* calls so far that did not end well

fileVars == <<thread, written>>
metaVars == <<there, listed, noUsage>>
vars == <<fileVars, metaVars, log, index, job, rough, faults>>

Rollouts == DOMAIN thread
Line(f, i) == thread[f][i]

(* The importer's state.  calls: the id of each pending call; seen: what has *)
(* been said in which turn.                                                *)
NoJob == [kind |-> "none", todo |-> <<>>, at |-> 0, lens |-> <<>>, turn |-> 0,
          done |-> FALSE, tokens |-> "none", calls |-> {}, ended |-> {}, seen |-> {},
          lacking |-> FALSE, skip |-> {}, fresh |-> <<>>]

TypeOK ==
  /\ thread \in Threads
  /\ written \in [Rollouts -> Nat] /\ \A f \in Rollouts : written[f] <= Len(thread[f])
  /\ there \in BOOLEAN /\ noUsage \in BOOLEAN
  /\ \A l \in listed : l.file \in Rollouts /\ l.lines \in 0..written[l.file]
  /\ \A k \in DOMAIN log : log[k].from[1] \in Rollouts /\ log[k].turn \in Nat
  /\ \A key \in SkipSet(index) : key[1] \in Rollouts
  /\ \A c \in Importers : job[c].kind \in {"none", "import", "sync"}
  /\ rough \in BOOLEAN /\ faults \in 0..MaxFaults

Init ==
  /\ thread \in Threads
  /\ written = [f \in Rollouts |-> 0]
  /\ there = FALSE /\ listed = {} /\ noUsage = FALSE
  /\ log = <<>> /\ index = EmptyIndex
  /\ job = [c \in Importers |-> NoJob]
  /\ rough = FALSE /\ faults = 0

Reading(c) == job[c].kind # "none"

(* The rollouts of the thread: those with a first line. *)
Current == {f \in Rollouts : written[f] > 0}

(* A process writes one rollout, and the next begins with another. *)
CodexWrites ==
  /\ \E f \in Rollouts : /\ written[f] < Len(thread[f])
                         /\ \A g \in 1..f - 1 : written[g] = Len(thread[g])
                         /\ written' = [written EXCEPT ![f] = @ + 1]
  /\ UNCHANGED <<thread, metaVars, log, index, job, rough, faults>>

-----------------------------------------------------------------------------
(* CodexRolloutImporter: what a line makes of the importer j, and the events *)
(* it yields.                                                              *)

Yield(j, events) == [j |-> j, events |-> events]
Event(type, id) == [type |-> type, id |-> id]

NewTurn(j) == [j EXCEPT !.turn = @ + 1, !.done = FALSE, !.tokens = "none"]

(* scoped_tool_use_id *)
Id(j, call) == <<j.turn, call>>
Pending(j, call) == \E id \in j.calls : id[2] = call

(* A text is said once a turn, whichever line says it. *)
Say(j, role, text) ==
  LET key == <<j.turn, role, text>>
  IN IF key \in j.seen THEN Yield(j, <<>>)
     ELSE Yield([j EXCEPT !.seen = @ \cup {key}], <<Event(role, key)>>)

(* emit_tool_end, which starts a call that no line has started. *)
EndCall(j, call) ==
  LET id == IF Pending(j, call) THEN CHOOSE x \in j.calls : x[2] = call ELSE Id(j, call)
      start == IF Pending(j, call) THEN <<>> ELSE <<Event("toolStart", id)>>
  IN IF call \in j.ended THEN Yield(j, <<>>)
     ELSE Yield([j EXCEPT !.calls = @ \cup {id}, !.ended = @ \cup {call}],
                Append(start, Event("toolEnd", id)))

(* handle_response_item: a call, unless a line has shown it. *)
StartCall(j, call) ==
  IF Pending(j, call) \/ call \in j.ended THEN Yield(j, <<>>)
  ELSE Yield([j EXCEPT !.calls = @ \cup {Id(j, call)}], <<Event("toolStart", Id(j, call))>>)

(* task_complete writes the usage last reported in the turn. *)
Complete(j) ==
  LET k == [j EXCEPT !.done = TRUE, !.tokens = "none"]
  IN IF j.tokens = "some" THEN Yield(k, <<Event("usage", <<j.turn>>)>>)
     ELSE Yield([k EXCEPT !.lacking = TRUE], <<>>)

(* handle_event_msg and handle_response_item.  A user_message after a        *)
(* task_complete begins a turn that no task_started has begun.              *)
Handle(j, kind, x) ==
  CASE kind = "task_started" -> Yield(NewTurn(j), <<>>)
    [] kind = "user_message" -> Say(IF j.done THEN NewTurn(j) ELSE j, "user", x)
    [] kind \in {"agent_message", "message"} -> Say(j, "assistant", x)
    [] kind = "function_call" -> StartCall(j, x)
    [] kind \in {"function_call_output", "exec_command_end"} -> EndCall(j, x)
    [] kind = "token_count" -> Yield([j EXCEPT !.tokens = x], <<>>)
    [] kind = "task_complete" -> Complete(j)
    [] kind = "turn_aborted" -> Yield(j, <<Event("stopped", <<>>)>>)

(* record_event: an event is written with its key, unless the skip set has   *)
(* it.  Events of one line have different types.                           *)
Key(f, i, e) == <<f, i, e.type>>
Recorded(j, f, i, e) == Key(f, i, e) \notin j.skip

(* What the importer is about to do: the next line of its rollout, if that   *)
(* has been written, makes it another importer and yields events.           *)
AtLine(j) == j.todo # <<>> /\ j.at < written[Head(j.todo)]

Result(j) ==
  LET f == Head(j.todo)
      i == j.at + 1
      handled == Handle(j, Line(f, i)[1], Line(f, i)[2])
      new == SelectSeq(handled.events, LAMBDA e : Recorded(j, f, i, e))
  IN Yield([handled.j EXCEPT !.at = i],
           [k \in DOMAIN new |-> [from |-> <<f, i>>, type |-> new[k].type,
                                  id |-> new[k].id, turn |-> handled.j.turn]])

KeysOf(events) == [k \in DOMAIN events |-> Append(events[k].from, events[k].type)]

(* process_line *)
ReadLine(c) ==
  /\ AtLine(job[c])
  /\ LET result == Result(job[c])
     IN /\ log' = log \o result.events
        /\ job' = [job EXCEPT ![c] = [result.j EXCEPT !.fresh = @ \o KeysOf(result.events)]]
  /\ UNCHANGED <<fileVars, metaVars, index, rough, faults>>

(* The end of a rollout. *)
EndOfFile(c) ==
  /\ job[c].todo # <<>> /\ ~AtLine(job[c])
  /\ LET f == Head(job[c].todo)
     IN job' = [job EXCEPT ![c].todo = Tail(@), ![c].at = 0,
                           ![c].lens = Append(@, [file |-> f, lines |-> job[c].at])]
  /\ UNCHANGED <<fileVars, metaVars, log, index, rough, faults>>

-----------------------------------------------------------------------------
(* import_session, sync_session *)

(* Rollouts in the order of their times, which is that of their numbers. *)
InOrder(files) ==
  LET Is(f) == f \in files IN SelectSeq([f \in Rollouts |-> f], Is)

(* The thread has no run yet. *)
BeginImport(c) ==
  /\ ~there /\ \A d \in Importers : ~Reading(d)
  /\ Current # {}
  /\ job' = [job EXCEPT ![c] = [NoJob EXCEPT !.kind = "import", !.todo = InOrder(Current)]]
  /\ UNCHANGED <<fileVars, metaVars, log, index, rough, faults>>

(* read_warmup_turn_count: as many turns as there are messages of the user. *)
WarmTurn == Cardinality({k \in DOMAIN log : log[k].type = "user"})

Listed == {l.file : l \in listed}

BeginSync(c) ==
  /\ ~Reading(c) /\ there
  /\ Current \ Listed # {}
  /\ job' = [job EXCEPT ![c] = [NoJob EXCEPT !.kind = "sync", !.skip = SkipSet(index),
                                  !.todo = InOrder(Current \ Listed), !.turn = WarmTurn]]
  /\ rough' = (rough \/ \E d \in Importers : Reading(d))
  /\ UNCHANGED <<fileVars, metaVars, log, index, faults>>

(* The index is flushed; save_meta, with_meta: what was read is listed. *)
Finish(c) ==
  /\ Reading(c) /\ job[c].todo = <<>>
  /\ index' = AppendKeys(index, job[c].fresh)
  /\ there' = TRUE
  /\ listed' = listed \cup {job[c].lens[k] : k \in DOMAIN job[c].lens}
  /\ noUsage' = (noUsage \/ job[c].lacking)
  /\ job' = [job EXCEPT ![c] = NoJob]
  /\ UNCHANGED <<fileVars, log, rough, faults>>

(* A read or a write fails, or the process ends.  An import removes its run, *)
(* and what a crash leaves of it nobody finds: the next import begins with a *)
(* directory of its own.  Of what a sync was about to write some may be in   *)
(* events.jsonl; its buffer is flushed when it is dropped, which fails as    *)
(* well where it was the index that could not be written.                   *)
Stop(c) ==
  /\ Reading(c) /\ faults < MaxFaults
  /\ faults' = faults + 1
  /\ job' = [job EXCEPT ![c] = NoJob]
  /\ IF ~there THEN log' = <<>> /\ index' = EmptyIndex
     ELSE LET next == IF AtLine(job[c]) THEN Result(job[c]).events ELSE <<>>
          IN \E n \in 0..Len(next) :
               LET done == SubSeq(next, 1, n)
               IN /\ log' = log \o done
                  /\ index' \in CutAppend(index, job[c].fresh \o KeysOf(done))
  /\ UNCHANGED <<fileVars, metaVars, rough>>

Next ==
  \/ CodexWrites
  \/ \E c \in Importers : \/ BeginImport(c) \/ BeginSync(c) \/ ReadLine(c) \/ EndOfFile(c)
                          \/ Finish(c) \/ Stop(c)

Spec == Init /\ [][Next]_vars

-----------------------------------------------------------------------------
(* Properties *)

Of(type) == {k \in DOMAIN log : log[k].type = type}

(* Nothing is imported twice: not by the retry of a sync that failed, whose  *)
(* rollouts are read again from their start.  Overlapping syncs are a known *)
(* exception, and an event whose key was lost is imported once more.         *)
OnceEach ==
  ~rough => \A k \in DOMAIN log :
    Cardinality({j \in Of(log[k].type) : log[j].from = log[k].from})
      <= 1 + TimesLost(Append(log[k].from, log[k].type), index)

(* Every call of a rollout that has been read is on the page, and has ended  *)
(* there if it ended; although the first line that tells of it may be of    *)
(* any of three kinds, and a retry begins again with another turn number.   *)
CallsShown ==
  \A l \in listed : \A i \in 1..l.lines :
    LET line == Line(l.file, i)
        Shown(type) == \E k \in Of(type) : log[k].id[2] = line[2]
    IN /\ line[1] = "function_call" => Shown("toolStart")
       /\ line[1] \in {"function_call_output", "exec_command_end"} => Shown("toolEnd")

(* No call ends before it has begun, and none ends twice, as long as no call *)
(* was cut in two by a sync that failed.                                   *)
CallsPaired ==
  ~rough /\ faults = 0 => \A k \in Of("toolEnd") :
    /\ \E j \in Of("toolStart") : j < k /\ log[j].id = log[k].id
    /\ \A j \in Of("toolEnd") : log[j].id = log[k].id => j = k

(* A run is said to lack usage when a turn that was read had none. *)
UsageHonest ==
  noUsage <=> \E l \in listed : \E i \in 1..l.lines :
                /\ Line(l.file, i)[1] = "task_complete"
                /\ ~ \E k \in Of("usage") : log[k].from = <<l.file, i>>

(* Rollouts begin with a task_started, and every turn of those that have     *)
(* been read had a message of the user.                                    *)
Counted ==
  /\ \A f \in Rollouts : Line(f, 1)[1] = "task_started"
  /\ \A l \in listed :
       LET Count(kind) == Cardinality({i \in 1..l.lines : Line(l.file, i)[1] = kind})
       IN Count("task_started") <= Count("user_message")

(* A sync goes on with turn numbers that no turn has yet, so that no turn    *)
(* takes the usage or the messages of another and none says a text twice;   *)
(* it counts the messages of the user for that, hence Counted.  After a sync *)
(* that did not end well this is known to fail: the retry gives the turn a   *)
(* second number but leaves its message out, and the sync after that counts  *)
(* one turn too few.                                                       *)
TurnsApart ==
  ~rough /\ faults = 0 /\ Counted => \A j, k \in Of("usage") \cup Of("user") \cup Of("assistant") :
    log[j].type = log[k].type /\ log[j].id = log[k].id => j = k

(* What the comments of the code promise of a retry (codex_sessions.rs:1467, *)
(* "skip events that were already written"; 1475, "don't collide"), and the *)
(* code does not keep where keys were lost or a turn got a second number:   *)
(* operators for the reader, which no run checks.  The second fails with     *)
(* three rollouts of which two have usage, more than a run can afford.      *)
RetrySkipsWritten ==
  ~rough => \A j, k \in DOMAIN log :
    log[j].from = log[k].from /\ log[j].type = log[k].type => j = k
RetryKeepsTurnsApart ==
  ~rough /\ Counted => \A j, k \in Of("user") \cup Of("usage") :
    log[j].type = log[k].type /\ log[j].id = log[k].id => j = k

=============================================================================
