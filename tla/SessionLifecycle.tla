-------------------------- MODULE SessionLifecycle --------------------------
(***************************************************************************)
(* The life of one run: the session commands (commands/session.rs), the    *)
(* commands that write its meta.json (storage/runs.rs, commands/runs.rs),  *)
(* its actors from spawn to clean-up (agent/session_actor.rs), the end of  *)
(* the application and the repair at the next start (lib.rs).              *)
(*                                                                         *)
(* A command is executed by an operation slot.  pc says where its code is: *)
(* two commands interleave at every await.  start, stop, fork and approve  *)
(* hold the run's lock of SpawnLocks; stop_run, delete and archive do not. *)
(* What a turn does inside an actor is module SessionActor's subject; here *)
(* an actor is seen through its task, which owns the CLI process, and what *)
(* it writes to meta.json.                                                 *)
(***************************************************************************)
EXTENDS Naturals

CONSTANTS
  Ops,          \* slots for commands that run at the same time
  Actors,       \* identities of the actors that may be spawned
  MaxRestarts   \* bound: how often the application ends and starts again

Absent == "absent"
NoOp == [op |-> Absent]      \* the lock is free
NoActor == [actor |-> Absent]

ASSUME AbsentAssumption == NoOp \notin Ops /\ NoActor \notin Actors

Locked == {"new", "resume", "stop", "fork", "approve"}
Commands == Locked \cup {"stopRun", "delete", "archive"}
Active == {"Pending", "Running", "Idle"}
Statuses == Active \cup {"Ended", "Stopped"}     \* Ended: Completed or Failed
Metas == [status : Statuses, deleted : BOOLEAN]

VARIABLES
  meta,         \* meta.json: status, deleted_at
  writer,       \* history: who wrote the status last, or let it stand
  lock,         \* the run's entry in SpawnLocks
  registered,   \* the run's entry in ActorSessionMap
  actor,        \* where each actor's task is
  stopSent,     \* Stop is in the actor's mailbox
  cmd, pc,      \* each slot's command and position
  held,         \* the handle a command took out of the map, or spawned
  seen,         \* the meta.json a command has read
  up, exiting,  \* the application runs; its CancellationToken has fired
  restarts

opVars == <<cmd, pc, held, seen>>
actorVars == <<actor, stopSent>>
appVars == <<up, exiting, restarts>>
vars == <<meta, writer, lock, registered, actorVars, opVars, appVars>>

ActorStates ==
  {"unborn", "loop", "toIdle", "toRunning", "winding", "stopped", "ended", "gone"}
Places ==
  {"none", "preflight", "mark", "take", "wait", "after", "spawn", "insert", "message",
   "read", "write"}

TypeOK ==
  /\ meta \in Metas
  /\ writer \in {"rightful", "preflight", "idle", "stopRun", "lateActor", "stale", "failedStart"}
  /\ lock \in Ops \cup {NoOp}
  /\ registered \in Actors \cup {NoActor}
  /\ actor \in [Actors -> ActorStates]
  /\ stopSent \in [Actors -> BOOLEAN]
  /\ cmd \in [Ops -> Commands \cup {"none"}]
  /\ pc \in [Ops -> Places]
  /\ held \in [Ops -> Actors \cup {NoActor}]
  /\ seen \in [Ops -> Metas]
  /\ up \in BOOLEAN /\ exiting \in BOOLEAN
  /\ restarts \in Nat

Created == [status |-> "Pending", deleted |-> FALSE]

(* start_run has written meta.json: the run exists and nothing runs. *)
Init ==
  /\ meta = Created
  /\ writer = "rightful"
  /\ lock = NoOp
  /\ registered = NoActor
  /\ actor = [a \in Actors |-> "unborn"]
  /\ stopSent = [a \in Actors |-> FALSE]
  /\ cmd = [o \in Ops |-> "none"]
  /\ pc = [o \in Ops |-> "none"]
  /\ held = [o \in Ops |-> NoActor]
  /\ seen = [o \in Ops |-> Created]
  /\ up = TRUE /\ exiting = FALSE
  /\ restarts = 0

-----------------------------------------------------------------------------
(* meta.json *)

(* update_status: a locked read-modify-write.  get_run hides a deleted run, *)
(* so with_meta fails and the status stays; no caller acts on the error.   *)
UpdateStatus(s, who) ==
  IF meta.deleted
  THEN UNCHANGED <<meta, writer>>
  ELSE /\ meta' = [meta EXCEPT !.status = s]
       /\ writer' = who

(* save_meta of a whole copy read earlier and changed in one field: what   *)
(* was written in between is lost, a status or a deletion.                  *)
SaveCopy(copy) ==
  /\ meta' = copy
  /\ writer' = IF copy.status = meta.status /\ (meta.deleted => copy.deleted)
               THEN writer ELSE "stale"

-----------------------------------------------------------------------------
(* Commands *)

At(o, place) == up /\ pc[o] = place
Goto(o, place) == pc' = [pc EXCEPT ![o] = place]

(* The command returns: its guard, if it has one, is dropped. *)
Return(o) ==
  /\ Goto(o, "none")
  /\ cmd' = [cmd EXCEPT ![o] = "none"]
  /\ held' = [held EXCEPT ![o] = NoActor]
  /\ seen' = [seen EXCEPT ![o] = Created]
  /\ lock' = IF lock = o THEN NoOp ELSE lock

(* A command without the lock begins at once. *)
CallUnlocked(o, c) ==
  /\ At(o, "none")
  /\ c \notin Locked
  /\ cmd' = [cmd EXCEPT ![o] = c]
  /\ Goto(o, IF c = "stopRun" THEN "take" ELSE "read")
  /\ UNCHANGED <<meta, writer, lock, registered, actorVars, held, seen, appVars>>

(* The others begin when SpawnLocks::acquire returns.  All but stop need   *)
(* the run, and all but stop and a new start its session id: without them   *)
(* they return an error and nothing has happened.                           *)
CallLocked(o, c) ==
  /\ At(o, "none")
  /\ c \in Locked /\ lock = NoOp
  /\ c = "stop" \/ ~meta.deleted
  /\ lock' = o
  /\ cmd' = [cmd EXCEPT ![o] = c]
  /\ seen' = [seen EXCEPT ![o] = IF c = "new" THEN meta ELSE Created]
  /\ Goto(o, IF c \in {"stop", "fork"} THEN "take" ELSE "preflight")
  /\ UNCHANGED <<meta, writer, registered, actorVars, held, appVars>>

(* Parameters are validated and the provider's base URL is probed.  approve *)
(* does so before it stops the session, start before it announces one.     *)
PreflightOk(o) ==
  /\ At(o, "preflight")
  /\ Goto(o, IF cmd[o] = "approve" THEN "take" ELSE "mark")
  /\ seen' = [seen EXCEPT ![o] = Created]
  /\ UNCHANGED <<meta, writer, lock, registered, actorVars, cmd, held, appVars>>

PreflightFails(o) ==
  /\ At(o, "preflight")
  /\ IF cmd[o] = "new" /\ seen[o].status = "Pending"
     THEN UpdateStatus("Ended", "preflight")
     ELSE UNCHANGED <<meta, writer>>
  /\ Return(o)
  /\ UNCHANGED <<registered, actorVars, appVars>>

(* "spawning" is emitted and the status becomes Running.  start does this  *)
(* before stop_actor, approve after it.                                     *)
Mark(o) ==
  /\ At(o, "mark")
  /\ UpdateStatus("Running", "rightful")
  /\ Goto(o, IF cmd[o] = "approve" THEN "spawn" ELSE "take")
  /\ UNCHANGED <<lock, registered, actorVars, cmd, held, seen, appVars>>

\* Mutant: Stop is not sent to an actor that is taken out of the map.
TakeSilently(o) ==
  /\ At(o, "take")
  /\ held' = [held EXCEPT ![o] = registered]
  /\ registered' = NoActor
  /\ Goto(o, IF registered = NoActor THEN "after" ELSE "wait")
  /\ UNCHANGED <<meta, writer, lock, actorVars, cmd, seen, appVars>>

(* stop_actor takes the handle out of the map and sends Stop. *)
Take(o) ==
  /\ At(o, "take")
  /\ held' = [held EXCEPT ![o] = registered]
  /\ registered' = NoActor
  /\ stopSent' = [a \in Actors |-> stopSent[a] \/ (a = registered /\ actor[a] # "gone")]
  /\ Goto(o, IF registered = NoActor THEN "after" ELSE "wait")
  /\ UNCHANGED <<meta, writer, lock, actor, cmd, seen, appVars>>

\* Mutant: the command goes on as soon as Stop is sent.
WaitNot(o) ==
  /\ At(o, "wait")
  /\ Goto(o, "after")
  /\ UNCHANGED <<meta, writer, lock, registered, actorVars, cmd, held, seen, appVars>>

(* It waits for the reply, then at most five seconds for the task.  The    *)
(* reply comes once the CLI has been reaped ("stopped"); an actor that ends *)
(* by itself drops the mailbox, and the reply, when its task ends ("gone"). *)
Wait(o) ==
  /\ At(o, "wait")
  /\ actor[held[o]] \in {"stopped", "gone"}
  /\ Goto(o, "after")
  /\ UNCHANGED <<meta, writer, lock, registered, actorVars, cmd, held, seen, appVars>>

\* Mutant: only stop_run writes the status.
AfterUnsaved(o) ==
  /\ At(o, "after")
  /\ IF cmd[o] = "stopRun" THEN UpdateStatus("Stopped", "stopRun")
     ELSE UNCHANGED <<meta, writer>>
  /\ \/ /\ cmd[o] \in {"stop", "fork", "stopRun"}
        /\ Return(o)
     \/ /\ cmd[o] \in {"new", "resume", "approve"}
        /\ Goto(o, IF cmd[o] = "approve" THEN "mark" ELSE "spawn")
        /\ held' = [held EXCEPT ![o] = NoActor]
        /\ UNCHANGED <<lock, cmd, seen>>
  /\ UNCHANGED <<registered, actorVars, appVars>>

(* stop and fork write Stopped only if they had an actor to stop; stop_run *)
(* writes it in any case.  The rest of fork works on the new run.           *)
After(o) ==
  /\ At(o, "after")
  /\ \/ /\ cmd[o] \in {"stop", "fork", "stopRun"}
        /\ IF cmd[o] = "stopRun" THEN UpdateStatus("Stopped", "stopRun")
           ELSE IF held[o] # NoActor THEN UpdateStatus("Stopped", "rightful")
           ELSE UNCHANGED <<meta, writer>>
        /\ Return(o)
     \/ /\ cmd[o] \in {"new", "resume", "approve"}
        /\ Goto(o, IF cmd[o] = "approve" THEN "mark" ELSE "spawn")
        /\ held' = [held EXCEPT ![o] = NoActor]
        /\ UNCHANGED <<meta, writer, lock, cmd, seen>>
  /\ UNCHANGED <<registered, actorVars, appVars>>

(* The CLI is spawned and the actor's task starts, both before the actor   *)
(* is in the map.  When the spawn fails the command returns the error and   *)
(* the status stays Running.                                                *)
SpawnOk(o, a) ==
  /\ At(o, "spawn")
  /\ actor[a] = "unborn"
  /\ actor' = [actor EXCEPT ![a] = "loop"]
  /\ held' = [held EXCEPT ![o] = a]
  /\ Goto(o, "insert")
  /\ UNCHANGED <<meta, writer, lock, registered, stopSent, cmd, seen, appVars>>

SpawnFails(o) ==
  /\ At(o, "spawn")
  /\ writer' = "failedStart"
  /\ Return(o)
  /\ UNCHANGED <<meta, registered, actorVars, appVars>>

Insert(o) ==
  /\ At(o, "insert")
  /\ registered' = held[o]
  /\ Goto(o, "message")
  /\ UNCHANGED <<meta, writer, lock, actorVars, cmd, held, seen, appVars>>

(* start sends the first message to the actor it spawned, approve its retry *)
(* message to the one in the map, 500 ms later; the answer comes when the  *)
(* actor serves its mailbox, or an error when the actor is gone.            *)
Addressee(o) == IF cmd[o] = "approve" THEN registered ELSE held[o]

SendFirst(o) ==
  /\ At(o, "message")
  /\ Addressee(o) # NoActor => actor[Addressee(o)] \in {"loop", "gone"}
  /\ Return(o)
  /\ UNCHANGED <<meta, writer, registered, actorVars, appVars>>

(* A resume without a message shows the input box: a synthetic idle. *)
SyntheticIdle(o) ==
  /\ At(o, "message")
  /\ cmd[o] = "resume"
  /\ IF meta.status = "Idle" THEN UNCHANGED <<meta, writer>>
     ELSE UpdateStatus("Idle", "idle")
  /\ Return(o)
  /\ UNCHANGED <<registered, actorVars, appVars>>

(* soft_delete_runs and set_runs_archived read meta.json, then write the   *)
(* copy they read, with deleted_at or archived_at changed; neither takes    *)
(* the meta lock.  archived_at decides nothing else and is left out.        *)
ReadCopy(o) ==
  /\ At(o, "read")
  /\ \/ /\ cmd[o] = "delete"
        /\ meta.deleted \/ meta.status \in Active
        /\ Return(o)
     \/ /\ cmd[o] = "delete" => ~meta.deleted /\ meta.status \notin Active
        /\ seen' = [seen EXCEPT ![o] = meta]
        /\ Goto(o, "write")
        /\ UNCHANGED <<lock, cmd, held>>
  /\ UNCHANGED <<meta, writer, registered, actorVars, appVars>>

WriteCopy(o) ==
  /\ At(o, "write")
  /\ SaveCopy([seen[o] EXCEPT !.deleted = @ \/ cmd[o] = "delete"])
  /\ Return(o)
  /\ UNCHANGED <<registered, actorVars, appVars>>

Command(o) ==
  \/ \E c \in Commands : CallUnlocked(o, c) \/ CallLocked(o, c)
  \/ PreflightOk(o) \/ PreflightFails(o) \/ Mark(o)
  \/ Take(o) \/ Wait(o) \/ After(o)
  \/ (\E a \in Actors : SpawnOk(o, a)) \/ SpawnFails(o) \/ Insert(o)
  \/ SendFirst(o) \/ SyntheticIdle(o) \/ ReadCopy(o) \/ WriteCopy(o)

-----------------------------------------------------------------------------
(* Actors *)

(* Who writes: the actor of the session, or one whose successor has been   *)
(* announced (start has written Running and is about to stop it), or that   *)
(* was taken out of the map, or is not yet in it.                           *)
Signature(a) ==
  IF registered = a /\ \A o \in Ops : ~(pc[o] = "take" /\ cmd[o] \in {"new", "resume"})
  THEN "rightful" ELSE "lateActor"

(* persist_idle_running reads the status and, in a second step, writes it. *)
TurnEdge(a) ==
  /\ actor[a] = "loop" /\ ~meta.deleted
  /\ \/ meta.status = "Running" /\ actor' = [actor EXCEPT ![a] = "toIdle"]
     \/ meta.status = "Idle" /\ actor' = [actor EXCEPT ![a] = "toRunning"]
  /\ UNCHANGED <<meta, writer, lock, registered, stopSent, opVars, appVars>>

PersistTurnEdge(a) ==
  /\ actor[a] \in {"toIdle", "toRunning"}
  /\ UpdateStatus(IF actor[a] = "toIdle" THEN "Idle" ELSE "Running", Signature(a))
  /\ actor' = [actor EXCEPT ![a] = "loop"]
  /\ UNCHANGED <<lock, registered, stopSent, opVars, appVars>>

(* handle_eof: the CLI has ended, at any time; the terminal status comes   *)
(* from its exit code and the last error.                                   *)
Eof(a) ==
  /\ actor[a] = "loop"
  /\ \E s \in IF exiting THEN {"Ended", "Stopped"} ELSE {"Ended"} : UpdateStatus(s, Signature(a))
  /\ actor' = [actor EXCEPT ![a] = "ended"]
  /\ UNCHANGED <<lock, registered, stopSent, opVars, appVars>>

(* Stop from the mailbox or the CancellationToken: stdin is closed and the *)
(* CLI gets a grace period.  The actor leaves the status to its stopper.    *)
HandleStop(a) ==
  /\ actor[a] = "loop"
  /\ stopSent[a] \/ exiting
  /\ actor' = [actor EXCEPT ![a] = "winding"]
  /\ UNCHANGED <<meta, writer, lock, registered, stopSent, opVars, appVars>>

(* reap_gracefully: the CLI has ended, or is killed; then the reply. *)
Reaped(a) ==
  /\ actor[a] = "winding"
  /\ actor' = [actor EXCEPT ![a] = "stopped"]
  /\ UNCHANGED <<meta, writer, lock, registered, stopSent, opVars, appVars>>

(* cleanup: the map's entry goes only if it is still this actor's. *)
Cleanup(a) ==
  /\ actor[a] \in {"stopped", "ended"}
  /\ registered' = IF registered = a THEN NoActor ELSE registered
  /\ actor' = [actor EXCEPT ![a] = "gone"]
  /\ stopSent' = [stopSent EXCEPT ![a] = FALSE]
  /\ UNCHANGED <<meta, writer, lock, opVars, appVars>>

Task(a) ==
  \/ TurnEdge(a) \/ PersistTurnEdge(a) \/ Eof(a)
  \/ HandleStop(a) \/ Reaped(a) \/ Cleanup(a)

-----------------------------------------------------------------------------
(* The application *)

Quit ==
  /\ up /\ ~exiting
  /\ restarts < MaxRestarts
  /\ exiting' = TRUE
  /\ UNCHANGED <<meta, writer, lock, registered, actorVars, opVars, up, restarts>>

(* graceful_shutdown_actors, phase 2: what is still in the map after three *)
(* seconds is taken out and sent Stop.                                      *)
Drain ==
  /\ up /\ exiting
  /\ registered # NoActor
  /\ stopSent' = [a \in Actors |-> stopSent[a] \/ (a = registered /\ actor[a] # "gone")]
  /\ registered' = NoActor
  /\ UNCHANGED <<meta, writer, lock, actor, opVars, appVars>>

(* app.exit, or a crash at any moment: memory is lost.  The CLI processes  *)
(* see their stdin closed and end by themselves, out of anybody's sight.    *)
Die ==
  /\ up
  /\ restarts < MaxRestarts
  /\ up' = FALSE
  /\ restarts' = restarts + 1
  /\ lock' = NoOp
  /\ registered' = NoActor
  /\ actor' = [a \in Actors |-> IF actor[a] = "unborn" THEN "unborn" ELSE "gone"]
  /\ stopSent' = [a \in Actors |-> FALSE]
  /\ cmd' = [o \in Ops |-> "none"]
  /\ pc' = [o \in Ops |-> "none"]
  /\ held' = [o \in Ops |-> NoActor]
  /\ seen' = [o \in Ops |-> Created]
  /\ UNCHANGED <<meta, writer, exiting>>

(* reconcile_orphaned_runs, before any command can run. *)
Restart ==
  /\ ~up
  /\ up' = TRUE /\ exiting' = FALSE
  /\ meta' = [meta EXCEPT !.status = CASE meta.status \in {"Running", "Idle"} -> "Stopped"
                                       [] meta.status = "Pending" -> "Ended"
                                       [] OTHER -> meta.status]
  /\ writer' = IF meta.status \in Active THEN "rightful" ELSE writer
  /\ UNCHANGED <<lock, registered, actorVars, opVars, restarts>>

Next ==
  \/ \E o \in Ops : Command(o)
  \/ \E a \in Actors : up /\ Task(a)
  \/ Quit \/ Drain \/ Die \/ Restart

Spec == Init /\ [][Next]_vars

-----------------------------------------------------------------------------
(* Properties *)

Running(a) == actor[a] \in {"loop", "toIdle", "toRunning", "winding"}

(* Somebody answers for every CLI the application has started: its actor   *)
(* is in the map, where a stop or an exit finds it, or a command that has  *)
(* spawned it is about to put it there, or a command has taken it out and  *)
(* waits for its end, or it has its Stop.  Clean-up of an old actor, which *)
(* may outlast the wait for it, must not take a new one out of the map.     *)
NoOrphanCli ==
  \A a \in Actors : Running(a) =>
    \/ registered = a
    \/ \E o \in Ops : pc[o] \in {"insert", "wait"} /\ held[o] = a
    \/ exiting /\ stopSent[a]

(* Two CLI processes on one conversation would both append to its          *)
(* transcript.  Commands that take the lock never cause it: while two       *)
(* actors have a CLI, one of them was taken by a stop_run (which does not   *)
(* take the lock) that still waits for it, or the application is exiting.   *)
OneCli ==
  \A a, b \in Actors : a # b /\ Running(a) /\ Running(b) =>
    \/ \E o \in Ops : cmd[o] = "stopRun" /\ pc[o] = "wait" /\ held[o] \in {a, b}
    \/ exiting

(* Every CLI is in somebody's hands, and has its conversation to itself.    *)
CliAccounted == NoOrphanCli /\ OneCli

Quiet == up /\ ~exiting /\ \A o \in Ops : pc[o] = "none"
Alive == \E a \in Actors : actor[a] \in {"loop", "toIdle", "toRunning"}

(* When no command is under way, the status of a run that is not deleted   *)
(* tells whether a session is there.  The exceptions are known and         *)
(* complete.  A session that runs under another status: an actor wrote      *)
(* after its successor was announced, a stop_run met a start, an archive or *)
(* delete wrote back the status it had read, or a failed preflight trusted   *)
(* such a status.  A status without its session: a start failed after it    *)
(* wrote Running, the synthetic idle of a resume came after its CLI had      *)
(* ended, an actor wrote late, or a stale copy was written back.            *)
StatusHonest ==
  LET claimed == meta.status \in {"Running", "Idle"}
      over == \A a \in Actors : actor[a] \in {"unborn", "stopped", "gone"}
  IN Quiet /\ ~meta.deleted =>
       /\ Alive /\ ~claimed => writer \in {"lateActor", "stopRun", "stale", "preflight"}
       /\ over /\ claimed => writer \in {"failedStart", "lateActor", "stale", "idle"}

(* A command that waits for an actor's end does not wait in vain: the actor *)
(* has its Stop in the mailbox, or is already on its way out.  Otherwise    *)
(* the command would keep the run's lock, and every later start with it.    *)
StopDelivered ==
  \A o \in Ops : pc[o] = "wait" =>
    stopSent[held[o]] \/ actor[held[o]] \in {"winding", "stopped", "ended", "gone"}

=============================================================================
