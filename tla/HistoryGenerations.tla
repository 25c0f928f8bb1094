------------------------- MODULE HistoryGenerations -------------------------
(***************************************************************************)
(* The generations of a run's history pages on disk (storage/history.rs):  *)
(* requests that look for a current generation or build one, under two      *)
(* locks; the snapshot of a log that is still being written; publication by *)
(* rename and by replacing the pointer; the clean-up of old generations;    *)
(* crashes between any two of these steps, and a generation that has become *)
(* unreadable.                                                              *)
(*                                                                         *)
(* The log is seen through its length and, for each length, whether it is   *)
(* a safe point (module HistoryProjection says which are).                  *)
(***************************************************************************)
EXTENDS Naturals, Sequences, FiniteSets, FiniteSetsExt

CONSTANTS
  Gens,        \* generation ids
  Clients,     \* requests under way at the same time
  MaxLog,      \* bound: length of the log
  MaxCatchup,  \* CATCHUP_REBUILD_BYTES, in events
  MaxCrashes   \* bound

NoGen == [gen |-> "none"]
Free == [lock |-> "free"]

VARIABLES
  safe,      \* for each length of the log above 0: is it a safe point
  terminal,  \* the run's status is terminal
  dir,       \* the directory of each generation
  size,      \* source_size in its manifest
  damaged,   \* its summary can no longer be read
  current,   \* current.json
  retained,  \* generations with this process's .retain
  shard, global, \* holders of the BUILD_LOCKS shard and of GLOBAL_BUILD_LOCK
  stage, gen, prev, \* of each request: position, its generation, the one before it
  keep,      \* the current generation its clean-up has read
  handed,    \* the generation a client has been given
  calm,      \* history: the run was terminal and unchanged since the request began
  crashes

logVars == <<safe, terminal>>
diskVars == <<dir, size, damaged, current>>
lockVars == <<shard, global>>
vars == <<logVars, diskVars, retained, lockVars, stage, gen, prev, keep, handed, calm, crashes>>

Places == {"idle", "clean", "sweep", "check", "lock", "snapshot", "publish", "point", "retain",
           "cleanAfter", "sweepAfter", "summary", "again"}

TypeOK ==
  /\ safe \in Seq(BOOLEAN) /\ Len(safe) <= MaxLog /\ terminal \in BOOLEAN
  /\ dir \in [Gens -> {"none", "build", "done", "gone"}]
  /\ size \in [Gens -> 0..MaxLog]
  /\ damaged \subseteq Gens /\ retained \subseteq Gens
  /\ current \in Gens \cup {NoGen}
  /\ shard \in Clients \cup {Free} /\ global \in Clients \cup {Free}
  /\ stage \in [Clients -> Places]
  /\ gen \in [Clients -> Gens \cup {NoGen}] /\ prev \in [Clients -> Gens \cup {NoGen}]
  /\ keep \in [Clients -> Gens \cup {NoGen}] /\ handed \in [Clients -> Gens \cup {NoGen}]
  /\ calm \in [Clients -> BOOLEAN] /\ crashes \in 0..MaxCrashes

Init ==
  /\ safe = <<>> /\ terminal = FALSE
  /\ dir = [g \in Gens |-> "none"] /\ size = [g \in Gens |-> 0] /\ damaged = {}
  /\ current = NoGen /\ retained = {}
  /\ shard = Free /\ global = Free
  /\ stage = [c \in Clients |-> "idle"]
  /\ gen = [c \in Clients |-> NoGen] /\ prev = gen /\ keep = gen /\ handed = gen
  /\ calm = [c \in Clients |-> FALSE] /\ crashes = 0

-----------------------------------------------------------------------------
(* The run *)

Restless == calm' = [c \in Clients |-> FALSE]

(* A session appends an event; afterwards work is open, or nothing is. *)
AppendEvent ==
  /\ ~terminal /\ Len(safe) < MaxLog
  /\ \E closed \in BOOLEAN : safe' = Append(safe, closed)
  /\ Restless
  /\ UNCHANGED <<terminal, diskVars, retained, lockVars, stage, gen, prev, keep, handed, crashes>>

(* The session ends, however its log ends, or is resumed. *)
SetStatus ==
  /\ terminal' = ~terminal
  /\ Restless
  /\ UNCHANGED <<safe, diskVars, retained, lockVars, stage, gen, prev, keep, handed, crashes>>

-----------------------------------------------------------------------------
(* Requests *)

Goto(c, place) == stage' = [stage EXCEPT ![c] = place]

Release(c) ==
  /\ shard' = IF shard = c THEN Free ELSE shard
  /\ global' = IF global = c THEN Free ELSE global

(* The request returns. *)
Return(c) ==
  /\ Goto(c, "idle")
  /\ Release(c)
  /\ gen' = [gen EXCEPT ![c] = NoGen]
  /\ prev' = [prev EXCEPT ![c] = NoGen]
  /\ keep' = [keep EXCEPT ![c] = NoGen]
  /\ calm' = [calm EXCEPT ![c] = FALSE]

(* ensure_history_with_refresh takes the run's lock. *)
Ensure(c) ==
  /\ stage[c] = "idle" /\ shard = Free
  /\ shard' = c
  /\ calm' = [calm EXCEPT ![c] = terminal]
  /\ Goto(c, "clean")
  /\ UNCHANGED <<logVars, diskVars, retained, global, gen, prev, keep, handed, crashes>>

(* cleanup_history reads the pointer, then removes what is being built and  *)
(* what is neither current nor kept by this process.                        *)
CleanRead(c) ==
  /\ stage[c] \in {"clean", "cleanAfter"}
  /\ keep' = [keep EXCEPT ![c] = current]
  /\ Goto(c, IF stage[c] = "clean" THEN "sweep" ELSE "sweepAfter")
  /\ UNCHANGED <<logVars, diskVars, retained, lockVars, gen, prev, handed, calm, crashes>>

ShouldRemove(g, kept) == dir[g] = "build" \/ (dir[g] = "done" /\ g # kept /\ g \notin retained)

Sweep(c) ==
  /\ stage[c] \in {"sweep", "sweepAfter"}
  /\ dir' = [g \in Gens |-> IF ShouldRemove(g, keep[c]) THEN "gone" ELSE dir[g]]
  /\ IF stage[c] = "sweep" THEN Goto(c, "check") /\ UNCHANGED lockVars
     ELSE Goto(c, IF shard = c THEN "summary" ELSE "again") /\ Release(c)
  /\ keep' = [keep EXCEPT ![c] = NoGen]
  /\ UNCHANGED <<logVars, size, damaged, current, retained, gen, prev, handed, calm, crashes>>

\* Mutant: a run that has ended may lag behind like a live one.
MatchesLive(g) == dir[g] = "done" /\ Len(safe) - size[g] <= MaxCatchup

(* manifest_matches: nothing may have been appended to a terminal run's log,*)
(* and not too much to a live one's.                                        *)
Matches(g) ==
  /\ dir[g] = "done"
  /\ terminal => size[g] = Len(safe)
  /\ Len(safe) - size[g] <= MaxCatchup

Hit(c) ==
  /\ stage[c] = "check"
  /\ current # NoGen /\ Matches(current)
  /\ retained' = retained \cup {current}
  /\ gen' = [gen EXCEPT ![c] = current]
  /\ Goto(c, "summary")
  /\ Release(c)
  /\ UNCHANGED <<logVars, diskVars, prev, keep, handed, calm, crashes>>

(* No match, or the client asks for a rebuild. *)
Miss(c) ==
  /\ stage[c] = "check"
  /\ Goto(c, "lock")
  /\ UNCHANGED <<logVars, diskVars, retained, lockVars, gen, prev, keep, handed, calm, crashes>>

(* build_generation *)
BeginBuild(c, g) ==
  /\ stage[c] = "lock" /\ global = Free
  /\ dir[g] = "none"
  /\ global' = c
  /\ prev' = [prev EXCEPT ![c] = current]
  /\ gen' = [gen EXCEPT ![c] = g]
  /\ dir' = [dir EXCEPT ![g] = "build"]
  /\ Goto(c, "snapshot")
  /\ UNCHANGED <<logVars, size, damaged, current, retained, shard, keep, handed, calm, crashes>>

(* The writer's snapshot fixes a prefix of the log; the status is read     *)
(* after it, so the length is remembered here and cut in the next step.     *)
Snapshot(c) ==
  /\ stage[c] = "snapshot"
  /\ size' = [size EXCEPT ![gen[c]] = Len(safe)]
  /\ Goto(c, "publish")
  /\ UNCHANGED <<logVars, dir, damaged, current, retained, lockVars, gen, prev, keep, handed, calm, crashes>>

(* A terminal run is projected whole, a live one to its last safe point;    *)
(* then the directory gets its final name.                                  *)
SafeSize(n) == Max({0} \cup {i \in 1..n : safe[i]})

Publish(c) ==
  /\ stage[c] = "publish"
  /\ dir[gen[c]] = "build"
  /\ size' = [size EXCEPT ![gen[c]] = IF terminal THEN @ ELSE SafeSize(@)]
  /\ dir' = [dir EXCEPT ![gen[c]] = "done"]
  /\ Goto(c, "point")
  /\ UNCHANGED <<logVars, damaged, current, retained, lockVars, gen, prev, keep, handed, calm, crashes>>

Point(c) ==
  /\ stage[c] = "point"
  /\ current' = gen[c]
  /\ Goto(c, "retain")
  /\ UNCHANGED <<logVars, dir, size, damaged, retained, lockVars, gen, prev, keep, handed, calm, crashes>>

Retain(c) ==
  /\ stage[c] = "retain"
  /\ \A g \in {gen[c], prev[c]} \ {NoGen} : dir[g] = "done"
  /\ retained' = retained \cup ({gen[c], prev[c]} \ {NoGen})
  /\ prev' = [prev EXCEPT ![c] = NoGen]
  /\ Goto(c, "cleanAfter")
  /\ UNCHANGED <<logVars, diskVars, lockVars, gen, keep, handed, calm, crashes>>

(* The request fails: a directory it needs is not there, or the disk fails. *)
Fail(c) ==
  /\ stage[c] \in {"sweep", "snapshot", "publish", "point", "retain", "sweepAfter"}
  /\ Return(c)
  /\ UNCHANGED <<logVars, diskVars, retained, handed, crashes>>

(* get_summary reads the summary, without a lock, and builds once more when *)
(* it cannot, still without the run's lock; the second time it returns an   *)
(* error.                                                                   *)
Summary(c) ==
  /\ stage[c] \in {"summary", "again"}
  /\ LET readable == dir[gen[c]] = "done" /\ gen[c] \notin damaged
     IN /\ handed' = IF readable THEN [handed EXCEPT ![c] = gen[c]] ELSE handed
        /\ IF readable \/ stage[c] = "again" THEN Return(c)
           ELSE Goto(c, "lock") /\ UNCHANGED <<lockVars, gen, prev, keep, calm>>
  /\ UNCHANGED <<logVars, diskVars, retained, crashes>>

-----------------------------------------------------------------------------
(* Faults *)

Damage ==
  /\ damaged = {}
  /\ \E g \in Gens : dir[g] = "done" /\ damaged' = {g}
  /\ UNCHANGED <<logVars, dir, size, current, retained, lockVars, stage, gen, prev, keep, handed, calm, crashes>>

(* A new process has another retention id, and no clients yet. *)
Crash ==
  /\ crashes < MaxCrashes
  /\ crashes' = crashes + 1
  /\ retained' = {}
  /\ shard' = Free /\ global' = Free
  /\ stage' = [c \in Clients |-> "idle"]
  /\ gen' = [c \in Clients |-> NoGen] /\ prev' = gen' /\ keep' = gen' /\ handed' = gen'
  /\ calm' = [c \in Clients |-> FALSE]
  /\ UNCHANGED <<logVars, diskVars>>

Request(c) ==
  \/ Ensure(c) \/ CleanRead(c) \/ Sweep(c) \/ Hit(c) \/ Miss(c)
  \/ (\E g \in Gens : BeginBuild(c, g)) \/ Snapshot(c) \/ Publish(c) \/ Point(c) \/ Retain(c)
  \/ Fail(c) \/ Summary(c)

Next ==
  \/ AppendEvent \/ SetStatus \/ Damage \/ Crash
  \/ \E c \in Clients : Request(c)

Spec == Init /\ [][Next]_vars

-----------------------------------------------------------------------------
(* Properties *)

(* A client pages backwards through the generation it was given, at its own *)
(* pace: the generation stays on disk as long as the process lives, whatever *)
(* is built, published or cleaned up for other clients meanwhile.           *)
HandedStays == \A c \in Clients : handed[c] # NoGen => dir[handed[c]] = "done"

(* The pointer names a complete generation, between any two steps of any    *)
(* build and after any crash.  Only a rebuild after a damaged summary, which *)
(* does not take the run's lock, can lose its generation to a clean-up.     *)
PointerValid == current # NoGen /\ damaged = {} => dir[current] = "done"

(* A run that has ended has no catch-up: a client that asks for its history *)
(* while nothing changes is given all of it.                                *)
EndedRunWhole ==
  \A c \in Clients :
    calm[c] /\ stage[c] \in {"summary", "again"} => size[gen[c]] = Len(safe)

=============================================================================
