---------------------------- MODULE ServicesProofs ----------------------------
(***************************************************************************)
(* Theorems about SessionLifecycle, for any number of slots, actors and     *)
(* restarts, and about the parts that run beside it.                        *)
(*                                                                         *)
(* That nobody loses sight of a CLI, and that the commands that take the    *)
(* run's lock never let two run, rests on what the lock protects: from the  *)
(* moment such a command has emptied the map's entry until it has filled it *)
(* again, nobody else fills it (EmptyMap).                                  *)
(*                                                                         *)
(* The inductive invariants of the parts of MCServices, from                *)
(* ServicePartsProofs, are carried over to ServicesSpec, whose behaviours   *)
(* the run checks.  A behaviour is one of the chosen part: the invariant of *)
(* that part holds in it, and the others have nothing to say.              *)
(***************************************************************************)
EXTENDS MCServices, TLAPS

(* Which positions each kind of command can be at. *)
CmdShape ==
  \A o \in Ops :
    /\ pc[o] \in {"preflight", "mark", "spawn", "insert", "message"} =>
         cmd[o] \in {"new", "resume", "approve"}
    /\ pc[o] \in {"take", "wait", "after"} => cmd[o] \in Locked \cup {"stopRun"}
    /\ pc[o] \in {"read", "write"} => cmd[o] \in {"delete", "archive"}

(* A command that takes the lock has it until it returns. *)
LockHeld == \A o \in Ops : pc[o] # "none" /\ cmd[o] \in Locked => lock = o

(* A command that waits for an actor, or has spawned one, has its handle. *)
HeldShape == \A o \in Ops : pc[o] \in {"wait", "insert"} => held[o] \in Actors

(* What the lock protects. *)
Emptied(o) ==
  /\ cmd[o] \in Locked
  /\ \/ pc[o] \in {"wait", "after", "spawn", "insert"}
     \/ pc[o] = "mark" /\ cmd[o] = "approve"

EmptyMap == \A o \in Ops : Emptied(o) => registered = NoActor

(* Handles are those of actors that were spawned. *)
Born ==
  /\ registered # NoActor => actor[registered] # "unborn"
  /\ \A o \in Ops : held[o] # NoActor => actor[held[o]] # "unborn"

(* No task and no command outlives the application. *)
DownMeansOver ==
  ~up => /\ \A a \in Actors : actor[a] \in {"unborn", "gone"}
         /\ \A o \in Ops : pc[o] = "none"

IInv ==
  /\ TypeOK
  /\ CmdShape
  /\ LockHeld
  /\ HeldShape
  /\ EmptyMap
  /\ Born
  /\ DownMeansOver
  /\ StopDelivered
  /\ NoOrphanCli
  /\ OneCli

-----------------------------------------------------------------------------
(* What a command shares with the others. *)

(* update_status leaves a meta.json. *)
LEMMA UpdateStatusTyped ==
  ASSUME TypeOK,
         \/ \E s \in Statuses, who \in {"rightful", "stopRun"} : UpdateStatus(s, who)
         \/ UNCHANGED <<meta, writer>>
  PROVE  /\ meta' \in Metas
         /\ writer' \in {"rightful", "preflight", "idle", "stopRun", "lateActor", "stale",
                         "failedStart"}
  BY DEF TypeOK, UpdateStatus, Metas

(* A command that returns leaves a free slot. *)
LEMMA ReturnTyped ==
  ASSUME TypeOK, NEW o \in Ops, Return(o)
  PROVE  /\ lock' \in Ops \cup {NoOp}
         /\ cmd' \in [Ops -> Commands \cup {"none"}]
         /\ pc' \in [Ops -> Places]
         /\ held' \in [Ops -> Actors \cup {NoActor}]
         /\ seen' \in [Ops -> Metas]
  BY DEF TypeOK, Return, Goto, Places, Created, Metas, Statuses, Active

(* While a command with the lock has the map empty and no actor in its own *)
(* hands, a CLI that still runs is one that a stop_run waits for, or the     *)
(* application is exiting.                                                  *)
LEMMA OthersAwaited ==
  ASSUME IInv, NEW o \in Ops, Emptied(o), pc[o] \notin {"wait", "insert"},
         NEW a \in Actors, Running(a)
  PROVE  \/ \E w \in Ops : w # o /\ cmd[w] = "stopRun" /\ pc[w] = "wait" /\ held[w] = a
         \/ exiting
<1>1. registered # a
  BY AbsentAssumption DEF IInv, EmptyMap
<1>2. ASSUME NEW w \in Ops, pc[w] \in {"insert", "wait"}, held[w] = a
      PROVE  w # o /\ cmd[w] = "stopRun" /\ pc[w] = "wait"
  <2>1. w # o
    BY <1>2
  <2>2. cmd[w] \notin Locked
    BY <1>2, <2>1, AbsentAssumption DEF IInv, LockHeld, Emptied
  <2> QED
    BY <1>2, <2>1, <2>2 DEF IInv, CmdShape, Locked
<1> QED
  BY <1>1, <1>2 DEF IInv, NoOrphanCli

-----------------------------------------------------------------------------
(* One lemma per action *)

(* A command without the lock begins. *)
LEMMA CallUnlockedStep ==
  ASSUME NEW o \in Ops, NEW c \in Commands, IInv, CallUnlocked(o, c)
  PROVE  IInv'
<1>1. TypeOK'
  BY DEF IInv, TypeOK, CallUnlocked, Places, At, Goto, Locked, actorVars,
     appVars
<1>2. CmdShape' /\ LockHeld' /\ HeldShape'
  BY DEF IInv, TypeOK, CmdShape, LockHeld, HeldShape, CallUnlocked, Commands,
     Locked, At, Goto, actorVars, appVars
<1>3. EmptyMap' /\ Born' /\ DownMeansOver'
  BY DEF IInv, TypeOK, EmptyMap, Born, DownMeansOver, CallUnlocked, Emptied, At,
     Goto, Locked, actorVars, appVars
<1>4. StopDelivered' /\ NoOrphanCli' /\ OneCli'
  BY DEF IInv, TypeOK, StopDelivered, NoOrphanCli, OneCli, CallUnlocked,
     Running, At, Goto, Locked, actorVars, appVars
<1> QED
  BY <1>1, <1>2, <1>3, <1>4 DEF IInv

(* A command takes the free lock: nobody else that needs it is under way. *)
LEMMA CallLockedStep ==
  ASSUME NEW o \in Ops, NEW c \in Commands, IInv, CallLocked(o, c)
  PROVE  IInv'
<1>1. TypeOK'
  BY DEF IInv, TypeOK, CallLocked, Metas, Places, At, Created, Goto, Locked,
     actorVars, appVars, Statuses, Active
<1>2. CmdShape' /\ LockHeld' /\ HeldShape'
  BY AbsentAssumption DEF IInv, TypeOK, CmdShape, LockHeld, HeldShape,
     CallLocked, Locked, At, Goto, actorVars, appVars
<1>3. EmptyMap' /\ Born' /\ DownMeansOver'
  BY DEF IInv, TypeOK, EmptyMap, Born, DownMeansOver, CallLocked, Emptied, At,
     Goto, Locked, actorVars, appVars
<1>4. StopDelivered' /\ NoOrphanCli' /\ OneCli'
  BY DEF IInv, TypeOK, StopDelivered, NoOrphanCli, OneCli, CallLocked, Running,
     At, Goto, Locked, actorVars, appVars
<1> QED
  BY <1>1, <1>2, <1>3, <1>4 DEF IInv

(* The checks before a start succeed. *)
LEMMA PreflightOkStep ==
  ASSUME NEW o \in Ops, IInv, PreflightOk(o)
  PROVE  IInv'
<1>1. TypeOK'
  BY DEF IInv, TypeOK, PreflightOk, Metas, Places, At, Created, Goto, actorVars,
     appVars, Locked, Statuses, Active
<1>2. CmdShape' /\ LockHeld' /\ HeldShape'
  BY DEF IInv, TypeOK, CmdShape, LockHeld, HeldShape, PreflightOk, Locked, At,
     Goto, actorVars, appVars
<1>3. EmptyMap' /\ Born' /\ DownMeansOver'
  BY DEF IInv, TypeOK, EmptyMap, Born, DownMeansOver, PreflightOk, Emptied, At,
     Goto, actorVars, appVars, Locked
<1>4. StopDelivered' /\ NoOrphanCli' /\ OneCli'
  BY DEF IInv, TypeOK, StopDelivered, NoOrphanCli, OneCli, PreflightOk, Running,
     At, Goto, actorVars, appVars, Locked
<1> QED
  BY <1>1, <1>2, <1>3, <1>4 DEF IInv

(* The checks fail and the command returns. *)
LEMMA PreflightFailsStep ==
  ASSUME NEW o \in Ops, IInv, PreflightFails(o)
  PROVE  IInv'
<1>1. TypeOK'
  BY DEF IInv, TypeOK, PreflightFails, Metas, Places, At, Return, UpdateStatus,
     actorVars, appVars, Locked, Statuses, Created, Goto, Active
<1>2. CmdShape' /\ LockHeld' /\ HeldShape'
  BY DEF IInv, TypeOK, CmdShape, LockHeld, HeldShape, PreflightFails, At,
     Return, UpdateStatus, Goto
<1>3. EmptyMap' /\ Born' /\ DownMeansOver'
  BY DEF IInv, TypeOK, EmptyMap, Born, DownMeansOver, PreflightFails, Emptied,
     At, Return, UpdateStatus, actorVars, appVars, Locked, Goto
<1>4. StopDelivered' /\ NoOrphanCli' /\ OneCli'
  BY DEF IInv, TypeOK, StopDelivered, NoOrphanCli, OneCli, PreflightFails,
     Running, At, Return, UpdateStatus, actorVars, appVars, Locked, Goto
<1> QED
  BY <1>1, <1>2, <1>3, <1>4 DEF IInv

(* Running is written; approve has emptied the map before, start has not. *)
LEMMA MarkStep ==
  ASSUME NEW o \in Ops, IInv, Mark(o)
  PROVE  IInv'
<1>1. TypeOK'
  BY DEF IInv, TypeOK, Mark, Metas, Places, At, Goto, UpdateStatus, actorVars,
     appVars, Locked, Statuses, Active
<1>2. CmdShape' /\ LockHeld' /\ HeldShape'
  BY DEF IInv, TypeOK, CmdShape, LockHeld, HeldShape, Mark, Locked, At, Goto,
     UpdateStatus, actorVars, appVars
<1>3. EmptyMap' /\ Born' /\ DownMeansOver'
  BY DEF IInv, TypeOK, EmptyMap, Born, DownMeansOver, Mark, Emptied, At, Goto,
     UpdateStatus, actorVars, appVars, Locked
<1>4. StopDelivered' /\ NoOrphanCli' /\ OneCli'
  BY DEF IInv, TypeOK, StopDelivered, NoOrphanCli, OneCli, Mark, Running, At,
     Goto, UpdateStatus, actorVars, appVars, Locked
<1> QED
  BY <1>1, <1>2, <1>3, <1>4 DEF IInv

(* The actor taken out of the map has its Stop, and the slot its handle. *)
LEMMA TakeStep ==
  ASSUME NEW o \in Ops, IInv, Take(o)
  PROVE  IInv'
<1>1. TypeOK'
  BY DEF IInv, TypeOK, Take, Places, At, Goto, appVars, Locked
<1>2. CmdShape' /\ LockHeld' /\ HeldShape'
  <2>1. CmdShape'
    BY DEF IInv, TypeOK, CmdShape, Take, At, Goto
  <2>2. LockHeld'
    BY DEF IInv, TypeOK, LockHeld, Take, At, Goto
  <2>3. HeldShape'
    BY DEF IInv, TypeOK, HeldShape, Take, At, Goto
  <2> QED
    BY <2>1, <2>2, <2>3
<1>3. EmptyMap' /\ Born' /\ DownMeansOver'
  <2>1. EmptyMap'
    BY DEF IInv, TypeOK, EmptyMap, Take, At, Goto
  <2>2. Born'
    BY DEF IInv, TypeOK, Born, Take, At, Goto
  <2>3. DownMeansOver'
    BY DEF IInv, TypeOK, DownMeansOver, Take, At, Goto, appVars, Locked
  <2> QED
    BY <2>1, <2>2, <2>3
<1>4. StopDelivered' /\ NoOrphanCli' /\ OneCli'
  <2>1. StopDelivered'
    BY AbsentAssumption DEF IInv, TypeOK, HeldShape, Born, CmdShape,
       StopDelivered, Take, At, Goto
  <2>2. NoOrphanCli'
    BY AbsentAssumption DEF IInv, TypeOK, HeldShape, Born, CmdShape,
       NoOrphanCli, Take, Locked, Running, At, Goto, appVars
  <2>3. OneCli'
    BY AbsentAssumption DEF IInv, TypeOK, HeldShape, Born, CmdShape, OneCli,
       Take, Locked, Running, At, Goto, appVars
  <2> QED
    BY <2>1, <2>2, <2>3
<1> QED
  BY <1>1, <1>2, <1>3, <1>4 DEF IInv

(* The wait ends: the actor is over, so nobody need answer for it. *)
LEMMA WaitStep ==
  ASSUME NEW o \in Ops, IInv, Wait(o)
  PROVE  IInv'
<1>1. TypeOK'
  BY DEF IInv, TypeOK, Wait, Places, At, Goto, actorVars, appVars, Locked
<1>2. CmdShape' /\ LockHeld' /\ HeldShape'
  BY DEF IInv, TypeOK, CmdShape, LockHeld, HeldShape, Wait, At, Goto
<1>3. EmptyMap' /\ Born' /\ DownMeansOver'
  BY DEF IInv, TypeOK, EmptyMap, Born, DownMeansOver, Wait, Emptied, At, Goto,
     actorVars, appVars, Locked
<1>4. StopDelivered' /\ NoOrphanCli' /\ OneCli'
  BY DEF IInv, TypeOK, StopDelivered, NoOrphanCli, OneCli, Wait, Running, At,
     Goto, actorVars, appVars, Locked
<1> QED
  BY <1>1, <1>2, <1>3, <1>4 DEF IInv

(* The command returns, or goes on with the map still empty. *)
LEMMA AfterStep ==
  ASSUME NEW o \in Ops, IInv, After(o)
  PROVE  IInv'
<1>1. TypeOK'
  <2>1. meta' \in Metas /\ writer' \in {"rightful", "preflight", "idle", "stopRun", "lateActor",
                                        "stale", "failedStart"}
    <3>1. TypeOK
      BY DEF IInv
    <3>2. \/ UpdateStatus("Stopped", "stopRun") \/ UpdateStatus("Stopped", "rightful")
          \/ UNCHANGED <<meta, writer>>
      BY DEF After
    <3> QED
      BY <3>1, <3>2, UpdateStatusTyped DEF Statuses
  <2>2. CASE Return(o)
    BY <2>1, <2>2, ReturnTyped DEF IInv, TypeOK, After, actorVars, appVars
  <2>3. CASE cmd[o] \in {"new", "resume", "approve"} /\ ~Return(o)
    BY <2>1, <2>3 DEF IInv, TypeOK, Places, After, Goto, actorVars, appVars
  <2> QED
    BY <2>2, <2>3 DEF After
<1>2. CmdShape' /\ LockHeld' /\ HeldShape'
  <2>1. CmdShape'
    BY DEF IInv, TypeOK, CmdShape, After, At, Goto, Return, UpdateStatus
  <2>2. LockHeld'
    BY DEF IInv, TypeOK, LockHeld, After, At, Goto, Return, UpdateStatus
  <2>3. HeldShape'
    BY DEF IInv, TypeOK, HeldShape, After, At, Goto, Return, UpdateStatus
  <2> QED
    BY <2>1, <2>2, <2>3
<1>3. EmptyMap' /\ Born' /\ DownMeansOver'
  <2>1. EmptyMap'
    BY DEF IInv, TypeOK, EmptyMap, After, Emptied, At, Goto, Return,
       UpdateStatus, actorVars, appVars, Locked
  <2>2. Born'
    BY DEF IInv, TypeOK, Born, After, At, Goto, Return, UpdateStatus, actorVars,
       appVars, Locked
  <2>3. DownMeansOver'
    BY DEF IInv, TypeOK, DownMeansOver, After, At, Goto, Return, UpdateStatus,
       actorVars, appVars, Locked
  <2> QED
    BY <2>1, <2>2, <2>3
<1>4. StopDelivered' /\ NoOrphanCli' /\ OneCli'
  <2>1. StopDelivered'
    BY DEF IInv, TypeOK, StopDelivered, After, At, Goto, Return, UpdateStatus,
       actorVars, appVars, Locked
  <2>2. NoOrphanCli'
    BY DEF IInv, TypeOK, NoOrphanCli, After, Running, At, Goto, Return,
       UpdateStatus, actorVars, appVars, Locked
  <2>3. OneCli'
    BY DEF IInv, TypeOK, OneCli, After, Running, At, Goto, Return, UpdateStatus,
       actorVars, appVars, Locked
  <2> QED
    BY <2>1, <2>2, <2>3
<1> QED
  BY <1>1, <1>2, <1>3, <1>4 DEF IInv

(* The new actor is in the slot's hands.  Another one that still runs
   is in the hands of a stop_run: the map is empty, and a second command
   with the lock there is not. *)
LEMMA SpawnOkStep ==
  ASSUME NEW o \in Ops, NEW x \in Actors, IInv, SpawnOk(o, x)
  PROVE  IInv'
<1>1. TypeOK'
  BY DEF IInv, TypeOK, SpawnOk, ActorStates, Places, At, Goto, appVars, Locked
<1>2. CmdShape' /\ LockHeld' /\ HeldShape'
  BY DEF IInv, TypeOK, CmdShape, LockHeld, HeldShape, SpawnOk, At, Goto
<1>3. EmptyMap' /\ Born' /\ DownMeansOver'
  BY DEF IInv, TypeOK, EmptyMap, Born, DownMeansOver, SpawnOk, Emptied, At,
     Goto, appVars, Locked
<1>4. StopDelivered' /\ NoOrphanCli'
  BY DEF IInv, TypeOK, HeldShape, StopDelivered, NoOrphanCli, Running, SpawnOk,
     At, Goto, appVars
<1>5. OneCli'
  <2> SUFFICES ASSUME NEW a \in Actors, NEW b \in Actors, a # b,
                      Running(a)', Running(b)'
               PROVE  \/ \E w \in Ops : cmd'[w] = "stopRun" /\ pc'[w] = "wait"
                                        /\ held'[w] \in {a, b}
                      \/ exiting'
    BY DEF OneCli
  <2>1. ASSUME NEW y \in Actors, y # x, Running(y)'
        PROVE  \/ \E w \in Ops : cmd'[w] = "stopRun" /\ pc'[w] = "wait" /\ held'[w] = y
               \/ exiting'
    <3>1. Running(y)
      BY <2>1 DEF IInv, TypeOK, SpawnOk, Running
    <3>2. Emptied(o) /\ pc[o] \notin {"wait", "insert"}
      BY DEF IInv, CmdShape, SpawnOk, At, Emptied, Locked
    <3> QED
      BY <3>1, <3>2, OthersAwaited DEF IInv, TypeOK, SpawnOk, Goto, appVars
  <2> QED
    BY <2>1
<1> QED
  BY <1>1, <1>2, <1>3, <1>4, <1>5 DEF IInv

(* The command returns; it had no handle. *)
LEMMA SpawnFailsStep ==
  ASSUME NEW o \in Ops, IInv, SpawnFails(o)
  PROVE  IInv'
<1>1. TypeOK'
  BY DEF IInv, TypeOK, SpawnFails, Metas, Places, At, Return, actorVars,
     appVars, Locked, Statuses, Created, Goto, Active
<1>2. CmdShape' /\ LockHeld' /\ HeldShape'
  BY DEF IInv, TypeOK, CmdShape, LockHeld, HeldShape, SpawnFails, At, Return,
     Goto
<1>3. EmptyMap' /\ Born' /\ DownMeansOver'
  BY DEF IInv, TypeOK, EmptyMap, Born, DownMeansOver, SpawnFails, Emptied, At,
     Return, actorVars, appVars, Locked, Goto
<1>4. StopDelivered' /\ NoOrphanCli' /\ OneCli'
  BY DEF IInv, TypeOK, StopDelivered, NoOrphanCli, OneCli, SpawnFails, Running,
     At, Return, actorVars, appVars, Locked, Goto
<1> QED
  BY <1>1, <1>2, <1>3, <1>4 DEF IInv

(* The map was empty, so no actor is pushed out of it. *)
LEMMA InsertStep ==
  ASSUME NEW o \in Ops, IInv, Insert(o)
  PROVE  IInv'
<1>1. TypeOK'
  BY DEF IInv, TypeOK, Insert, Places, At, Goto, actorVars, appVars, Locked
<1>2. CmdShape' /\ LockHeld' /\ HeldShape'
  BY DEF IInv, TypeOK, CmdShape, LockHeld, HeldShape, Insert, At, Goto
<1>3. EmptyMap' /\ Born' /\ DownMeansOver'
  BY AbsentAssumption DEF IInv, TypeOK, CmdShape, LockHeld, HeldShape, EmptyMap,
     Born, DownMeansOver, Insert, Locked, Emptied, At, Goto, actorVars, appVars
<1>4. StopDelivered' /\ NoOrphanCli' /\ OneCli'
  BY AbsentAssumption DEF IInv, TypeOK, CmdShape, LockHeld, HeldShape, EmptyMap,
     StopDelivered, NoOrphanCli, OneCli, Insert, Locked, Emptied, Running, At,
     Goto, actorVars, appVars
<1> QED
  BY <1>1, <1>2, <1>3, <1>4 DEF IInv

(* The first message is answered and the command returns. *)
LEMMA SendFirstStep ==
  ASSUME NEW o \in Ops, IInv, SendFirst(o)
  PROVE  IInv'
<1>1. TypeOK'
  BY DEF IInv, TypeOK, SendFirst, Metas, Places, Addressee, At, Return,
     actorVars, appVars, Locked, Statuses, Created, Goto, Active
<1>2. CmdShape' /\ LockHeld' /\ HeldShape'
  BY DEF IInv, TypeOK, CmdShape, LockHeld, HeldShape, SendFirst, Addressee, At,
     Return, Goto
<1>3. EmptyMap' /\ Born' /\ DownMeansOver'
  BY DEF IInv, TypeOK, EmptyMap, Born, DownMeansOver, SendFirst, Emptied,
     Addressee, At, Return, actorVars, appVars, Locked, Goto
<1>4. StopDelivered' /\ NoOrphanCli' /\ OneCli'
  BY DEF IInv, TypeOK, StopDelivered, NoOrphanCli, OneCli, SendFirst, Running,
     Addressee, At, Return, actorVars, appVars, Locked, Goto
<1> QED
  BY <1>1, <1>2, <1>3, <1>4 DEF IInv

(* A resume without a message writes Idle and returns. *)
LEMMA SyntheticIdleStep ==
  ASSUME NEW o \in Ops, IInv, SyntheticIdle(o)
  PROVE  IInv'
<1>1. TypeOK'
  BY DEF IInv, TypeOK, SyntheticIdle, Metas, Places, At, Return, UpdateStatus,
     actorVars, appVars, Locked, Statuses, Created, Goto, Active
<1>2. CmdShape' /\ LockHeld' /\ HeldShape'
  BY DEF IInv, TypeOK, CmdShape, LockHeld, HeldShape, SyntheticIdle, At, Return,
     UpdateStatus, Goto
<1>3. EmptyMap' /\ Born' /\ DownMeansOver'
  BY DEF IInv, TypeOK, EmptyMap, Born, DownMeansOver, SyntheticIdle, Emptied,
     At, Return, UpdateStatus, actorVars, appVars, Locked, Goto
<1>4. StopDelivered' /\ NoOrphanCli' /\ OneCli'
  BY DEF IInv, TypeOK, StopDelivered, NoOrphanCli, OneCli, SyntheticIdle,
     Running, At, Return, UpdateStatus, actorVars, appVars, Locked, Goto
<1> QED
  BY <1>1, <1>2, <1>3, <1>4 DEF IInv

(* delete and archive read meta.json. *)
LEMMA ReadCopyStep ==
  ASSUME NEW o \in Ops, IInv, ReadCopy(o)
  PROVE  IInv'
<1>1. TypeOK'
  <2>1. CASE Return(o)
    BY <2>1, ReturnTyped DEF IInv, TypeOK, ReadCopy, actorVars, appVars
  <2>2. CASE ~Return(o)
    BY <2>2 DEF IInv, TypeOK, Places, ReadCopy, Goto, actorVars, appVars
  <2> QED
    BY <2>1, <2>2
<1>2. CmdShape' /\ LockHeld' /\ HeldShape'
  <2>1. CmdShape'
    BY DEF IInv, TypeOK, CmdShape, ReadCopy, At, Goto, Return
  <2>2. LockHeld'
    BY DEF IInv, TypeOK, LockHeld, ReadCopy, At, Goto, Return
  <2>3. HeldShape'
    BY DEF IInv, TypeOK, HeldShape, ReadCopy, At, Goto, Return
  <2> QED
    BY <2>1, <2>2, <2>3
<1>3. EmptyMap' /\ Born' /\ DownMeansOver'
  <2>1. EmptyMap'
    BY DEF IInv, TypeOK, EmptyMap, ReadCopy, Emptied, At, Goto, Return,
       actorVars, appVars, Locked
  <2>2. Born'
    BY DEF IInv, TypeOK, Born, ReadCopy, At, Goto, Return, actorVars, appVars,
       Locked
  <2>3. DownMeansOver'
    BY DEF IInv, TypeOK, DownMeansOver, ReadCopy, At, Goto, Return, actorVars,
       appVars, Locked
  <2> QED
    BY <2>1, <2>2, <2>3
<1>4. StopDelivered' /\ NoOrphanCli' /\ OneCli'
  <2>1. StopDelivered'
    BY DEF IInv, TypeOK, StopDelivered, ReadCopy, At, Goto, Return, actorVars,
       appVars, Locked
  <2>2. NoOrphanCli'
    BY DEF IInv, TypeOK, NoOrphanCli, ReadCopy, Running, At, Goto, Return,
       actorVars, appVars, Locked
  <2>3. OneCli'
    BY DEF IInv, TypeOK, OneCli, ReadCopy, Running, At, Goto, Return, actorVars,
       appVars, Locked
  <2> QED
    BY <2>1, <2>2, <2>3
<1> QED
  BY <1>1, <1>2, <1>3, <1>4 DEF IInv

(* They write their copy. *)
LEMMA WriteCopyStep ==
  ASSUME NEW o \in Ops, IInv, WriteCopy(o)
  PROVE  IInv'
<1>1. TypeOK'
  BY DEF IInv, TypeOK, WriteCopy, Metas, Places, At, Return, SaveCopy,
     actorVars, appVars, Locked, Statuses, Created, Goto, Active
<1>2. CmdShape' /\ LockHeld' /\ HeldShape'
  BY DEF IInv, TypeOK, CmdShape, LockHeld, HeldShape, WriteCopy, At, Return,
     SaveCopy, Goto
<1>3. EmptyMap' /\ Born' /\ DownMeansOver'
  BY DEF IInv, TypeOK, EmptyMap, Born, DownMeansOver, WriteCopy, Emptied, At,
     Return, SaveCopy, actorVars, appVars, Locked, Goto
<1>4. StopDelivered' /\ NoOrphanCli' /\ OneCli'
  BY DEF IInv, TypeOK, StopDelivered, NoOrphanCli, OneCli, WriteCopy, Running,
     At, Return, SaveCopy, actorVars, appVars, Locked, Goto
<1> QED
  BY <1>1, <1>2, <1>3, <1>4 DEF IInv

(* The actor has read the status. *)
LEMMA TurnEdgeStep ==
  ASSUME NEW x \in Actors, up, IInv, TurnEdge(x)
  PROVE  IInv'
<1>1. TypeOK'
  BY DEF IInv, TypeOK, TurnEdge, ActorStates, appVars, opVars, Locked
<1>2. CmdShape' /\ LockHeld' /\ HeldShape'
  <2>1. CmdShape'
    BY DEF IInv, TypeOK, CmdShape, TurnEdge, Locked, appVars, opVars
  <2>2. LockHeld'
    BY DEF IInv, TypeOK, LockHeld, TurnEdge, Locked, appVars, opVars
  <2>3. HeldShape'
    BY DEF IInv, TypeOK, HeldShape, TurnEdge, appVars, opVars, Locked
  <2> QED
    BY <2>1, <2>2, <2>3
<1>3. EmptyMap' /\ Born' /\ DownMeansOver'
  <2>1. EmptyMap'
    BY DEF IInv, TypeOK, EmptyMap, TurnEdge, Emptied, appVars, opVars, Locked
  <2>2. Born'
    BY DEF IInv, TypeOK, Born, TurnEdge, appVars, opVars, Locked
  <2>3. DownMeansOver'
    BY DEF IInv, TypeOK, DownMeansOver, TurnEdge, appVars, opVars, Locked
  <2> QED
    BY <2>1, <2>2, <2>3
<1>4. StopDelivered' /\ NoOrphanCli' /\ OneCli'
  <2>1. StopDelivered'
    BY DEF IInv, TypeOK, HeldShape, StopDelivered, TurnEdge, appVars, opVars,
       Locked
  <2>2. NoOrphanCli'
    BY DEF IInv, TypeOK, HeldShape, NoOrphanCli, TurnEdge, Running, appVars,
       opVars, Locked
  <2>3. OneCli'
    BY DEF IInv, TypeOK, HeldShape, OneCli, TurnEdge, Running, appVars, opVars,
       Locked
  <2> QED
    BY <2>1, <2>2, <2>3
<1> QED
  BY <1>1, <1>2, <1>3, <1>4 DEF IInv

(* The actor writes the edge of a turn. *)
LEMMA PersistTurnEdgeStep ==
  ASSUME NEW x \in Actors, up, IInv, PersistTurnEdge(x)
  PROVE  IInv'
<1>1. TypeOK'
  BY DEF IInv, TypeOK, PersistTurnEdge, ActorStates, Metas, Signature,
     UpdateStatus, appVars, opVars, Locked, Statuses, Active
<1>2. CmdShape' /\ LockHeld' /\ HeldShape'
  BY DEF IInv, TypeOK, CmdShape, LockHeld, HeldShape, PersistTurnEdge, Locked,
     Signature, UpdateStatus, appVars, opVars
<1>3. EmptyMap' /\ Born' /\ DownMeansOver'
  BY DEF IInv, TypeOK, EmptyMap, Born, DownMeansOver, PersistTurnEdge, Emptied,
     Signature, UpdateStatus, appVars, opVars, Locked
<1>4. StopDelivered' /\ NoOrphanCli' /\ OneCli'
  BY DEF IInv, TypeOK, StopDelivered, NoOrphanCli, OneCli, PersistTurnEdge,
     Running, Signature, UpdateStatus, appVars, opVars, Locked
<1> QED
  BY <1>1, <1>2, <1>3, <1>4 DEF IInv

(* The CLI ends; its actor is on its way out. *)
LEMMA EofStep ==
  ASSUME NEW x \in Actors, up, IInv, Eof(x)
  PROVE  IInv'
<1>1. TypeOK'
  BY DEF IInv, TypeOK, Eof, ActorStates, Metas, Signature, UpdateStatus,
     appVars, opVars, Locked, Statuses
<1>2. CmdShape' /\ LockHeld' /\ HeldShape'
  BY DEF IInv, TypeOK, CmdShape, LockHeld, HeldShape, Eof, Locked, Signature,
     UpdateStatus, appVars, opVars
<1>3. EmptyMap' /\ Born' /\ DownMeansOver'
  BY DEF IInv, TypeOK, EmptyMap, Born, DownMeansOver, Eof, Emptied, Signature,
     UpdateStatus, appVars, opVars, Locked
<1>4. StopDelivered' /\ NoOrphanCli' /\ OneCli'
  BY DEF IInv, TypeOK, StopDelivered, NoOrphanCli, OneCli, Eof, Running,
     Signature, UpdateStatus, appVars, opVars, Locked
<1> QED
  BY <1>1, <1>2, <1>3, <1>4 DEF IInv

(* Only an actor with a Stop, or at exit, winds down. *)
LEMMA HandleStopStep ==
  ASSUME NEW x \in Actors, up, IInv, HandleStop(x)
  PROVE  IInv'
<1>1. TypeOK'
  BY DEF IInv, TypeOK, HandleStop, ActorStates, appVars, opVars, Locked
<1>2. CmdShape' /\ LockHeld' /\ HeldShape'
  BY DEF IInv, TypeOK, CmdShape, LockHeld, HeldShape, HandleStop, Locked,
     appVars, opVars
<1>3. EmptyMap' /\ Born' /\ DownMeansOver'
  BY DEF IInv, TypeOK, EmptyMap, Born, DownMeansOver, HandleStop, Emptied,
     appVars, opVars, Locked
<1>4. StopDelivered' /\ NoOrphanCli' /\ OneCli'
  BY DEF IInv, TypeOK, StopDelivered, NoOrphanCli, OneCli, HandleStop, Running,
     appVars, opVars, Locked
<1> QED
  BY <1>1, <1>2, <1>3, <1>4 DEF IInv

(* The CLI is reaped. *)
LEMMA ReapedStep ==
  ASSUME NEW x \in Actors, up, IInv, Reaped(x)
  PROVE  IInv'
<1>1. TypeOK'
  BY DEF IInv, TypeOK, Reaped, ActorStates, appVars, opVars, Locked
<1>2. CmdShape' /\ LockHeld' /\ HeldShape'
  BY DEF IInv, TypeOK, CmdShape, LockHeld, HeldShape, Reaped, Locked, appVars,
     opVars
<1>3. EmptyMap' /\ Born' /\ DownMeansOver'
  BY DEF IInv, TypeOK, EmptyMap, Born, DownMeansOver, Reaped, Emptied, appVars,
     opVars, Locked
<1>4. StopDelivered' /\ NoOrphanCli' /\ OneCli'
  BY DEF IInv, TypeOK, StopDelivered, NoOrphanCli, OneCli, Reaped, Running,
     appVars, opVars, Locked
<1> QED
  BY <1>1, <1>2, <1>3, <1>4 DEF IInv

(* An actor that is over leaves the map only if the entry is its own. *)
LEMMA CleanupStep ==
  ASSUME NEW x \in Actors, up, IInv, Cleanup(x)
  PROVE  IInv'
<1>1. TypeOK'
  BY DEF IInv, TypeOK, Cleanup, ActorStates, appVars, opVars, Locked
<1>2. CmdShape' /\ LockHeld' /\ HeldShape'
  BY DEF IInv, TypeOK, CmdShape, LockHeld, HeldShape, Cleanup, Locked, appVars,
     opVars
<1>3. EmptyMap' /\ Born' /\ DownMeansOver'
  BY DEF IInv, TypeOK, EmptyMap, Born, DownMeansOver, Cleanup, Emptied, appVars,
     opVars, Locked
<1>4. StopDelivered' /\ NoOrphanCli' /\ OneCli'
  BY DEF IInv, TypeOK, StopDelivered, NoOrphanCli, OneCli, Cleanup, Running,
     appVars, opVars, Locked
<1> QED
  BY <1>1, <1>2, <1>3, <1>4 DEF IInv

(* The token fires. *)
LEMMA QuitStep ==
  ASSUME IInv, Quit
  PROVE  IInv'
<1>1. TypeOK'
  BY DEF IInv, TypeOK, Quit, actorVars, opVars, Locked
<1>2. CmdShape' /\ LockHeld' /\ HeldShape'
  BY DEF IInv, TypeOK, CmdShape, LockHeld, HeldShape, Quit, Locked, actorVars,
     opVars
<1>3. EmptyMap' /\ Born' /\ DownMeansOver'
  BY DEF IInv, TypeOK, EmptyMap, Born, DownMeansOver, Quit, Emptied, actorVars,
     opVars, Locked
<1>4. StopDelivered' /\ NoOrphanCli' /\ OneCli'
  BY DEF IInv, TypeOK, StopDelivered, NoOrphanCli, OneCli, Quit, Running,
     actorVars, opVars, Locked
<1> QED
  BY <1>1, <1>2, <1>3, <1>4 DEF IInv

(* What is taken out of the map at exit gets its Stop. *)
LEMMA DrainStep ==
  ASSUME IInv, Drain
  PROVE  IInv'
<1>1. TypeOK'
  BY DEF IInv, TypeOK, Drain, appVars, opVars, Locked
<1>2. CmdShape' /\ LockHeld' /\ HeldShape'
  BY DEF IInv, TypeOK, CmdShape, LockHeld, HeldShape, Drain, Locked, appVars,
     opVars
<1>3. EmptyMap' /\ Born' /\ DownMeansOver'
  BY DEF IInv, TypeOK, EmptyMap, Born, DownMeansOver, Drain, Emptied, appVars,
     opVars, Locked
<1>4. StopDelivered' /\ NoOrphanCli' /\ OneCli'
  BY AbsentAssumption DEF IInv, TypeOK, HeldShape, StopDelivered, NoOrphanCli,
     OneCli, Drain, Running, appVars, opVars, Locked
<1> QED
  BY <1>1, <1>2, <1>3, <1>4 DEF IInv

(* Memory is lost, and every actor with it. *)
LEMMA DieStep ==
  ASSUME IInv, Die
  PROVE  IInv'
<1>1. TypeOK'
  <2>1. Created \in Metas
    BY DEF Created, Metas, Statuses, Active
  <2>2. actor' \in [Actors -> ActorStates] /\ stopSent' \in [Actors -> BOOLEAN]
    BY DEF IInv, TypeOK, Die, ActorStates
  <2>3. cmd' \in [Ops -> Commands \cup {"none"}] /\ pc' \in [Ops -> Places]
    BY DEF Die, Places
  <2>4. held' \in [Ops -> Actors \cup {NoActor}] /\ seen' \in [Ops -> Metas]
    BY <2>1 DEF Die
  <2>5. restarts' \in Nat
    <3>1. restarts \in Nat /\ restarts' = restarts + 1
      BY DEF IInv, TypeOK, Die
    <3> QED
      BY <3>1
  <2>6. up' \in BOOLEAN
    BY DEF Die
  <2>7. /\ meta' \in Metas /\ writer' = writer
        /\ lock' = NoOp /\ registered' = NoActor
        /\ exiting' \in BOOLEAN
    BY DEF IInv, TypeOK, Die
  <2> QED
    BY <2>2, <2>3, <2>4, <2>5, <2>6, <2>7 DEF IInv, TypeOK
<1>2. CmdShape' /\ LockHeld' /\ HeldShape'
  <2>1. CmdShape'
    BY DEF IInv, TypeOK, CmdShape, Die
  <2>2. LockHeld'
    BY DEF IInv, TypeOK, LockHeld, Die
  <2>3. HeldShape'
    BY DEF IInv, TypeOK, HeldShape, Die
  <2> QED
    BY <2>1, <2>2, <2>3
<1>3. EmptyMap' /\ Born' /\ DownMeansOver'
  <2>1. EmptyMap'
    BY DEF IInv, TypeOK, EmptyMap, Die
  <2>2. Born'
    BY DEF IInv, TypeOK, Born, Die
  <2>3. DownMeansOver'
    BY DEF IInv, TypeOK, DownMeansOver, Die
  <2> QED
    BY <2>1, <2>2, <2>3
<1>4. StopDelivered' /\ NoOrphanCli' /\ OneCli'
  <2>1. StopDelivered'
    BY DEF IInv, TypeOK, StopDelivered, Die
  <2>2. NoOrphanCli'
    BY DEF IInv, TypeOK, NoOrphanCli, Die, Running, Locked
  <2>3. OneCli'
    BY DEF IInv, TypeOK, OneCli, Die, Running, Locked
  <2> QED
    BY <2>1, <2>2, <2>3
<1> QED
  BY <1>1, <1>2, <1>3, <1>4 DEF IInv

(* No actor is left from before. *)
LEMMA RestartStep ==
  ASSUME IInv, Restart
  PROVE  IInv'
<1>1. TypeOK'
  BY DEF IInv, TypeOK, Restart, Metas, actorVars, opVars, Locked, Statuses
<1>2. CmdShape' /\ LockHeld' /\ HeldShape'
  BY DEF IInv, TypeOK, CmdShape, LockHeld, HeldShape, Restart, Locked,
     actorVars, opVars
<1>3. EmptyMap' /\ Born' /\ DownMeansOver'
  BY DEF IInv, TypeOK, EmptyMap, Born, DownMeansOver, Restart, Emptied,
     actorVars, opVars, Locked
<1>4. StopDelivered' /\ NoOrphanCli' /\ OneCli'
  BY DEF IInv, TypeOK, DownMeansOver, StopDelivered, NoOrphanCli, OneCli,
     Restart, Running, actorVars, opVars, Locked
<1> QED
  BY <1>1, <1>2, <1>3, <1>4 DEF IInv

-----------------------------------------------------------------------------
(* The invariant *)

(* It holds when start_run has written meta.json. *)
LEMMA InitIInv == Init => IInv
<1> SUFFICES ASSUME Init
             PROVE  IInv
  OBVIOUS
<1>1. Created \in Metas
  BY DEF Created, Metas, Statuses, Active
<1>2. TypeOK
  BY <1>1 DEF Init, TypeOK, ActorStates, Places
<1>3. CmdShape /\ LockHeld /\ HeldShape
  BY DEF Init, CmdShape, LockHeld, HeldShape
<1>4. EmptyMap /\ Born /\ DownMeansOver
  BY DEF Init, EmptyMap, Born, DownMeansOver
<1>5. StopDelivered /\ NoOrphanCli /\ OneCli
  BY DEF Init, StopDelivered, NoOrphanCli, OneCli, Running
<1> QED
  BY <1>2, <1>3, <1>4, <1>5 DEF IInv

(* Every step of a command, of an actor or of the application keeps it. *)
LEMMA NextIInv == IInv /\ [Next]_vars => IInv'
<1> SUFFICES ASSUME IInv, [Next]_vars
             PROVE  IInv'
  OBVIOUS
<1>1. ASSUME NEW o \in Ops, Command(o)
      PROVE  IInv'
  BY <1>1, CallUnlockedStep, CallLockedStep, PreflightOkStep,
     PreflightFailsStep, MarkStep, TakeStep, WaitStep, AfterStep, SpawnOkStep,
     SpawnFailsStep, InsertStep, SendFirstStep, SyntheticIdleStep, ReadCopyStep,
     WriteCopyStep DEF Command
<1>2. ASSUME NEW a \in Actors, up, Task(a)
      PROVE  IInv'
  BY <1>2, TurnEdgeStep, PersistTurnEdgeStep, EofStep, HandleStopStep,
     ReapedStep, CleanupStep DEF Task
<1>3. CASE UNCHANGED vars
  BY <1>3 DEF vars, opVars, actorVars, appVars, IInv, TypeOK, CmdShape,
     LockHeld, HeldShape, EmptyMap, Emptied, Born, DownMeansOver, StopDelivered,
     NoOrphanCli, OneCli, Running
<1> QED
  BY <1>1, <1>2, <1>3, QuitStep, DrainStep, DieStep, RestartStep DEF Next

(* The strengthened invariant of the run's life. *)
THEOREM LifecycleInvariant == Spec => []IInv
<1>1. Init => IInv
  BY InitIInv
<1>2. IInv /\ [Next]_vars => IInv'
  BY NextIInv
<1> QED
  BY <1>1, <1>2, PTL DEF Spec

(* The variables have their types. *)
THEOREM TypeCorrect == Spec => []TypeOK
<1>1. IInv => TypeOK
  BY DEF IInv
<1> QED
  BY <1>1, LifecycleInvariant, PTL

(* A command that waits for an actor's end waits for one that has its Stop *)
(* in the mailbox or is on its way out: stop_actor's wait is not in vain.  *)
THEOREM StopNotInVain == Spec => []StopDelivered
<1>1. IInv => StopDelivered
  BY DEF IInv
<1> QED
  BY <1>1, LifecycleInvariant, PTL

(* No CLI process is out of sight of the map, of the command that spawned  *)
(* or stops it, and of the exit that sent it Stop.                          *)
THEOREM NobodyForgotten == Spec => []NoOrphanCli
<1>1. IInv => NoOrphanCli
  BY DEF IInv
<1> QED
  BY <1>1, LifecycleInvariant, PTL

(* Two CLI processes on one conversation happen only while a stop_run, the *)
(* command that stops without the lock, waits for one of them, or at exit. *)
THEOREM OneConversation == Spec => []OneCli
<1>1. IInv => OneCli
  BY DEF IInv
<1> QED
  BY <1>1, LifecycleInvariant, PTL

(* Both: somebody answers for every CLI, and it has its conversation to      *)
(* itself, for any number of commands and actors (SpawnLocks, SessionMap).   *)
THEOREM EveryCliAccounted == Spec => []CliAccounted
<1>1. NoOrphanCli /\ OneCli => CliAccounted
  BY DEF CliAccounted
<1> QED
  BY <1>1, NobodyForgotten, OneConversation, PTL

-----------------------------------------------------------------------------
(* StatusHonest: the list of exceptions it makes is complete.  The status of *)
(* a run is a claim; every writer but the listed ones leaves a claim that    *)
(* somebody stands for, a live actor or a command about to change it.       *)

Claimed == meta.status \in {"Running", "Idle"}

(* What the writers that only write one status have written. *)
WriterShape ==
  /\ writer = "preflight" => meta.status = "Ended"
  /\ writer = "stopRun" => meta.status = "Stopped"

(* The wait for an actor has outlasted its CLI. *)
AfterOver ==
  \A o \in Ops : pc[o] = "after" /\ held[o] # NoActor =>
    actor[held[o]] \in {"stopped", "gone"}

(* An actor is stopped for a command that waits, or for the exit. *)
StopAwaited ==
  /\ \A a \in Actors : stopSent[a] => actor[a] # "unborn"
  /\ \A a \in Actors : Running(a) /\ (stopSent[a] \/ actor[a] = "winding") =>
       exiting \/ \E o \in Ops : pc[o] = "wait" /\ held[o] = a

(* A command that is about to start an actor has written Running. *)
Starting(o) ==
  \/ cmd[o] \in {"new", "resume"} /\ pc[o] \in {"take", "wait", "after", "spawn", "insert"}
  \/ cmd[o] = "approve" /\ pc[o] \in {"spawn", "insert"}

(* An actor may run under a status that denies it. *)
Denier == {"lateActor", "stopRun", "stale", "preflight"}

StartMarked ==
  \A o \in Ops : Starting(o) /\ ~meta.deleted /\ ~Claimed => writer \in Denier

(* A status that denies a session, rightly written, leaves only actors     *)
(* whose end a command waits for.                                           *)
DenialExplained ==
  ~meta.deleted /\ ~Claimed /\ writer \notin Denier =>
    \A a \in Actors : actor[a] \in {"loop", "toIdle", "toRunning"} =>
      exiting \/ \E o \in Ops : pc[o] = "wait" /\ held[o] = a

(* A status that claims a session, rightly written, has a CLI, or a        *)
(* command that will start one or write another status.                     *)
WillSettle(o) ==
  \/ pc[o] \in {"wait", "spawn"}
  \/ pc[o] = "after" /\ (cmd[o] \notin {"stop", "fork"} \/ held[o] # NoActor)
  \/ pc[o] = "mark" /\ cmd[o] = "approve"
  \/ pc[o] = "take" /\ cmd[o] \in {"new", "resume"}

ClaimExplained ==
  up /\ ~exiting /\ ~meta.deleted /\ Claimed /\ writer \notin {"failedStart", "lateActor", "stale", "idle"} =>
    \/ \E a \in Actors : Running(a)
    \/ \E o \in Ops : WillSettle(o)

HInv ==
  /\ WriterShape
  /\ AfterOver
  /\ StopAwaited
  /\ StartMarked
  /\ DenialExplained
  /\ ClaimExplained

-----------------------------------------------------------------------------
(* One lemma per action *)

(* Nothing is written. *)
LEMMA CallUnlockedHonest ==
  ASSUME NEW o \in Ops, NEW c \in Commands, IInv, HInv, CallUnlocked(o, c)
  PROVE  HInv'
<1>1. WriterShape' /\ AfterOver' /\ StopAwaited'
  BY DEF IInv, HInv, TypeOK, WriterShape, AfterOver, StopAwaited, CallUnlocked,
     Running, At, Goto, Locked, actorVars, appVars
<1>2. StartMarked'
  BY DEF IInv, HInv, TypeOK, StartMarked, CallUnlocked, Claimed, Denier,
     Starting, At, Goto, Locked, actorVars, appVars
<1>3. DenialExplained'
  BY DEF IInv, HInv, TypeOK, DenialExplained, CallUnlocked, Claimed, Denier, At,
     Goto, Locked, actorVars, appVars
<1>4. ClaimExplained'
  BY DEF IInv, HInv, TypeOK, ClaimExplained, CallUnlocked, Claimed, Running,
     WillSettle, At, Goto, Locked, actorVars, appVars
<1> QED
  BY <1>1, <1>2, <1>3, <1>4 DEF HInv

(* Nothing is written. *)
LEMMA CallLockedHonest ==
  ASSUME NEW o \in Ops, NEW c \in Commands, IInv, HInv, CallLocked(o, c)
  PROVE  HInv'
<1>1. WriterShape' /\ AfterOver' /\ StopAwaited'
  BY DEF IInv, HInv, TypeOK, WriterShape, AfterOver, StopAwaited, CallLocked,
     Running, At, Goto, Locked, actorVars, appVars
<1>2. StartMarked'
  BY DEF IInv, HInv, TypeOK, StartMarked, CallLocked, Claimed, Denier, Starting,
     At, Goto, Locked, actorVars, appVars
<1>3. DenialExplained'
  BY DEF IInv, HInv, TypeOK, DenialExplained, CallLocked, Claimed, Denier, At,
     Goto, Locked, actorVars, appVars
<1>4. ClaimExplained'
  BY DEF IInv, HInv, TypeOK, ClaimExplained, CallLocked, Claimed, Running,
     WillSettle, At, Goto, Locked, actorVars, appVars
<1> QED
  BY <1>1, <1>2, <1>3, <1>4 DEF HInv

(* Nothing is written, and approve has not emptied the map yet. *)
LEMMA PreflightOkHonest ==
  ASSUME NEW o \in Ops, IInv, HInv, PreflightOk(o)
  PROVE  HInv'
<1>1. WriterShape' /\ AfterOver' /\ StopAwaited'
  BY DEF IInv, HInv, TypeOK, WriterShape, AfterOver, StopAwaited, PreflightOk,
     Running, At, Goto, actorVars, appVars, Locked
<1>2. StartMarked'
  BY DEF IInv, HInv, TypeOK, StartMarked, PreflightOk, Claimed, Denier,
     Starting, At, Goto, actorVars, appVars, Locked
<1>3. DenialExplained'
  BY DEF IInv, HInv, TypeOK, DenialExplained, PreflightOk, Claimed, Denier, At,
     Goto, actorVars, appVars, Locked
<1>4. ClaimExplained'
  BY DEF IInv, HInv, TypeOK, ClaimExplained, PreflightOk, Claimed, Running,
     WillSettle, At, Goto, actorVars, appVars, Locked
<1> QED
  BY <1>1, <1>2, <1>3, <1>4 DEF HInv

(* A failed preflight is one of the listed writers. *)
LEMMA PreflightFailsHonest ==
  ASSUME NEW o \in Ops, IInv, HInv, PreflightFails(o)
  PROVE  HInv'
<1>1. WriterShape' /\ AfterOver' /\ StopAwaited'
  BY DEF IInv, HInv, TypeOK, WriterShape, AfterOver, StopAwaited,
     PreflightFails, Metas, Running, At, Return, UpdateStatus, actorVars,
     appVars, Locked, Goto
<1>2. StartMarked'
  BY DEF IInv, HInv, TypeOK, StartMarked, PreflightFails, Claimed, Denier,
     Starting, At, Return, UpdateStatus, actorVars, appVars, Locked, Goto
<1>3. DenialExplained'
  BY DEF IInv, HInv, TypeOK, DenialExplained, PreflightFails, Claimed, Denier,
     At, Return, UpdateStatus, actorVars, appVars, Locked, Goto
<1>4. ClaimExplained'
  BY DEF IInv, HInv, TypeOK, ClaimExplained, PreflightFails, Metas, Claimed,
     Running, WillSettle, At, Return, UpdateStatus, actorVars, appVars, Locked,
     Goto
<1> QED
  BY <1>1, <1>2, <1>3, <1>4 DEF HInv

(* Running is written for an actor that will be spawned. *)
LEMMA MarkHonest ==
  ASSUME NEW o \in Ops, IInv, HInv, Mark(o)
  PROVE  HInv'
<1>1. WriterShape' /\ AfterOver' /\ StopAwaited'
  BY DEF IInv, HInv, TypeOK, WriterShape, AfterOver, StopAwaited, Mark, Running,
     At, Goto, UpdateStatus, actorVars, appVars, Locked
<1>2. StartMarked'
  BY DEF IInv, HInv, TypeOK, StartMarked, Mark, Metas, Claimed, Denier,
     Starting, At, Goto, UpdateStatus, actorVars, appVars, Locked
<1>3. DenialExplained'
  BY DEF IInv, HInv, TypeOK, DenialExplained, Mark, Metas, Claimed, Denier, At,
     Goto, UpdateStatus, actorVars, appVars, Locked
<1>4. ClaimExplained'
  BY DEF IInv, HInv, TypeOK, CmdShape, ClaimExplained, Mark, WillSettle, At,
     Goto, UpdateStatus
<1> QED
  BY <1>1, <1>2, <1>3, <1>4 DEF HInv

(* The actor's end is waited for from now on. *)
LEMMA TakeHonest ==
  ASSUME NEW o \in Ops, IInv, HInv, Take(o)
  PROVE  HInv'
<1>1. WriterShape' /\ AfterOver' /\ StopAwaited'
  BY AbsentAssumption DEF IInv, HInv, TypeOK, Born, HeldShape, WriterShape,
     AfterOver, StopAwaited, Take, Running, At, Goto, appVars, Locked
<1>2. StartMarked'
  BY DEF IInv, HInv, TypeOK, StartMarked, Take, Claimed, Denier, Starting, At,
     Goto, appVars, Locked
<1>3. DenialExplained'
  BY DEF IInv, HInv, TypeOK, DenialExplained, Take, Claimed, Denier, At, Goto,
     appVars, Locked
<1>4. ClaimExplained'
  BY DEF IInv, HInv, TypeOK, ClaimExplained, Take, Claimed, Running, WillSettle,
     At, Goto, appVars, Locked
<1> QED
  BY <1>1, <1>2, <1>3, <1>4 DEF HInv

(* The actor is over; the status is the command's to write. *)
LEMMA WaitHonest ==
  ASSUME NEW o \in Ops, IInv, HInv, Wait(o)
  PROVE  HInv'
<1>1. WriterShape' /\ AfterOver' /\ StopAwaited'
  BY DEF IInv, HInv, TypeOK, WriterShape, AfterOver, StopAwaited, Wait, Running,
     At, Goto, actorVars, appVars, Locked
<1>2. StartMarked'
  BY DEF IInv, HInv, TypeOK, StartMarked, Wait, Claimed, Denier, Starting, At,
     Goto, actorVars, appVars, Locked
<1>3. DenialExplained'
  BY DEF IInv, HInv, TypeOK, DenialExplained, Wait, Claimed, Denier, At, Goto,
     actorVars, appVars, Locked
<1>4. ClaimExplained'
  BY AbsentAssumption DEF IInv, HInv, TypeOK, HeldShape, ClaimExplained, Wait,
     WillSettle, At, Goto
<1> QED
  BY <1>1, <1>2, <1>3, <1>4 DEF HInv

(* stop and fork write Stopped when the map is empty and the actor they
   took is over; stop_run is one of the listed writers. *)
LEMMA AfterHonest ==
  ASSUME NEW o \in Ops, IInv, HInv, After(o)
  PROVE  HInv'
<1>1. WriterShape'
  BY DEF IInv, HInv, TypeOK, WriterShape, After, Metas, At, Goto, Return,
     UpdateStatus, actorVars, appVars, Locked
<1>2. AfterOver'
  BY DEF IInv, HInv, TypeOK, AfterOver, After, At, Goto, Return, UpdateStatus,
     actorVars, appVars, Locked
<1>3. StopAwaited'
  BY DEF IInv, HInv, TypeOK, StopAwaited, After, Running, At, Goto, Return,
     UpdateStatus, actorVars, appVars, Locked
<1>4. StartMarked'
  BY AbsentAssumption DEF IInv, HInv, TypeOK, CmdShape, LockHeld, EmptyMap,
     StartMarked, After, Locked, Emptied, Claimed, Denier, Starting, At, Goto,
     Return, UpdateStatus, actorVars, appVars
<1>5. DenialExplained'
  <2>1. CASE cmd[o] = "stopRun"
    BY <2>1 DEF IInv, HInv, DenialExplained, After, UpdateStatus, Claimed,
       Denier
  <2>2. CASE cmd[o] # "stopRun"
    <3>1. Emptied(o) /\ pc[o] \notin {"wait", "insert"}
      BY <2>2 DEF IInv, CmdShape, After, At, Emptied
    <3>2. ASSUME NEW a \in Actors, actor[a] \in {"loop", "toIdle", "toRunning"}
          PROVE  exiting' \/ \E w \in Ops : pc'[w] = "wait" /\ held'[w] = a
      <4>1. exiting \/ \E w \in Ops : w # o /\ pc[w] = "wait" /\ held[w] = a
        BY <3>1, <3>2, OthersAwaited DEF Running
      <4> QED
        BY <4>1 DEF IInv, TypeOK, After, Return, Goto, appVars
    <3> QED
      BY <3>2 DEF DenialExplained, After, actorVars
  <2> QED
    BY <2>1, <2>2
<1>6. ClaimExplained'
  BY DEF IInv, HInv, TypeOK, ClaimExplained, After, Metas, Claimed, Running,
     WillSettle, At, Goto, Return, UpdateStatus, actorVars, appVars, Locked
<1> QED
  BY <1>1, <1>2, <1>3, <1>4, <1>5, <1>6 DEF HInv

(* The status is Running, or was changed by one of the listed writers. *)
LEMMA SpawnOkHonest ==
  ASSUME NEW o \in Ops, NEW x \in Actors, IInv, HInv, SpawnOk(o, x)
  PROVE  HInv'
<1>1. WriterShape' /\ AfterOver' /\ StopAwaited'
  BY DEF IInv, HInv, TypeOK, WriterShape, AfterOver, StopAwaited, SpawnOk,
     Running, At, Goto, appVars, Locked
<1>2. StartMarked'
  BY DEF IInv, HInv, TypeOK, StartMarked, SpawnOk, Claimed, Denier, Starting,
     At, Goto, appVars, Locked
<1>3. DenialExplained'
  BY DEF IInv, HInv, TypeOK, StartMarked, CmdShape, DenialExplained, SpawnOk,
     Claimed, Denier, Starting, Locked, At, Goto, appVars
<1>4. ClaimExplained'
  BY DEF IInv, HInv, TypeOK, ClaimExplained, SpawnOk, Claimed, Running,
     WillSettle, At, Goto, appVars, Locked
<1> QED
  BY <1>1, <1>2, <1>3, <1>4 DEF HInv

(* A failed start is a listed writer of a claim; under a denial only
   actors that a stop_run waits for are left. *)
LEMMA SpawnFailsHonest ==
  ASSUME NEW o \in Ops, IInv, HInv, SpawnFails(o)
  PROVE  HInv'
<1>1. WriterShape' /\ AfterOver' /\ StopAwaited'
  BY DEF IInv, HInv, TypeOK, WriterShape, AfterOver, StopAwaited, SpawnFails,
     Running, At, Return, actorVars, appVars, Locked, Goto
<1>2. StartMarked'
  BY AbsentAssumption DEF IInv, HInv, TypeOK, CmdShape, LockHeld, EmptyMap,
     StartMarked, SpawnFails, Locked, Emptied, Claimed, Denier, Starting, At,
     Return, actorVars, appVars, Goto
<1>3. DenialExplained'
  <2>1. Emptied(o) /\ pc[o] \notin {"wait", "insert"}
    BY DEF IInv, CmdShape, SpawnFails, At, Emptied, Locked
  <2>2. ASSUME NEW a \in Actors, actor[a] \in {"loop", "toIdle", "toRunning"}
        PROVE  exiting' \/ \E w \in Ops : pc'[w] = "wait" /\ held'[w] = a
    <3>1. exiting \/ \E w \in Ops : w # o /\ pc[w] = "wait" /\ held[w] = a
      BY <2>1, <2>2, OthersAwaited DEF Running
    <3> QED
      BY <3>1 DEF IInv, TypeOK, SpawnFails, Return, Goto, appVars
  <2> QED
    BY <2>2 DEF DenialExplained, SpawnFails, actorVars
<1>4. ClaimExplained'
  BY DEF IInv, HInv, TypeOK, ClaimExplained, SpawnFails, WillSettle, At, Return,
     Goto
<1> QED
  BY <1>1, <1>2, <1>3, <1>4 DEF HInv

(* Nothing is written. *)
LEMMA InsertHonest ==
  ASSUME NEW o \in Ops, IInv, HInv, Insert(o)
  PROVE  HInv'
<1>1. WriterShape' /\ AfterOver' /\ StopAwaited'
  BY DEF IInv, HInv, TypeOK, WriterShape, AfterOver, StopAwaited, Insert,
     Running, At, Goto, actorVars, appVars, Locked
<1>2. StartMarked'
  BY DEF IInv, HInv, TypeOK, StartMarked, Insert, Claimed, Denier, Starting, At,
     Goto, actorVars, appVars, Locked
<1>3. DenialExplained'
  BY DEF IInv, HInv, TypeOK, DenialExplained, Insert, Claimed, Denier, At, Goto,
     actorVars, appVars, Locked
<1>4. ClaimExplained'
  BY DEF IInv, HInv, TypeOK, ClaimExplained, Insert, Claimed, Running,
     WillSettle, At, Goto, actorVars, appVars, Locked
<1> QED
  BY <1>1, <1>2, <1>3, <1>4 DEF HInv

(* Nothing is written. *)
LEMMA SendFirstHonest ==
  ASSUME NEW o \in Ops, IInv, HInv, SendFirst(o)
  PROVE  HInv'
<1>1. WriterShape' /\ AfterOver' /\ StopAwaited'
  BY DEF IInv, HInv, TypeOK, WriterShape, AfterOver, StopAwaited, SendFirst,
     Running, Addressee, At, Return, actorVars, appVars, Locked, Goto
<1>2. StartMarked'
  BY DEF IInv, HInv, TypeOK, StartMarked, SendFirst, Claimed, Denier, Starting,
     Addressee, At, Return, actorVars, appVars, Locked, Goto
<1>3. DenialExplained'
  BY DEF IInv, HInv, TypeOK, DenialExplained, SendFirst, Claimed, Denier,
     Addressee, At, Return, actorVars, appVars, Locked, Goto
<1>4. ClaimExplained'
  BY DEF IInv, HInv, TypeOK, ClaimExplained, SendFirst, Claimed, Running,
     WillSettle, Addressee, At, Return, actorVars, appVars, Locked, Goto
<1> QED
  BY <1>1, <1>2, <1>3, <1>4 DEF HInv

(* The synthetic idle is one of the listed writers. *)
LEMMA SyntheticIdleHonest ==
  ASSUME NEW o \in Ops, IInv, HInv, SyntheticIdle(o)
  PROVE  HInv'
<1>1. WriterShape' /\ AfterOver' /\ StopAwaited'
  BY DEF IInv, HInv, TypeOK, WriterShape, AfterOver, StopAwaited, SyntheticIdle,
     Running, At, Return, UpdateStatus, actorVars, appVars, Locked, Goto
<1>2. StartMarked'
  BY DEF IInv, HInv, TypeOK, StartMarked, SyntheticIdle, Metas, Claimed, Denier,
     Starting, At, Return, UpdateStatus, actorVars, appVars, Locked, Goto
<1>3. DenialExplained'
  BY DEF IInv, HInv, TypeOK, DenialExplained, SyntheticIdle, Metas, Claimed,
     Denier, At, Return, UpdateStatus, actorVars, appVars, Locked, Goto
<1>4. ClaimExplained'
  BY DEF IInv, HInv, TypeOK, ClaimExplained, SyntheticIdle, Claimed, Running,
     WillSettle, At, Return, UpdateStatus, actorVars, appVars, Locked, Goto
<1> QED
  BY <1>1, <1>2, <1>3, <1>4 DEF HInv

(* Nothing is written. *)
LEMMA ReadCopyHonest ==
  ASSUME NEW o \in Ops, IInv, HInv, ReadCopy(o)
  PROVE  HInv'
<1>1. WriterShape' /\ AfterOver' /\ StopAwaited'
  BY DEF IInv, HInv, TypeOK, WriterShape, AfterOver, StopAwaited, ReadCopy,
     Running, At, Goto, Return, actorVars, appVars, Locked
<1>2. StartMarked'
  BY DEF IInv, HInv, TypeOK, StartMarked, ReadCopy, Claimed, Denier, Starting,
     At, Goto, Return, actorVars, appVars, Locked
<1>3. DenialExplained'
  BY DEF IInv, HInv, TypeOK, DenialExplained, ReadCopy, Claimed, Denier, At,
     Goto, Return, actorVars, appVars, Locked
<1>4. ClaimExplained'
  BY DEF IInv, HInv, TypeOK, ClaimExplained, ReadCopy, Claimed, Running,
     WillSettle, At, Goto, Return, actorVars, appVars, Locked
<1> QED
  BY <1>1, <1>2, <1>3, <1>4 DEF HInv

(* A copy that differs is a stale one, a listed writer. *)
LEMMA WriteCopyHonest ==
  ASSUME NEW o \in Ops, IInv, HInv, WriteCopy(o)
  PROVE  HInv'
<1>1. WriterShape' /\ AfterOver' /\ StopAwaited'
  BY DEF IInv, HInv, TypeOK, WriterShape, AfterOver, StopAwaited, WriteCopy,
     Running, At, Return, SaveCopy, actorVars, appVars, Locked, Goto
<1>2. StartMarked'
  BY DEF IInv, HInv, TypeOK, StartMarked, WriteCopy, Claimed, Denier, Starting,
     At, Return, SaveCopy, actorVars, appVars, Locked, Goto
<1>3. DenialExplained'
  BY DEF IInv, HInv, TypeOK, DenialExplained, WriteCopy, Claimed, Denier, At,
     Return, SaveCopy, actorVars, appVars, Locked, Goto
<1>4. ClaimExplained'
  BY DEF IInv, HInv, TypeOK, ClaimExplained, WriteCopy, Claimed, Running,
     WillSettle, At, Return, SaveCopy, actorVars, appVars, Locked, Goto
<1> QED
  BY <1>1, <1>2, <1>3, <1>4 DEF HInv

(* Nothing is written yet. *)
LEMMA TurnEdgeHonest ==
  ASSUME NEW x \in Actors, up, IInv, HInv, TurnEdge(x)
  PROVE  HInv'
<1>1. WriterShape' /\ AfterOver' /\ StopAwaited'
  BY DEF IInv, HInv, TypeOK, WriterShape, AfterOver, StopAwaited, TurnEdge,
     Running, appVars, opVars, Locked
<1>2. StartMarked'
  BY DEF IInv, HInv, TypeOK, StartMarked, TurnEdge, Claimed, Denier, Starting,
     appVars, opVars, Locked
<1>3. DenialExplained'
  BY DEF IInv, HInv, TypeOK, DenialExplained, TurnEdge, Claimed, Denier,
     appVars, opVars, Locked
<1>4. ClaimExplained'
  BY DEF IInv, HInv, TypeOK, ClaimExplained, TurnEdge, Claimed, Running,
     WillSettle, appVars, opVars, Locked
<1> QED
  BY <1>1, <1>2, <1>3, <1>4 DEF HInv

(* An actor that is alive writes a claim. *)
LEMMA PersistTurnEdgeHonest ==
  ASSUME NEW x \in Actors, up, IInv, HInv, PersistTurnEdge(x)
  PROVE  HInv'
<1>1. WriterShape' /\ AfterOver' /\ StopAwaited'
  BY DEF IInv, HInv, TypeOK, WriterShape, AfterOver, StopAwaited,
     PersistTurnEdge, Running, Signature, UpdateStatus, appVars, opVars, Locked
<1>2. StartMarked'
  BY DEF IInv, HInv, TypeOK, StartMarked, PersistTurnEdge, Metas, Claimed,
     Denier, Starting, Signature, UpdateStatus, appVars, opVars, Locked
<1>3. DenialExplained'
  BY DEF IInv, HInv, TypeOK, DenialExplained, PersistTurnEdge, Metas, Claimed,
     Denier, Signature, UpdateStatus, appVars, opVars, Locked
<1>4. ClaimExplained'
  BY DEF IInv, HInv, TypeOK, ClaimExplained, PersistTurnEdge, Claimed, Running,
     WillSettle, Signature, UpdateStatus, appVars, opVars, Locked
<1> QED
  BY <1>1, <1>2, <1>3, <1>4 DEF HInv

(* The registered actor has ended, and the map held nobody else; an actor
   that is not in the map is a listed writer. *)
LEMMA EofHonest ==
  ASSUME NEW x \in Actors, up, IInv, HInv, Eof(x)
  PROVE  HInv'
<1>1. WriterShape' /\ AfterOver' /\ StopAwaited'
  BY DEF IInv, HInv, TypeOK, WriterShape, AfterOver, StopAwaited, Eof, Running,
     Signature, UpdateStatus, appVars, opVars, Locked
<1>2. StartMarked'
  BY AbsentAssumption DEF IInv, HInv, TypeOK, CmdShape, LockHeld, EmptyMap,
     StartMarked, Eof, Locked, Emptied, Claimed, Denier, Starting, Signature,
     UpdateStatus, appVars, opVars
<1>3. DenialExplained'
  BY AbsentAssumption DEF IInv, HInv, TypeOK, CmdShape, LockHeld, EmptyMap,
     NoOrphanCli, DenialExplained, Eof, Locked, Emptied, Running, Claimed,
     Denier, Signature, UpdateStatus, appVars, opVars
<1>4. ClaimExplained'
  BY DEF IInv, HInv, TypeOK, ClaimExplained, Eof, Metas, Claimed, Running,
     WillSettle, Signature, UpdateStatus, appVars, opVars, Locked
<1> QED
  BY <1>1, <1>2, <1>3, <1>4 DEF HInv

(* Nothing is written: the stopper will. *)
LEMMA HandleStopHonest ==
  ASSUME NEW x \in Actors, up, IInv, HInv, HandleStop(x)
  PROVE  HInv'
<1>1. WriterShape' /\ AfterOver' /\ StopAwaited'
  BY DEF IInv, HInv, TypeOK, WriterShape, AfterOver, StopAwaited, HandleStop,
     Running, appVars, opVars, Locked
<1>2. StartMarked'
  BY DEF IInv, HInv, TypeOK, StartMarked, HandleStop, Claimed, Denier, Starting,
     appVars, opVars, Locked
<1>3. DenialExplained'
  BY DEF IInv, HInv, TypeOK, DenialExplained, HandleStop, Claimed, Denier,
     appVars, opVars, Locked
<1>4. ClaimExplained'
  BY DEF IInv, HInv, TypeOK, ClaimExplained, HandleStop, Claimed, Running,
     WillSettle, appVars, opVars, Locked
<1> QED
  BY <1>1, <1>2, <1>3, <1>4 DEF HInv

(* The stopper still waits, so the claim is about to be changed. *)
LEMMA ReapedHonest ==
  ASSUME NEW x \in Actors, up, IInv, HInv, Reaped(x)
  PROVE  HInv'
<1>1. WriterShape' /\ AfterOver' /\ StopAwaited'
  BY DEF IInv, HInv, TypeOK, WriterShape, AfterOver, StopAwaited, Reaped,
     Running, appVars, opVars, Locked
<1>2. StartMarked'
  BY DEF IInv, HInv, TypeOK, StartMarked, Reaped, Claimed, Denier, Starting,
     appVars, opVars, Locked
<1>3. DenialExplained'
  BY DEF IInv, HInv, TypeOK, DenialExplained, Reaped, Claimed, Denier, appVars,
     opVars, Locked
<1>4. ClaimExplained'
  BY DEF IInv, HInv, TypeOK, StopAwaited, ClaimExplained, Reaped, Running,
     Claimed, WillSettle, appVars, opVars, Locked
<1> QED
  BY <1>1, <1>2, <1>3, <1>4 DEF HInv

(* An actor that is over stands for no claim. *)
LEMMA CleanupHonest ==
  ASSUME NEW x \in Actors, up, IInv, HInv, Cleanup(x)
  PROVE  HInv'
<1>1. WriterShape' /\ AfterOver' /\ StopAwaited'
  BY DEF IInv, HInv, TypeOK, WriterShape, AfterOver, StopAwaited, Cleanup,
     Running, appVars, opVars, Locked
<1>2. StartMarked'
  BY DEF IInv, HInv, TypeOK, StartMarked, Cleanup, Claimed, Denier, Starting,
     appVars, opVars, Locked
<1>3. DenialExplained'
  BY DEF IInv, HInv, TypeOK, DenialExplained, Cleanup, Claimed, Denier, appVars,
     opVars, Locked
<1>4. ClaimExplained'
  BY DEF IInv, HInv, TypeOK, ClaimExplained, Cleanup, Claimed, Running,
     WillSettle, appVars, opVars, Locked
<1> QED
  BY <1>1, <1>2, <1>3, <1>4 DEF HInv

(* At exit a claim needs nobody. *)
LEMMA QuitHonest ==
  ASSUME IInv, HInv, Quit
  PROVE  HInv'
<1>1. WriterShape' /\ AfterOver' /\ StopAwaited'
  BY DEF IInv, HInv, TypeOK, WriterShape, AfterOver, StopAwaited, Quit, Running,
     actorVars, opVars, Locked
<1>2. StartMarked'
  BY DEF IInv, HInv, TypeOK, StartMarked, Quit, Claimed, Denier, Starting,
     actorVars, opVars, Locked
<1>3. DenialExplained'
  BY DEF IInv, HInv, TypeOK, DenialExplained, Quit
<1>4. ClaimExplained'
  BY DEF IInv, HInv, TypeOK, ClaimExplained, Quit, WillSettle
<1> QED
  BY <1>1, <1>2, <1>3, <1>4 DEF HInv

(* What is left is stopped by the exit. *)
LEMMA DrainHonest ==
  ASSUME IInv, HInv, Drain
  PROVE  HInv'
<1>1. WriterShape' /\ AfterOver' /\ StopAwaited'
  BY AbsentAssumption DEF IInv, HInv, TypeOK, Born, WriterShape, AfterOver,
     StopAwaited, Drain, Running, appVars, opVars, Locked
<1>2. StartMarked'
  BY DEF IInv, HInv, TypeOK, StartMarked, Drain, Claimed, Denier, Starting,
     appVars, opVars, Locked
<1>3. DenialExplained'
  BY DEF IInv, HInv, TypeOK, DenialExplained, Drain, Claimed, Denier, appVars,
     opVars, Locked
<1>4. ClaimExplained'
  BY DEF IInv, HInv, TypeOK, ClaimExplained, Drain, Claimed, Running,
     WillSettle, appVars, opVars, Locked
<1> QED
  BY <1>1, <1>2, <1>3, <1>4 DEF HInv

(* No command and no actor is left. *)
LEMMA DieHonest ==
  ASSUME IInv, HInv, Die
  PROVE  HInv'
<1>1. WriterShape' /\ AfterOver' /\ StopAwaited'
  BY DEF IInv, HInv, TypeOK, WriterShape, AfterOver, StopAwaited, Die
<1>2. StartMarked'
  BY DEF IInv, HInv, TypeOK, StartMarked, Die, Claimed, Denier, Starting, Locked
<1>3. DenialExplained'
  BY DEF IInv, HInv, TypeOK, DenialExplained, Die
<1>4. ClaimExplained'
  BY DEF IInv, HInv, TypeOK, ClaimExplained, Die, WillSettle
<1> QED
  BY <1>1, <1>2, <1>3, <1>4 DEF HInv

(* Claims are withdrawn while nothing runs. *)
LEMMA RestartHonest ==
  ASSUME IInv, HInv, Restart
  PROVE  HInv'
<1>1. WriterShape' /\ AfterOver' /\ StopAwaited'
  BY DEF IInv, HInv, TypeOK, DownMeansOver, WriterShape, AfterOver, StopAwaited,
     Restart, Running, actorVars, opVars, Locked
<1>2. StartMarked'
  BY DEF IInv, HInv, TypeOK, DownMeansOver, StartMarked, Restart, Claimed,
     Denier, Starting, actorVars, opVars, Locked
<1>3. DenialExplained'
  BY DEF IInv, HInv, TypeOK, DownMeansOver, DenialExplained, Restart, Claimed,
     Denier, actorVars, opVars, Locked
<1>4. ClaimExplained'
  BY DEF IInv, HInv, TypeOK, ClaimExplained, Restart, Claimed, Running,
     WillSettle, actorVars, opVars, Locked
<1> QED
  BY <1>1, <1>2, <1>3, <1>4 DEF HInv

-----------------------------------------------------------------------------
(* The invariant *)

(* Nothing runs and nothing is claimed when start_run has written meta.json. *)
LEMMA InitHonest == Init => HInv
  BY DEF Init, Created, HInv, WriterShape, AfterOver, StopAwaited, StartMarked,
     Starting, DenialExplained, ClaimExplained, Claimed, Denier, Running

(* Every step keeps the claim true, or is one of the listed writers. *)
LEMMA NextHonest == IInv /\ HInv /\ [Next]_vars => HInv'
<1> SUFFICES ASSUME IInv, HInv, [Next]_vars
             PROVE  HInv'
  OBVIOUS
<1>1. ASSUME NEW o \in Ops, Command(o)
      PROVE  HInv'
  BY <1>1, CallUnlockedHonest, CallLockedHonest, PreflightOkHonest,
     PreflightFailsHonest, MarkHonest, TakeHonest, WaitHonest, AfterHonest,
     SpawnOkHonest, SpawnFailsHonest, InsertHonest, SendFirstHonest,
     SyntheticIdleHonest, ReadCopyHonest, WriteCopyHonest DEF Command
<1>2. ASSUME NEW a \in Actors, up, Task(a)
      PROVE  HInv'
  BY <1>2, TurnEdgeHonest, PersistTurnEdgeHonest, EofHonest, HandleStopHonest,
     ReapedHonest, CleanupHonest DEF Task
<1>3. CASE UNCHANGED vars
  BY <1>3 DEF vars, opVars, actorVars, appVars, HInv, WriterShape, AfterOver,
     StopAwaited, StartMarked, Starting, DenialExplained, ClaimExplained,
     WillSettle, Claimed, Running
<1> QED
  BY <1>1, <1>2, <1>3, QuitHonest, DrainHonest, DieHonest, RestartHonest DEF
     Next

(* In a quiet state the two explanations leave only the listed writers. *)
LEMMA HonestWhenQuiet == IInv /\ HInv => StatusHonest
<1> SUFFICES ASSUME IInv, HInv, Quiet, ~meta.deleted
             PROVE  /\ Alive /\ ~Claimed =>
                         writer \in {"lateActor", "stopRun", "stale", "preflight"}
                    /\ (\A a \in Actors : actor[a] \in {"unborn", "stopped", "gone"}) /\ Claimed =>
                         writer \in {"failedStart", "lateActor", "stale", "idle"}
  BY DEF StatusHonest, Claimed
<1>1. ~exiting /\ up /\ \A o \in Ops : pc[o] = "none"
  BY DEF Quiet
<1>2. ASSUME Alive, ~Claimed
      PROVE  writer \in {"lateActor", "stopRun", "stale", "preflight"}
  BY <1>1, <1>2 DEF HInv, DenialExplained, Denier, Alive
<1>3. ASSUME \A a \in Actors : actor[a] \in {"unborn", "stopped", "gone"}, Claimed
      PROVE  writer \in {"failedStart", "lateActor", "stale", "idle"}
  BY <1>1, <1>3 DEF HInv, ClaimExplained, Running, WillSettle
<1> QED
  BY <1>2, <1>3

(* The status of a run tells, when no command is under way, whether a      *)
(* session is there, with no exceptions but the listed ones.                *)
THEOREM HonestStatus == Spec => []StatusHonest
<1>1. Init => IInv /\ HInv
  BY InitIInv, InitHonest
<1>2. (IInv /\ HInv) /\ [Next]_vars => (IInv /\ HInv)'
  BY NextIInv, NextHonest
<1>3. IInv /\ HInv => StatusHonest
  BY HonestWhenQuiet
<1> QED
  BY <1>1, <1>2, <1>3, PTL DEF Spec
-----------------------------------------------------------------------------
(* The parts *)

Parts ==
  INSTANCE ServicePartsProofs
  WITH task <- s1, fate <- s2, seqOf <- s3, timedOut <- s4, removed <- s5, slot <- s6,
       stop <- s7, meta <- s8, copy <- s9, shown <- s10, verdict <- s11, mixed <- s12,
       taken <- s13, refused <- s14, late <- s15, rewound <- s16, stops <- s17,
       upsets <- s18,
       settings <- s1, holder <- s2, serve <- s3, generation <- s4, port <- s5,
       warned <- s6, handle <- s7, tasks <- s8, refusals <- s9, launched <- s10,
       unsaved <- s11, slipped <- s12,
       server <- s1, file <- s2, user <- s3, gate <- s4, expired <- s5, lost <- s6,
       raced <- s7, faults <- s8,
       chosen <- s1, shell <- s2, run <- s3, process <- s4, reachable <- s5, edits <- s6

-----------------------------------------------------------------------------
(* A part and the part its invariant is about are the same: once all names   *)
(* are replaced by what they stand for, no difference is left.              *)

LEMMA SamePipe ==
  /\ Pipe!Init => Parts!Init
  /\ Pipe!Next => Parts!Next
  /\ Parts!OwnVerdict /\ Parts!Settled /\ Parts!OneProcess /\ Parts!OwnCards =>
       Pipe!OwnVerdict /\ Pipe!Settled /\ Pipe!OneProcess /\ Pipe!OwnCards
<1>1. Pipe!Init => Parts!Init
  BY DEF Pipe!Init, Pipe!NoChild, Pipe!NoCopy, Parts!Init, Parts!NoChild, Parts!NoCopy
<1>2. Pipe!Next => Parts!Next
  BY DEF Pipe!NoChild, Pipe!NoCopy, Pipe!counters, Pipe!vars, Pipe!Statuses, Pipe!Metas,
         Pipe!Goto, Pipe!UpdateStatus, Pipe!Under, Pipe!Works, Pipe!Send, Pipe!Spawn,
         Pipe!Kill, Pipe!Insert, Pipe!ReadTurnFailed, Pipe!IdleTimeout, Pipe!Remove,
         Pipe!Result, Pipe!WriteStatus, Pipe!Phase, Pipe!EmitState, Pipe!StopRun,
         Pipe!StopWait, Pipe!StopWrite, Pipe!PageStop, Pipe!Exit, Pipe!ReadCopy,
         Pipe!WriteCopy, Pipe!Crash, Pipe!Next, Parts!NoChild, Parts!NoCopy, Parts!counters,
         Parts!vars, Parts!Statuses, Parts!Metas, Parts!Goto, Parts!UpdateStatus,
         Parts!Under, Parts!Works, Parts!Send, Parts!Spawn, Parts!Kill, Parts!Insert,
         Parts!ReadTurnFailed, Parts!IdleTimeout, Parts!Remove, Parts!Result,
         Parts!WriteStatus, Parts!Phase, Parts!EmitState, Parts!StopRun, Parts!StopWait,
         Parts!StopWrite, Parts!PageStop, Parts!Exit, Parts!ReadCopy, Parts!WriteCopy,
         Parts!Crash, Parts!Next
<1>3. Parts!OwnVerdict /\ Parts!Settled /\ Parts!OneProcess /\ Parts!OwnCards =>
       Pipe!OwnVerdict /\ Pipe!Settled /\ Pipe!OneProcess /\ Pipe!OwnCards
  BY DEF Pipe!OwnVerdict, Pipe!Settled, Pipe!OneProcess, Pipe!OwnCards, Pipe!Under,
         Pipe!Works, Pipe!Phase, Pipe!NoChild, Parts!OwnVerdict, Parts!Settled,
         Parts!OneProcess, Parts!OwnCards, Parts!Under, Parts!Works, Parts!Phase,
         Parts!NoChild
<1> QED
  BY <1>1, <1>2, <1>3

LEMMA SameWeb ==
  /\ Web!Init => Parts!Web!Init
  /\ Web!Next => Parts!Web!Next
  /\ Parts!Web!StatusHonest /\ Parts!Web!OneServer /\ Parts!Web!SettingsFollow =>
       Web!StatusHonest /\ Web!OneServer /\ Web!SettingsFollow
<1>1. Web!Init => Parts!Web!Init
  BY DEF Web!Init, Web!Idle, Web!Launch, Web!Nobody, Parts!Web!Init, Parts!Web!Idle,
         Parts!Web!Launch, Parts!Web!Nobody
<1>2. Web!Next => Parts!Web!Next
  BY DEF Web!shared, Web!vars, Web!Launch, Web!Nobody, Web!Off, Web!TaskState, Web!Task,
         Web!Idle, Web!Listening, Web!Start, Web!Restart, Web!Unchosen, Web!Cancel,
         Web!Gone, Web!TaskEnded, Web!Abort, Web!GiveUp, Web!Reset, Web!Free, Web!Bind,
         Web!BindFails, Web!Spawn, Web!Saved, Web!Save, Web!SaveFails, Web!Becomes,
         Web!Unserved, Web!CloseListener, Web!LastConnection, Web!Drop, Web!Stale,
         Web!Check, Web!ResetPort, Web!Next, Web!Cardinality, Parts!Web!shared,
         Parts!Web!vars, Parts!Web!Launch, Parts!Web!Nobody, Parts!Web!Off,
         Parts!Web!TaskState, Parts!Web!Task, Parts!Web!Idle, Parts!Web!Listening,
         Parts!Web!Start, Parts!Web!Restart, Parts!Web!Unchosen, Parts!Web!Cancel,
         Parts!Web!Gone, Parts!Web!TaskEnded, Parts!Web!Abort, Parts!Web!GiveUp,
         Parts!Web!Reset, Parts!Web!Free, Parts!Web!Bind, Parts!Web!BindFails,
         Parts!Web!Spawn, Parts!Web!Saved, Parts!Web!Save, Parts!Web!SaveFails,
         Parts!Web!Becomes, Parts!Web!Unserved, Parts!Web!CloseListener,
         Parts!Web!LastConnection, Parts!Web!Drop, Parts!Web!Stale, Parts!Web!Check,
         Parts!Web!ResetPort, Parts!Web!Next, Parts!Web!Cardinality
<1>3. Parts!Web!StatusHonest /\ Parts!Web!OneServer /\ Parts!Web!SettingsFollow =>
       Web!StatusHonest /\ Web!OneServer /\ Web!SettingsFollow
  BY DEF Web!StatusHonest, Web!OneServer, Web!SettingsFollow, Web!Settled, Web!Listening,
         Web!Nobody, Web!Cardinality, Parts!Web!StatusHonest, Parts!Web!OneServer,
         Parts!Web!SettingsFollow, Parts!Web!Settled, Parts!Web!Listening, Parts!Web!Nobody,
         Parts!Web!Cardinality
<1> QED
  BY <1>1, <1>2, <1>3

LEMMA SameLogin ==
  /\ Login!Init => Parts!Login!Init
  /\ Login!Next => Parts!Login!Next
  /\ Parts!Login!CredentialsTrue => Login!CredentialsTrue
<1>1. Login!Init => Parts!Login!Init
  BY DEF Login!Init, Login!Idle, Login!None, Login!Users, Parts!Login!Init,
         Parts!Login!Idle, Parts!Login!None, Parts!Login!Users
<1>2. Login!Next => Parts!Login!Next
  BY DEF Login!tokenVars, Login!vars, Login!Users, Login!None, Login!Idle, Login!Ask,
         Login!TakeGate, Login!PassGate, Login!Ends, Login!Exit, Login!Kill, Login!Expire,
         Login!Holders, Login!ReadCredentials, Login!Rotate, Login!Refused,
         Login!WriteCredentials, Login!Next, Parts!Login!tokenVars, Parts!Login!vars,
         Parts!Login!Users, Parts!Login!None, Parts!Login!Idle, Parts!Login!Ask,
         Parts!Login!TakeGate, Parts!Login!PassGate, Parts!Login!Ends, Parts!Login!Exit,
         Parts!Login!Kill, Parts!Login!Expire, Parts!Login!Holders,
         Parts!Login!ReadCredentials, Parts!Login!Rotate, Parts!Login!Refused,
         Parts!Login!WriteCredentials, Parts!Login!Next
<1>3. Parts!Login!CredentialsTrue => Login!CredentialsTrue
  BY DEF Login!CredentialsTrue, Login!LoggedIn, Login!GateHolds, Login!InFlight,
         Login!Users, Parts!Login!CredentialsTrue, Parts!Login!LoggedIn,
         Parts!Login!GateHolds, Parts!Login!InFlight, Parts!Login!Users
<1> QED
  BY <1>1, <1>2, <1>3

LEMMA SameEnv ==
  /\ Provider!Init => Parts!Env!Init
  /\ Provider!Next => Parts!Env!Next
  /\ Parts!Env!ProviderEnvTrue => Provider!ProviderEnvTrue
<1>1. Provider!Init => Parts!Env!Init
  <2>1. Provider!SomeSettings = Parts!Env!SomeSettings
    BY DEF Provider!SomeSettings, Provider!Credentials, Provider!Headers, Provider!Platforms,
           Provider!Known, Provider!Entries, Provider!Absent, Provider!None,
           Parts!Env!SomeSettings, Parts!Env!Credentials, Parts!Env!Headers,
           Parts!Env!Platforms, Parts!Env!Known, Parts!Env!Entries, Parts!Env!Absent,
           Parts!Env!None
  <2>2. /\ Provider!Platforms = Parts!Env!Platforms /\ Provider!None = Parts!Env!None
        /\ Provider!Absent = Parts!Env!Absent /\ Provider!FullEntry = Parts!Env!FullEntry
        /\ Provider!NotGiven = Parts!Env!NotGiven
        /\ Provider!Credentials = Parts!Env!Credentials
    BY DEF Provider!Platforms, Provider!Known, Provider!None, Provider!Absent,
           Provider!FullEntry, Provider!NotGiven, Provider!Credentials, Provider!Headers,
           Parts!Env!Platforms, Parts!Env!Known, Parts!Env!None, Parts!Env!Absent,
           Parts!Env!FullEntry, Parts!Env!NotGiven, Parts!Env!Credentials, Parts!Env!Headers
  <2> QED
    BY <2>1, <2>2 DEF Provider!Init, Parts!Env!Init
<1>2. Provider!Next => Parts!Env!Next
  BY DEF Provider!vars, Provider!None, Provider!Known, Provider!Platforms, Provider!Headers,
         Provider!Credentials, Provider!Entries, Provider!FullEntry, Provider!Absent,
         Provider!Settings, Provider!Claude, Provider!Codex, Provider!NotGiven,
         Provider!SomeSettings, Provider!Auth, Provider!NoAuth, Provider!Loaded,
         Provider!HostMissing, Provider!Host, Provider!GlobalAuth, Provider!Default,
         Provider!Placeholder, Provider!PlatformAuth, Provider!EffectivePlatform,
         Provider!WithShell, Provider!SettingsModel, Provider!ModelArg, Provider!Tiers,
         Provider!ClaudeProcess, Provider!Resumes, Provider!ReadOnlyAsked,
         Provider!ExecFlags, Provider!SandboxFor, Provider!Sandbox, Provider!CodexModel,
         Provider!CodexProcess, Provider!CreateRun, Provider!Given, Provider!Checked,
         Provider!Unreachable, Provider!Kinds, Provider!Launch, Provider!FailPreflight,
         Provider!Edit, Provider!ProviderFails, Provider!Next, Parts!Env!vars,
         Parts!Env!None, Parts!Env!Known, Parts!Env!Platforms, Parts!Env!Headers,
         Parts!Env!Credentials, Parts!Env!Entries, Parts!Env!FullEntry, Parts!Env!Absent,
         Parts!Env!Settings, Parts!Env!Claude, Parts!Env!Codex, Parts!Env!NotGiven,
         Parts!Env!SomeSettings, Parts!Env!Auth, Parts!Env!NoAuth, Parts!Env!Loaded,
         Parts!Env!HostMissing, Parts!Env!Host, Parts!Env!GlobalAuth, Parts!Env!Default,
         Parts!Env!Placeholder, Parts!Env!PlatformAuth, Parts!Env!EffectivePlatform,
         Parts!Env!WithShell, Parts!Env!SettingsModel, Parts!Env!ModelArg, Parts!Env!Tiers,
         Parts!Env!ClaudeProcess, Parts!Env!Resumes, Parts!Env!ReadOnlyAsked,
         Parts!Env!ExecFlags, Parts!Env!SandboxFor, Parts!Env!Sandbox, Parts!Env!CodexModel,
         Parts!Env!CodexProcess, Parts!Env!CreateRun, Parts!Env!Given, Parts!Env!Checked,
         Parts!Env!Unreachable, Parts!Env!Kinds, Parts!Env!Launch, Parts!Env!FailPreflight,
         Parts!Env!Edit, Parts!Env!ProviderFails, Parts!Env!Next
<1>3. Parts!Env!ProviderEnvTrue => Provider!ProviderEnvTrue
  BY DEF Provider!ProviderEnvTrue, Provider!OneCredential, Provider!OwnUrl,
         Provider!OwnPlatform, Provider!StaysRemote, Provider!OwnModel, Provider!CodexFits,
         Provider!ClaudeStarted, Provider!Seen, Provider!Claude, Provider!Codex,
         Provider!Known, Provider!ReadOnlyAsked, Provider!None, Parts!Env!ProviderEnvTrue,
         Parts!Env!OneCredential, Parts!Env!OwnUrl, Parts!Env!OwnPlatform,
         Parts!Env!StaysRemote, Parts!Env!OwnModel, Parts!Env!CodexFits,
         Parts!Env!ClaudeStarted, Parts!Env!Seen, Parts!Env!Claude, Parts!Env!Codex,
         Parts!Env!Known, Parts!Env!ReadOnlyAsked, Parts!Env!None
<1> QED
  BY <1>1, <1>2, <1>3

\* The hypotheses of the lemmas about the parts.
LEMMA PartAssumptions ==
  /\ Parts!NoChildDistinct /\ Parts!WebAssumption
  /\ Parts!UsersDistinct /\ Parts!PlatformsDistinct
BY ServicesAssumption
   DEF Parts!NoChildDistinct, Parts!NoChild, Pipe!NoChild, Parts!WebAssumption,
       Parts!Web!Launch, Parts!Web!Nobody, Web!Launch, Web!Nobody, Parts!UsersDistinct,
       Parts!Login!None, Login!None, Parts!Login!Users, Login!Users, Parts!PlatformsDistinct,
       Parts!Env!None, Provider!None, Parts!Env!Platforms, Provider!Platforms,
       Parts!Env!Known, Provider!Known

\* The inductive invariant of the chosen part.
ServicesInv ==
  /\ part = "pipe" => Parts!PipeInv
  /\ part = "webServer" => Parts!WebInv
  /\ part = "credentials" => Parts!CredInv
  /\ part = "providerEnv" => Parts!ProvInv

LEMMA ServicesStart == ServicesInit => ServicesInv
<1> SUFFICES ASSUME ServicesInit PROVE ServicesInv
  OBVIOUS
<1>1. ASSUME part = "pipe" PROVE Parts!PipeInv
  <2>1. Pipe!Init
    BY <1>1 DEF ServicesInit
  <2> QED
    BY <2>1, SamePipe, PartAssumptions, Parts!PipeStarts
<1>2. ASSUME part = "webServer" PROVE Parts!WebInv
  <2>1. Web!Init
    BY <1>2 DEF ServicesInit
  <2> QED
    BY <2>1, SameWeb, PartAssumptions, Parts!WebStarts
<1>3. ASSUME part = "credentials" PROVE Parts!CredInv
  <2>1. Login!Init
    BY <1>3 DEF ServicesInit
  <2> QED
    BY <2>1, SameLogin, PartAssumptions, Parts!CredStarts
<1>4. ASSUME part = "providerEnv" PROVE Parts!ProvInv
  <2>1. Provider!Init
    BY <1>4 DEF ServicesInit
  <2> QED
    BY <2>1, SameEnv, PartAssumptions, Parts!ProvStarts
<1> QED
  BY <1>1, <1>2, <1>3, <1>4 DEF ServicesInv

LEMMA ServicesStay == ServicesInv /\ [ServicesNext]_allVars => ServicesInv'
<1> SUFFICES ASSUME ServicesInv, [ServicesNext]_allVars PROVE ServicesInv'
  OBVIOUS
<1>0. part' = part
  BY DEF ServicesNext, allVars
<1>1. ASSUME part = "pipe" PROVE Parts!PipeInv'
  <2>1. Pipe!Next \/ UNCHANGED Parts!vars
    BY <1>1 DEF ServicesNext, allVars, slots, Parts!vars, Parts!counters
  <2>2. [Parts!Next]_Parts!vars
    BY <2>1, SamePipe
  <2>3. Parts!PipeInv
    BY <1>1 DEF ServicesInv
  <2> QED
    BY <2>2, <2>3, PartAssumptions, Parts!PipeStays
<1>2. ASSUME part = "webServer" PROVE Parts!WebInv'
  <2>1. Web!Next \/ UNCHANGED Parts!Web!vars
    BY <1>2 DEF ServicesNext, allVars, slots, Parts!Web!vars, Parts!Web!shared
  <2>2. [Parts!Web!Next]_Parts!Web!vars
    BY <2>1, SameWeb
  <2>3. Parts!WebInv
    BY <1>2 DEF ServicesInv
  <2> QED
    BY <2>2, <2>3, PartAssumptions, Parts!WebStays
<1>3. ASSUME part = "credentials" PROVE Parts!CredInv'
  <2>1. Login!Next \/ UNCHANGED Parts!Login!vars
    BY <1>3 DEF ServicesNext, allVars, slots, Parts!Login!vars, Parts!Login!tokenVars
  <2>2. [Parts!Login!Next]_Parts!Login!vars
    BY <2>1, SameLogin
  <2>3. Parts!CredInv
    BY <1>3 DEF ServicesInv
  <2> QED
    BY <2>2, <2>3, PartAssumptions, Parts!CredStays
<1>4. ASSUME part = "providerEnv" PROVE Parts!ProvInv'
  <2>1. Provider!Next \/ UNCHANGED Parts!Env!vars
    BY <1>4 DEF ServicesNext, allVars, slots, Parts!Env!vars
  <2>2. [Parts!Env!Next]_Parts!Env!vars
    BY <2>1, SameEnv
  <2>3. Parts!ProvInv
    BY <1>4 DEF ServicesInv
  <2> QED
    BY <2>2, <2>3, PartAssumptions, Parts!ProvStays
<1> QED
  BY <1>0, <1>1, <1>2, <1>3, <1>4 DEF ServicesInv

(* The status of a run in pipe mode is what became of its process, on which  *)
(* page and meta.json agree, and its processes are one at a time and within  *)
(* reach, for any number of messages, stops, failures and crashes.          *)
THEOREM PipeIsTrue == ServicesSpec => []PipeTrue
<1>1. ServicesInv => PipeTrue
  BY SamePipe, PartAssumptions, Parts!PipeSuffices DEF ServicesInv, PipeTrue
<1> QED
  BY <1>1, ServicesStart, ServicesStay, PTL DEF ServicesSpec

(* The page shows the port that is served, there is one server and the next  *)
(* launch starts what runs now, for any number of restarts, ports taken by   *)
(* others and saves that fail.                                              *)
THEOREM WebServerIsTrue == ServicesSpec => []WebServerTrue
<1>1. ServicesInv => WebServerTrue
  BY SameWeb, Parts!WebSuffices DEF ServicesInv, WebServerTrue
<1> QED
  BY <1>1, ServicesStart, ServicesStay, PTL DEF ServicesSpec

(* A process has the credential, URL and model of its run for any number of  *)
(* platforms and changes of the settings, and any number of processes that   *)
(* pass the gate do not race for the credentials of the user.               *)
THEOREM LaunchIsTrue == ServicesSpec => []LaunchTrue
<1>1. Parts!CredInv => Login!CredentialsTrue
  BY SameLogin, Parts!CredSuffices DEF Parts!Login!CredentialsTrue
<1>2. Parts!ProvInv => Provider!ProviderEnvTrue
  BY SameEnv, PartAssumptions, Parts!ProvSuffices
<1>3. ServicesInv => LaunchTrue
  BY <1>1, <1>2 DEF ServicesInv, LaunchTrue
<1> QED
  BY <1>3, ServicesStart, ServicesStay, PTL DEF ServicesSpec

(* What is launched is what was configured: the last two theorems together.  *)
THEOREM LaunchesAreTrue == ServicesSpec => []LaunchesTrue
<1>1. WebServerTrue /\ LaunchTrue => LaunchesTrue
  BY DEF LaunchesTrue
<1> QED
  BY <1>1, WebServerIsTrue, LaunchIsTrue, PTL
=============================================================================
