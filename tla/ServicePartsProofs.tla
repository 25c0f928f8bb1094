-------------------------- MODULE ServicePartsProofs --------------------------
(***************************************************************************)
(* Proofs about four parts of MCServices, each by an inductive invariant,   *)
(* for any number of messages, callers, processes, platforms and changes.   *)
(*                                                                         *)
(* Pipe mode.  A process is in one place: its task has yet to insert it, it  *)
(* is in the map, or with the one that took it out (Reach, Removals, Stops). *)
(* A task whose message met no other knows of its own process only, so its  *)
(* verdict is that process's (Alone, Ends); who may still write the status   *)
(* is under way, and the page follows (Shows).                             *)
(*                                                                         *)
(* The web server.  All but the last task have been given up, and the last   *)
(* serves the port shown and the configuration that is saved, at every step *)
(* of a restart as far as that step has come (Progress, PortFits, TasksFit). *)
(*                                                                         *)
(* The credentials.  Without a race or a loss one process at most refreshes, *)
(* with the token the server takes (Sole).                                 *)
(*                                                                         *)
(* The environment of a process.  What the process was given is what the     *)
(* settings and the run still give it (GivenNow): the rest is a case         *)
(* analysis over how a credential is found.                                *)
(***************************************************************************)
EXTENDS PipeChat, FiniteSetTheorems, TLAPS

(* The other parts have names of their own for their variables, and share    *)
(* operators' names: here they are Web!Init, Login!Init, Env!Init.      *)
CONSTANTS Callers, Asked, MaxServers, MaxRefused
VARIABLES settings, holder, serve, generation, port, warned, handle, tasks, refusals,
          launched, unsaved, slipped

Web == INSTANCE WebServer WITH refused <- refusals

CONSTANTS Gated, Passing, Ungated, MaxExpired, MaxFaults
VARIABLES server, file, user, gate, expired, lost, raced, faults

Login == INSTANCE Credentials

CONSTANTS Presets, Keyless, Custom, DefaultModels, MaxEdits
VARIABLES chosen, shell, run, process, reachable, edits

Env == INSTANCE ProviderEnv WITH settings <- chosen

-----------------------------------------------------------------------------
(* Pipe mode *)

\* The mark for "no child" is no message.
NoChildDistinct == NoChild \notin Sends

Places == {"none", "spawn", "insert", "read", "drain", "wait", "fail", "emit", "over"}
Metas_ == [status : Statuses, seq : Nat]

PipeShape ==
  /\ task \in [Sends -> Places]
  /\ fate \in [Sends -> {"none", "runs", "ok", "error", "killed"}]
  /\ seqOf \in [Sends -> Nat]
  /\ timedOut \subseteq Sends /\ mixed \subseteq Sends /\ taken \subseteq Sends
  /\ removed \in [Sends -> Sends \cup {NoChild}] /\ slot \in Sends \cup {NoChild}
  /\ stop \in [step : {"none", "wait", "write"}, child : Sends \cup {NoChild}]
  /\ meta \in Metas_ /\ copy \in Metas_ \cup {NoCopy}
  /\ verdict \in [Sends -> Statuses \cup {"none"}]
  /\ refused \in BOOLEAN /\ late \in BOOLEAN /\ rewound \in BOOLEAN

\* A process is in one place: its task has yet to insert it, or it is in the
\* map, with the stop_run that took it, or with the task that removed it.
Early == {"none", "spawn", "insert", "fail"}

Reach ==
  /\ \A s \in Sends : Works(s) =>
       /\ task[s] \in {"insert", "read", "drain"}
       /\ slot = s \/ stop.child = s \/ task[s] = "insert" \/ \E o \in Sends : removed[o] = s
  /\ \A s \in Sends : task[s] \in {"none", "spawn", "fail"} => fate[s] = "none"
  /\ slot # NoChild => task[slot] = "read"
  /\ \A s \in Sends : task[s] \in Early => s \notin taken \cup timedOut
  /\ slot \notin taken

Removals ==
  /\ \A o \in Sends : removed[o] # NoChild =>
       /\ task[o] \in {"wait", "emit"}
       /\ removed[o] \notin taken /\ removed[o] # slot /\ task[removed[o]] \notin Early
       /\ task[o] = "emit" => ~Works(removed[o])

Stops ==
  /\ stop.step = "none" => stop.child = NoChild
  /\ stop.child # NoChild =>
       stop.child \in taken /\ (stop.step = "write" => ~Works(stop.child))

\* A message that met no other is alone.
Alone == \A s \in Under \ mixed : \A t \in Under : t = s

\* What its task knows of its process when it writes the verdict.
Ends ==
  \A s \in Sends :
    /\ task[s] = "read" => s \notin timedOut
    /\ task[s] = "drain" => s \in timedOut
    /\ verdict[s] # "none" => task[s] \in {"emit", "over"}
    /\ task[s] = "emit" => verdict[s] # "none"
    /\ verdict[s] # "none" => verdict[s] \in {"Completed", "Stopped", "Failed"}
    /\ s \notin mixed =>
         /\ task[s] = "read" => slot = s \/ s \in taken
         /\ task[s] = "wait" => removed[s] \in {s, NoChild}
         /\ task[s] = "wait" /\ removed[s] = NoChild => s \in taken \cup timedOut
         /\ s \in taken \ timedOut /\ verdict[s] # "none" => verdict[s] = "Stopped"

\* Whoever may still write the status.
Writing == {"spawn", "insert", "read", "drain", "wait", "fail"}

Shows ==
  /\ Under = {} /\ ~refused => shown # "running"
  /\ meta.status = "Running" /\ ~rewound /\ ~refused => \E s \in Sends : task[s] \in Writing
  /\ ~rewound /\ ~refused /\ ~late /\ mixed = {} =>
       /\ stop.step = "none" =>
            /\ Under = {} => shown = Phase(meta.status)
            /\ \A s \in Sends : task[s] = "emit" => meta.status = verdict[s]
       /\ stop.child # NoChild /\ stop.child \notin timedOut =>
            /\ Under \subseteq {stop.child}
            /\ task[stop.child] = "over" => shown = "stopped"

Numbers == ~rewound => OwnCards /\ \A s \in Sends : seqOf[s] <= meta.seq

PipeInv ==
  PipeShape /\ Reach /\ Removals /\ Stops /\ Alone /\ Ends /\ OwnVerdict /\ Shows /\ Numbers

LEMMA PipeStarts == NoChildDistinct /\ Init => PipeInv
<1> SUFFICES ASSUME NoChildDistinct, Init PROVE PipeInv
  OBVIOUS
<1> USE DEF NoChildDistinct, Init
<1>1. PipeShape
  BY DEF PipeShape, Places, Metas_, Statuses
<1>2. Reach /\ Removals /\ Stops
  BY DEF Reach, Removals, Stops, Works, Early
<1>3. Alone /\ Ends /\ OwnVerdict
  BY DEF Alone, Under, Ends, OwnVerdict
<1>4. Shows
  BY DEF Shows, Under, Phase
<1>5. Numbers
  BY DEF Numbers, OwnCards
<1> QED
  BY <1>1, <1>2, <1>3, <1>4, <1>5 DEF PipeInv

LEMMA PipeShapeStays == NoChildDistinct /\ PipeShape /\ [Next]_vars => PipeShape'
<1> SUFFICES ASSUME NoChildDistinct, PipeShape, [Next]_vars PROVE PipeShape'
  OBVIOUS
<1> USE DEF NoChildDistinct, PipeShape, Places, Metas_, counters
<1>1. ASSUME NEW s \in Sends, Send(s) PROVE PipeShape'
  BY <1>1 DEF Send, Goto, UpdateStatus, Statuses, Under
<1>2. ASSUME NEW s \in Sends, Spawn(s) PROVE PipeShape'
  BY <1>2 DEF Spawn, Goto, Statuses
<1>3. ASSUME NEW s \in Sends, Insert(s) PROVE PipeShape'
  BY <1>3 DEF Insert, Goto, Kill
<1>4. ASSUME NEW s \in Sends, ReadTurnFailed(s) PROVE PipeShape'
  BY <1>4 DEF ReadTurnFailed
<1>5. ASSUME NEW s \in Sends, IdleTimeout(s) PROVE PipeShape'
  BY <1>5 DEF IdleTimeout, Goto, Kill
<1>6. ASSUME NEW s \in Sends, Remove(s) PROVE PipeShape'
  BY <1>6 DEF Remove, Goto
<1>7. ASSUME NEW s \in Sends, WriteStatus(s) PROVE PipeShape'
  BY <1>7 DEF WriteStatus, Goto, Result, UpdateStatus, Statuses
<1>8. ASSUME NEW s \in Sends, EmitState(s) PROVE PipeShape'
  BY <1>8 DEF EmitState, Goto
<1>9. ASSUME NEW s \in Sends, Exit(s) PROVE PipeShape'
  BY <1>9 DEF Exit
<1>10. CASE StopRun
  BY <1>10 DEF StopRun
<1>11. CASE StopWait
  BY <1>11 DEF StopWait, Kill
<1>12. CASE StopWrite
  BY <1>12 DEF StopWrite, UpdateStatus, Statuses
<1>13. CASE PageStop
  BY <1>13 DEF PageStop
<1>14. CASE ReadCopy
  BY <1>14 DEF ReadCopy
<1>15. CASE WriteCopy
  BY <1>15 DEF WriteCopy
<1>16. CASE Crash
  BY <1>16 DEF Crash, Statuses
<1>17. CASE UNCHANGED vars
  BY <1>17 DEF vars
<1> QED
  BY <1>1, <1>2, <1>3, <1>4, <1>5, <1>6, <1>7, <1>8, <1>9, <1>10, <1>11, <1>12, <1>13,
     <1>14, <1>15, <1>16, <1>17 DEF Next

LEMMA PipeReachStays == NoChildDistinct /\ PipeInv /\ [Next]_vars => Reach'
<1> SUFFICES ASSUME NoChildDistinct, PipeInv, [Next]_vars PROVE Reach'
  OBVIOUS
<1>0. PipeShape'
  BY PipeShapeStays DEF PipeInv
<1> USE <1>0 DEF NoChildDistinct, PipeShape, Places, Reach, Removals, Stops, Ends, Works,
                 Early, counters
<1>a. Reach /\ Removals /\ Stops /\ Ends
  BY DEF PipeInv
<1>1. ASSUME NEW s \in Sends, Send(s) PROVE Reach'
  BY <1>a, <1>1 DEF Send, Goto, UpdateStatus
<1>2. ASSUME NEW s \in Sends, Spawn(s) PROVE Reach'
  BY <1>a, <1>2 DEF Spawn, Goto
<1>3. ASSUME NEW s \in Sends, Insert(s) PROVE Reach'
  BY <1>a, <1>3 DEF Insert, Goto, Kill
<1>4. ASSUME NEW s \in Sends, ReadTurnFailed(s) PROVE Reach'
  BY <1>a, <1>4 DEF ReadTurnFailed
<1>5. ASSUME NEW s \in Sends, IdleTimeout(s) PROVE Reach'
  BY <1>a, <1>5 DEF IdleTimeout, Goto, Kill
<1>6. ASSUME NEW s \in Sends, Remove(s) PROVE Reach'
  BY <1>a, <1>6 DEF Remove, Goto
<1>7. ASSUME NEW s \in Sends, WriteStatus(s) PROVE Reach'
  BY <1>a, <1>7 DEF WriteStatus, Goto, UpdateStatus, Result
<1>8. ASSUME NEW s \in Sends, EmitState(s) PROVE Reach'
  BY <1>a, <1>8 DEF EmitState, Goto
<1>9. ASSUME NEW s \in Sends, Exit(s) PROVE Reach'
  BY <1>a, <1>9 DEF Exit
<1>10. CASE StopRun
  BY <1>a, <1>10 DEF StopRun
<1>11. CASE StopWait
  BY <1>a, <1>11 DEF StopWait, Kill
<1>12. CASE StopWrite
  BY <1>a, <1>12 DEF StopWrite, UpdateStatus
<1>13. CASE PageStop
  BY <1>a, <1>13 DEF PageStop
<1>14. CASE ReadCopy
  BY <1>a, <1>14 DEF ReadCopy
<1>15. CASE WriteCopy
  BY <1>a, <1>15 DEF WriteCopy
<1>16. CASE Crash
  BY <1>a, <1>16 DEF Crash
<1>17. CASE UNCHANGED vars
  BY <1>a, <1>17 DEF vars
<1> QED
  BY <1>1, <1>2, <1>3, <1>4, <1>5, <1>6, <1>7, <1>8, <1>9, <1>10, <1>11, <1>12, <1>13,
     <1>14, <1>15, <1>16, <1>17 DEF Next

LEMMA RemovalsStay == NoChildDistinct /\ PipeInv /\ [Next]_vars => Removals'
<1> SUFFICES ASSUME NoChildDistinct, PipeInv, [Next]_vars PROVE Removals'
  OBVIOUS
<1>0. PipeShape'
  BY PipeShapeStays DEF PipeInv
<1> USE <1>0 DEF NoChildDistinct, PipeShape, Places, Reach, Removals, Stops, Works, Early,
                 counters
<1>a. Reach /\ Removals /\ Stops /\ Ends
  BY DEF PipeInv
<1>1. ASSUME NEW s \in Sends, Send(s) PROVE Removals'
  BY <1>a, <1>1 DEF Send, Goto, UpdateStatus
<1>2. ASSUME NEW s \in Sends, Spawn(s) PROVE Removals'
  BY <1>a, <1>2 DEF Spawn, Goto
<1>3. ASSUME NEW s \in Sends, Insert(s) PROVE Removals'
  BY <1>a, <1>3 DEF Insert, Goto, Kill
<1>4. ASSUME NEW s \in Sends, ReadTurnFailed(s) PROVE Removals'
  BY <1>a, <1>4 DEF ReadTurnFailed
<1>5. ASSUME NEW s \in Sends, IdleTimeout(s) PROVE Removals'
  BY <1>a, <1>5 DEF IdleTimeout, Goto, Kill
<1>6. ASSUME NEW s \in Sends, Remove(s) PROVE Removals'
  BY <1>a, <1>6 DEF Remove, Goto
<1>7. ASSUME NEW s \in Sends, WriteStatus(s) PROVE Removals'
  BY <1>a, <1>7 DEF WriteStatus, Goto, UpdateStatus, Result
<1>8. ASSUME NEW s \in Sends, EmitState(s) PROVE Removals'
  BY <1>a, <1>8 DEF EmitState, Goto
<1>9. ASSUME NEW s \in Sends, Exit(s) PROVE Removals'
  BY <1>a, <1>9 DEF Exit
<1>10. CASE StopRun
  BY <1>a, <1>10 DEF StopRun
<1>11. CASE StopWait
  BY <1>a, <1>11 DEF StopWait, Kill
<1>12. CASE StopWrite
  BY <1>a, <1>12 DEF StopWrite, UpdateStatus
<1>13. CASE PageStop
  BY <1>a, <1>13 DEF PageStop
<1>14. CASE ReadCopy
  BY <1>a, <1>14 DEF ReadCopy
<1>15. CASE WriteCopy
  BY <1>a, <1>15 DEF WriteCopy
<1>16. CASE Crash
  BY <1>a, <1>16 DEF Crash
<1>17. CASE UNCHANGED vars
  BY <1>a, <1>17 DEF vars
<1> QED
  BY <1>1, <1>2, <1>3, <1>4, <1>5, <1>6, <1>7, <1>8, <1>9, <1>10, <1>11, <1>12, <1>13,
     <1>14, <1>15, <1>16, <1>17 DEF Next

LEMMA StopsStay == NoChildDistinct /\ PipeInv /\ [Next]_vars => Stops'
<1> SUFFICES ASSUME NoChildDistinct, PipeInv, [Next]_vars PROVE Stops'
  OBVIOUS
<1>0. PipeShape'
  BY PipeShapeStays DEF PipeInv
<1> USE <1>0 DEF NoChildDistinct, PipeShape, Places, Reach, Stops, Works, Early, counters
<1>a. Reach /\ Removals /\ Stops /\ Ends
  BY DEF PipeInv
<1>1. ASSUME NEW s \in Sends, Send(s) PROVE Stops'
  BY <1>a, <1>1 DEF Send, Goto, UpdateStatus
<1>2. ASSUME NEW s \in Sends, Spawn(s) PROVE Stops'
  BY <1>a, <1>2 DEF Spawn, Goto
<1>3. ASSUME NEW s \in Sends, Insert(s) PROVE Stops'
  BY <1>a, <1>3 DEF Insert, Goto, Kill
<1>4. ASSUME NEW s \in Sends, ReadTurnFailed(s) PROVE Stops'
  BY <1>a, <1>4 DEF ReadTurnFailed
<1>5. ASSUME NEW s \in Sends, IdleTimeout(s) PROVE Stops'
  BY <1>a, <1>5 DEF IdleTimeout, Goto, Kill
<1>6. ASSUME NEW s \in Sends, Remove(s) PROVE Stops'
  BY <1>a, <1>6 DEF Remove, Goto
<1>7. ASSUME NEW s \in Sends, WriteStatus(s) PROVE Stops'
  BY <1>a, <1>7 DEF WriteStatus, Goto, UpdateStatus, Result
<1>8. ASSUME NEW s \in Sends, EmitState(s) PROVE Stops'
  BY <1>a, <1>8 DEF EmitState, Goto
<1>9. ASSUME NEW s \in Sends, Exit(s) PROVE Stops'
  BY <1>a, <1>9 DEF Exit
<1>10. CASE StopRun
  BY <1>a, <1>10 DEF StopRun
<1>11. CASE StopWait
  BY <1>a, <1>11 DEF StopWait, Kill
<1>12. CASE StopWrite
  BY <1>a, <1>12 DEF StopWrite, UpdateStatus
<1>13. CASE PageStop
  BY <1>a, <1>13 DEF PageStop
<1>14. CASE ReadCopy
  BY <1>a, <1>14 DEF ReadCopy
<1>15. CASE WriteCopy
  BY <1>a, <1>15 DEF WriteCopy
<1>16. CASE Crash
  BY <1>a, <1>16 DEF Crash
<1>17. CASE UNCHANGED vars
  BY <1>a, <1>17 DEF vars
<1> QED
  BY <1>1, <1>2, <1>3, <1>4, <1>5, <1>6, <1>7, <1>8, <1>9, <1>10, <1>11, <1>12, <1>13,
     <1>14, <1>15, <1>16, <1>17 DEF Next

LEMMA AloneStays == NoChildDistinct /\ PipeInv /\ [Next]_vars => Alone'
<1> SUFFICES ASSUME NoChildDistinct, PipeInv, [Next]_vars PROVE Alone'
  OBVIOUS
<1>0. PipeShape'
  BY PipeShapeStays DEF PipeInv
<1> USE <1>0 DEF NoChildDistinct, PipeShape, Places, Alone, Under, counters
<1>a. Alone
  BY DEF PipeInv
<1>1. ASSUME NEW s \in Sends, Send(s) PROVE Alone'
  BY <1>a, <1>1 DEF Send, Goto, UpdateStatus
<1>2. ASSUME NEW s \in Sends, Spawn(s) PROVE Alone'
  BY <1>a, <1>2 DEF Spawn, Goto
<1>3. ASSUME NEW s \in Sends, Insert(s) PROVE Alone'
  BY <1>a, <1>3 DEF Insert, Goto, Kill
<1>4. ASSUME NEW s \in Sends, ReadTurnFailed(s) PROVE Alone'
  BY <1>a, <1>4 DEF ReadTurnFailed
<1>5. ASSUME NEW s \in Sends, IdleTimeout(s) PROVE Alone'
  BY <1>a, <1>5 DEF IdleTimeout, Goto, Kill
<1>6. ASSUME NEW s \in Sends, Remove(s) PROVE Alone'
  BY <1>a, <1>6 DEF Remove, Goto
<1>7. ASSUME NEW s \in Sends, WriteStatus(s) PROVE Alone'
  BY <1>a, <1>7 DEF WriteStatus, Goto, UpdateStatus, Result
<1>8. ASSUME NEW s \in Sends, EmitState(s) PROVE Alone'
  BY <1>a, <1>8 DEF EmitState, Goto
<1>9. ASSUME NEW s \in Sends, Exit(s) PROVE Alone'
  BY <1>a, <1>9 DEF Exit
<1>10. CASE StopRun
  BY <1>a, <1>10 DEF StopRun
<1>11. CASE StopWait
  BY <1>a, <1>11 DEF StopWait, Kill
<1>12. CASE StopWrite
  BY <1>a, <1>12 DEF StopWrite, UpdateStatus
<1>13. CASE PageStop
  BY <1>a, <1>13 DEF PageStop
<1>14. CASE ReadCopy
  BY <1>a, <1>14 DEF ReadCopy
<1>15. CASE WriteCopy
  BY <1>a, <1>15 DEF WriteCopy
<1>16. CASE Crash
  BY <1>a, <1>16 DEF Crash
<1>17. CASE UNCHANGED vars
  BY <1>a, <1>17 DEF vars
<1> QED
  BY <1>1, <1>2, <1>3, <1>4, <1>5, <1>6, <1>7, <1>8, <1>9, <1>10, <1>11, <1>12, <1>13,
     <1>14, <1>15, <1>16, <1>17 DEF Next

LEMMA EndsStay == NoChildDistinct /\ PipeInv /\ [Next]_vars => Ends'
<1> SUFFICES ASSUME NoChildDistinct, PipeInv, [Next]_vars PROVE Ends'
  OBVIOUS
<1>0. PipeShape'
  BY PipeShapeStays DEF PipeInv
<1> USE <1>0 DEF NoChildDistinct, PipeShape, Places, Reach, Removals, Alone, Under, Ends,
                 Works, Early, Statuses, counters
<1>a. Reach /\ Removals /\ Alone /\ Ends
  BY DEF PipeInv
<1>1. ASSUME NEW s \in Sends, Send(s) PROVE Ends'
  BY <1>a, <1>1 DEF Send, Goto, UpdateStatus
<1>2. ASSUME NEW s \in Sends, Spawn(s) PROVE Ends'
  BY <1>a, <1>2 DEF Spawn, Goto
<1>3. ASSUME NEW s \in Sends, Insert(s) PROVE Ends'
  BY <1>a, <1>3 DEF Insert, Goto, Kill
<1>4. ASSUME NEW s \in Sends, ReadTurnFailed(s) PROVE Ends'
  BY <1>a, <1>4 DEF ReadTurnFailed
<1>5. ASSUME NEW s \in Sends, IdleTimeout(s) PROVE Ends'
  BY <1>a, <1>5 DEF IdleTimeout, Goto, Kill
<1>6. ASSUME NEW s \in Sends, Remove(s) PROVE Ends'
  BY <1>a, <1>6 DEF Remove, Goto
<1>7. ASSUME NEW s \in Sends, WriteStatus(s) PROVE Ends'
  BY <1>a, <1>7 DEF WriteStatus, Goto, UpdateStatus, Result
<1>8. ASSUME NEW s \in Sends, EmitState(s) PROVE Ends'
  BY <1>a, <1>8 DEF EmitState, Goto
<1>9. ASSUME NEW s \in Sends, Exit(s) PROVE Ends'
  BY <1>a, <1>9 DEF Exit
<1>10. CASE StopRun
  BY <1>a, <1>10 DEF StopRun
<1>11. CASE StopWait
  BY <1>a, <1>11 DEF StopWait, Kill
<1>12. CASE StopWrite
  BY <1>a, <1>12 DEF StopWrite, UpdateStatus
<1>13. CASE PageStop
  BY <1>a, <1>13 DEF PageStop
<1>14. CASE ReadCopy
  BY <1>a, <1>14 DEF ReadCopy
<1>15. CASE WriteCopy
  BY <1>a, <1>15 DEF WriteCopy
<1>16. CASE Crash
  BY <1>a, <1>16 DEF Crash
<1>17. CASE UNCHANGED vars
  BY <1>a, <1>17 DEF vars
<1> QED
  BY <1>1, <1>2, <1>3, <1>4, <1>5, <1>6, <1>7, <1>8, <1>9, <1>10, <1>11, <1>12, <1>13,
     <1>14, <1>15, <1>16, <1>17 DEF Next

LEMMA VerdictStays == NoChildDistinct /\ PipeInv /\ [Next]_vars => OwnVerdict'
<1> SUFFICES ASSUME NoChildDistinct, PipeInv, [Next]_vars PROVE OwnVerdict'
  OBVIOUS
<1>0. PipeShape'
  BY PipeShapeStays DEF PipeInv
<1> USE <1>0 DEF NoChildDistinct, PipeShape, Places, Reach, Ends, OwnVerdict, Works, Early,
                 counters
<1>a. Reach /\ Removals /\ Ends /\ OwnVerdict
  BY DEF PipeInv
<1>1. ASSUME NEW s \in Sends, Send(s) PROVE OwnVerdict'
  BY <1>a, <1>1 DEF Send, Goto, UpdateStatus
<1>2. ASSUME NEW s \in Sends, Spawn(s) PROVE OwnVerdict'
  BY <1>a, <1>2 DEF Spawn, Goto
<1>3. ASSUME NEW s \in Sends, Insert(s) PROVE OwnVerdict'
  BY <1>a, <1>3 DEF Insert, Goto, Kill
<1>4. ASSUME NEW s \in Sends, ReadTurnFailed(s) PROVE OwnVerdict'
  BY <1>a, <1>4 DEF ReadTurnFailed
<1>5. ASSUME NEW s \in Sends, IdleTimeout(s) PROVE OwnVerdict'
  BY <1>a, <1>5 DEF IdleTimeout, Goto, Kill
<1>6. ASSUME NEW s \in Sends, Remove(s) PROVE OwnVerdict'
  BY <1>a, <1>6 DEF Remove, Goto
<1>7. ASSUME NEW s \in Sends, WriteStatus(s) PROVE OwnVerdict'
  BY <1>a, <1>7 DEF WriteStatus, Goto, UpdateStatus, Result
<1>8. ASSUME NEW s \in Sends, EmitState(s) PROVE OwnVerdict'
  BY <1>a, <1>8 DEF EmitState, Goto
<1>9. ASSUME NEW s \in Sends, Exit(s) PROVE OwnVerdict'
  BY <1>a, <1>9 DEF Exit
<1>10. CASE StopRun
  BY <1>a, <1>10 DEF StopRun
<1>11. CASE StopWait
  BY <1>a, <1>11 DEF StopWait, Kill
<1>12. CASE StopWrite
  BY <1>a, <1>12 DEF StopWrite, UpdateStatus
<1>13. CASE PageStop
  BY <1>a, <1>13 DEF PageStop
<1>14. CASE ReadCopy
  BY <1>a, <1>14 DEF ReadCopy
<1>15. CASE WriteCopy
  BY <1>a, <1>15 DEF WriteCopy
<1>16. CASE Crash
  BY <1>a, <1>16 DEF Crash
<1>17. CASE UNCHANGED vars
  BY <1>a, <1>17 DEF vars
<1> QED
  BY <1>1, <1>2, <1>3, <1>4, <1>5, <1>6, <1>7, <1>8, <1>9, <1>10, <1>11, <1>12, <1>13,
     <1>14, <1>15, <1>16, <1>17 DEF Next

LEMMA ShowsStay == NoChildDistinct /\ PipeInv /\ [Next]_vars => Shows'
<1> SUFFICES ASSUME NoChildDistinct, PipeInv, [Next]_vars PROVE Shows'
  OBVIOUS
<1>0. PipeShape'
  BY PipeShapeStays DEF PipeInv
<1> USE <1>0 DEF NoChildDistinct, PipeShape, Places, Reach, Stops, Alone, Ends, Shows,
                 Under, Writing, Early, Phase, Statuses, Metas_, counters
<1>a. Reach /\ Stops /\ Alone /\ Ends /\ Shows
  BY DEF PipeInv
<1>1. ASSUME NEW s \in Sends, Send(s) PROVE Shows'
  <2>1. meta'.status = "Running" /\ shown' = "running" /\ UNCHANGED <<stop, rewound, verdict>>
    BY <1>1 DEF Send, UpdateStatus
  <2>2. refused' \/ s \in Under'
    BY <1>1 DEF Send, Goto
  <2>3. ~refused' => task'[s] \in Writing
    BY <1>1 DEF Send, Goto
  <2>4. ~late' => stop.child = NoChild
    BY <1>a, <1>1 DEF Send
  <2>5. ASSUME mixed' = {}, ~refused', NEW t \in Sends, task'[t] = "emit" PROVE FALSE
    BY <1>1, <2>5 DEF Send, Goto
  <2> QED
    BY <2>1, <2>2, <2>3, <2>4, <2>5
<1>2. ASSUME NEW s \in Sends, Spawn(s) PROVE Shows'
  BY <1>a, <1>2 DEF Spawn, Goto
<1>3. ASSUME NEW s \in Sends, Insert(s) PROVE Shows'
  BY <1>a, <1>3 DEF Insert, Goto, Kill
<1>4. ASSUME NEW s \in Sends, ReadTurnFailed(s) PROVE Shows'
  BY <1>a, <1>4 DEF ReadTurnFailed
<1>5. ASSUME NEW s \in Sends, IdleTimeout(s) PROVE Shows'
  BY <1>a, <1>5 DEF IdleTimeout, Goto, Kill
<1>6. ASSUME NEW s \in Sends, Remove(s) PROVE Shows'
  BY <1>a, <1>6 DEF Remove, Goto
<1>7. ASSUME NEW s \in Sends, WriteStatus(s) PROVE Shows'
  BY <1>a, <1>7 DEF WriteStatus, Goto, UpdateStatus, Result
<1>8. ASSUME NEW s \in Sends, EmitState(s) PROVE Shows'
  BY <1>a, <1>8 DEF EmitState, Goto
<1>9. ASSUME NEW s \in Sends, Exit(s) PROVE Shows'
  BY <1>a, <1>9 DEF Exit
<1>10. CASE StopRun
  BY <1>a, <1>10 DEF StopRun
<1>11. CASE StopWait
  BY <1>a, <1>11 DEF StopWait, Kill
<1>12. CASE StopWrite
  <2>1. /\ meta'.status = "Stopped" /\ stop'.step = "none" /\ stop'.child = NoChild
        /\ UNCHANGED <<task, shown, refused, rewound, verdict, mixed, timedOut>>
    BY <1>12 DEF StopWrite, UpdateStatus
  <2>2. Under' = Under
    BY <2>1
  <2>3. ASSUME ~rewound, ~refused, ~late', mixed = {}
        PROVE  /\ Under = {} => shown = "stopped"
               /\ \A s \in Sends : task[s] = "emit" => verdict[s] = "Stopped"
    <3>1. /\ stop.child \in Sends /\ stop.child \in taken \ timedOut
          /\ Under \subseteq {stop.child}
          /\ task[stop.child] = "over" => shown = "stopped"
      BY <1>a, <1>12, <2>3 DEF StopWrite
    <3>2. task[stop.child] \notin Early
      BY <1>a, <3>1
    <3>3. Under = {} => task[stop.child] = "over"
      BY <3>1, <3>2
    <3>4. \A s \in Sends : task[s] = "emit" => s = stop.child
      BY <3>1
    <3> QED
      BY <1>a, <2>3, <3>1, <3>3, <3>4
  <2> QED
    BY <1>a, <2>1, <2>2, <2>3
<1>13. CASE PageStop
  BY <1>a, <1>13 DEF PageStop
<1>14. CASE ReadCopy
  BY <1>a, <1>14 DEF ReadCopy
<1>15. CASE WriteCopy
  <2>1. /\ UNCHANGED <<task, stop, shown, refused, late, verdict, mixed, timedOut>>
        /\ ~rewound' => ~rewound /\ meta' = meta
    BY <1>15 DEF WriteCopy
  <2>2. Under' = Under
    BY <2>1
  <2> QED
    BY <1>a, <2>1, <2>2
<1>16. CASE Crash
  BY <1>a, <1>16 DEF Crash
<1>17. CASE UNCHANGED vars
  BY <1>a, <1>17 DEF vars
<1> QED
  BY <1>1, <1>2, <1>3, <1>4, <1>5, <1>6, <1>7, <1>8, <1>9, <1>10, <1>11, <1>12, <1>13,
     <1>14, <1>15, <1>16, <1>17 DEF Next

LEMMA NumbersStay == NoChildDistinct /\ PipeInv /\ [Next]_vars => Numbers'
<1> SUFFICES ASSUME NoChildDistinct, PipeInv, [Next]_vars PROVE Numbers'
  OBVIOUS
<1>0. PipeShape'
  BY PipeShapeStays DEF PipeInv
<1> USE <1>0 DEF NoChildDistinct, PipeShape, Places, Numbers, OwnCards, Metas_, counters
<1>a. Numbers
  BY DEF PipeInv
<1>1. ASSUME NEW s \in Sends, Send(s) PROVE Numbers'
  BY <1>a, <1>1 DEF Send, Goto, UpdateStatus
<1>2. ASSUME NEW s \in Sends, Spawn(s) PROVE Numbers'
  <2>1. CASE seqOf' = seqOf /\ meta' = meta
    BY <1>a, <1>2, <2>1 DEF Spawn
  <2>2. CASE seqOf' = [seqOf EXCEPT ![s] = meta.seq + 1] /\ meta' = [meta EXCEPT !.seq = @ + 1]
    <3>1. meta.seq \in Nat /\ meta'.seq = meta.seq + 1
      BY <2>2 DEF PipeInv
    <3>2. \A t \in Sends : seqOf[t] \in Nat /\ seqOf'[t] = IF t = s THEN meta.seq + 1 ELSE seqOf[t]
      BY <2>2 DEF PipeInv
    <3>3. rewound' = rewound
      BY <1>2 DEF Spawn
    <3> HIDE DEF PipeShape
    <3> QED
      BY <1>a, <3>1, <3>2, <3>3
  <2> QED
    BY <1>2, <2>1, <2>2 DEF Spawn
<1>3. ASSUME NEW s \in Sends, Insert(s) PROVE Numbers'
  BY <1>a, <1>3 DEF Insert, Goto, Kill
<1>4. ASSUME NEW s \in Sends, ReadTurnFailed(s) PROVE Numbers'
  BY <1>a, <1>4 DEF ReadTurnFailed
<1>5. ASSUME NEW s \in Sends, IdleTimeout(s) PROVE Numbers'
  BY <1>a, <1>5 DEF IdleTimeout, Goto, Kill
<1>6. ASSUME NEW s \in Sends, Remove(s) PROVE Numbers'
  BY <1>a, <1>6 DEF Remove, Goto
<1>7. ASSUME NEW s \in Sends, WriteStatus(s) PROVE Numbers'
  BY <1>a, <1>7 DEF WriteStatus, Goto, UpdateStatus, Result
<1>8. ASSUME NEW s \in Sends, EmitState(s) PROVE Numbers'
  BY <1>a, <1>8 DEF EmitState, Goto
<1>9. ASSUME NEW s \in Sends, Exit(s) PROVE Numbers'
  BY <1>a, <1>9 DEF Exit
<1>10. CASE StopRun
  BY <1>a, <1>10 DEF StopRun
<1>11. CASE StopWait
  BY <1>a, <1>11 DEF StopWait, Kill
<1>12. CASE StopWrite
  BY <1>a, <1>12 DEF StopWrite, UpdateStatus
<1>13. CASE PageStop
  BY <1>a, <1>13 DEF PageStop
<1>14. CASE ReadCopy
  BY <1>a, <1>14 DEF ReadCopy
<1>15. CASE WriteCopy
  BY <1>a, <1>15 DEF WriteCopy
<1>16. CASE Crash
  BY <1>a, <1>16 DEF Crash
<1>17. CASE UNCHANGED vars
  BY <1>a, <1>17 DEF vars
<1> QED
  BY <1>1, <1>2, <1>3, <1>4, <1>5, <1>6, <1>7, <1>8, <1>9, <1>10, <1>11, <1>12, <1>13,
     <1>14, <1>15, <1>16, <1>17 DEF Next

LEMMA PipeStays == NoChildDistinct /\ PipeInv /\ [Next]_vars => PipeInv'
<1> SUFFICES ASSUME NoChildDistinct, PipeInv, [Next]_vars PROVE PipeInv'
  OBVIOUS
<1>1. PipeShape'
  BY PipeShapeStays DEF PipeInv
<1>2. Reach' /\ Removals' /\ Stops'
  BY PipeReachStays, RemovalsStay, StopsStay
<1>3. Alone' /\ Ends' /\ OwnVerdict'
  BY AloneStays, EndsStay, VerdictStays
<1>4. Shows' /\ Numbers'
  BY ShowsStay, NumbersStay
<1> QED
  BY <1>1, <1>2, <1>3, <1>4 DEF PipeInv

LEMMA PipeSuffices ==
  NoChildDistinct /\ PipeInv => OwnVerdict /\ Settled /\ OneProcess /\ OwnCards
<1> SUFFICES ASSUME NoChildDistinct, PipeInv
             PROVE  OwnVerdict /\ Settled /\ OneProcess /\ OwnCards
  OBVIOUS
<1> USE DEF PipeInv
<1>1. Settled
  <2>1. \A s \in Sends : task[s] \in Writing => s \in Under
    BY DEF Writing, Under
  <2> QED
    BY <2>1 DEF Settled, Shows
<1>2. ASSUME NEW s \in Sends, Works(s)
      PROVE  /\ slot = s \/ stop.child = s \/ task[s] = "insert"
                \/ \E o \in Sends \ {s} : removed[o] = s
    BY <1>2 DEF Reach, Removals, NoChildDistinct
<1>3. OneProcess
  BY <1>2 DEF OneProcess
<1>4. OwnCards
  BY DEF Numbers, OwnCards
<1> QED
  BY <1>1, <1>3, <1>4

-----------------------------------------------------------------------------
(* The web server *)

\* Callers are nobody else, and no configuration asks for port 0.
WebAssumption == {Web!Launch, Web!Nobody} \cap Callers = {} /\ Asked \subseteq Nat \ {0}

AnyTask == [gen : Nat \ {0}, port : Nat, conf : Asked, state : Web!TaskState,
            cancelled : BOOLEAN, aborted : BOOLEAN]

WebShape ==
  /\ settings \in [enabled : BOOLEAN, conf : Asked]
  /\ holder \in Callers \cup {Web!Launch, Web!Nobody}
  /\ serve \in [at : {"idle", "cancel", "wait", "abort", "reset", "bind", "spawn", "save"},
                conf : Asked \cup {Web!Off}]
  /\ generation \in Nat /\ port \in Nat /\ handle \in {0, generation}
  /\ tasks \subseteq AnyTask
  /\ slipped \in BOOLEAN /\ unsaved \in BOOLEAN

\* What the holder of the lock has done so far.
Progress ==
  /\ holder = Web!Nobody <=> serve.at = "idle"
  /\ holder = Web!Launch =>
       serve.at \in {"bind", "spawn"} /\ settings = [enabled |-> TRUE, conf |-> serve.conf]
  /\ ~launched => holder = Web!Nobody /\ handle = 0
  /\ serve.at \in {"reset", "bind", "spawn"} => handle = 0
  /\ serve.at \in {"wait", "abort"} => handle # 0
  /\ serve.at \in {"bind", "spawn"} => serve.conf # Web!Off
  /\ serve.at = "bind" => port = 0
  /\ serve.at = "save" => (handle = 0 <=> serve.conf = Web!Off)

\* The port is that of the server, unless a task has slipped.
PortFits ==
  /\ serve.at \in {"idle", "cancel", "save"} /\ handle = 0 => port = 0
  /\ ~slipped /\ serve.at \in {"idle", "cancel", "save"} /\ handle # 0 => port # 0
  /\ ~slipped /\ serve.at = "spawn" => port # 0

\* Every task but that of the server has been given up, and the server's serves
\* until it is cancelled.
TasksFit ==
  /\ \A t \in tasks : t.gen <= generation
  /\ \A t, u \in tasks : t.gen = u.gen => t = u
  /\ \A t \in tasks : t.gen # handle => t.aborted
  /\ \A t \in tasks : t.gen = handle =>
       /\ serve.at = "abort" => t.aborted
       /\ serve.at \notin {"wait", "abort"} =>
            /\ t.state = "serving" /\ ~t.aborted /\ ~t.cancelled
            /\ ~slipped => t.port = port
       /\ serve.at = "save" => t.conf = serve.conf
       /\ ~unsaved /\ serve.at # "save" => settings = [enabled |-> TRUE, conf |-> t.conf]
  /\ ~slipped => \A t \in tasks : t.state = "resetting" =>
                   t.gen = handle /\ serve.at \in {"wait", "abort"}

WebInv == WebShape /\ Progress /\ PortFits /\ TasksFit

LEMMA WebStarts == WebAssumption /\ Web!Init => WebInv
<1> SUFFICES ASSUME WebAssumption, Web!Init PROVE WebInv
  OBVIOUS
<1> USE DEF WebAssumption, Web!Init, Web!Idle, Web!Off, Web!Launch, Web!Nobody
<1>1. WebShape
  BY DEF WebShape
<1>2. Progress /\ PortFits
  BY DEF Progress, PortFits
<1>3. TasksFit
  BY DEF TasksFit
<1> QED
  BY <1>1, <1>2, <1>3 DEF WebInv

LEMMA WebShapeStays == WebAssumption /\ WebInv /\ [Web!Next]_Web!vars => WebShape'
<1> SUFFICES ASSUME WebAssumption, WebInv, [Web!Next]_Web!vars PROVE WebShape'
  OBVIOUS
<1>a. WebShape /\ Progress
  BY DEF WebInv
<1> USE <1>a DEF WebAssumption, WebShape, Progress, AnyTask, Web!TaskState, Web!Idle,
                 Web!Off, Web!Launch, Web!Nobody, Web!shared
<1>1. CASE Web!Start
  BY <1>1 DEF Web!Start
<1>2. ASSUME NEW c \in Callers, NEW conf \in Asked \cup {Web!Off}, Web!Restart(c, conf)
      PROVE  WebShape'
  BY <1>2 DEF Web!Restart
<1>3. CASE Web!Cancel
  <2>1. ASSUME NEW t \in tasks PROVE [t EXCEPT !.cancelled = @ \/ t.gen = generation] \in AnyTask
    OBVIOUS
  <2>2. tasks' \subseteq AnyTask
    BY <1>3, <2>1 DEF Web!Cancel
  <2> QED
    BY <1>3, <2>2 DEF Web!Cancel, Web!Unchosen
<1>4. CASE Web!TaskEnded
  BY <1>4 DEF Web!TaskEnded, Web!Unchosen, Web!Gone
<1>5. CASE Web!Abort
  <2>1. ASSUME NEW t \in tasks PROVE [t EXCEPT !.aborted = @ \/ t.gen = handle] \in AnyTask
    OBVIOUS
  <2>2. tasks' \subseteq AnyTask
    BY <1>5, <2>1 DEF Web!Abort
  <2> QED
    BY <1>5, <2>2 DEF Web!Abort, Web!Unchosen
<1>6. CASE Web!GiveUp
  BY <1>6 DEF Web!GiveUp
<1>7. CASE Web!Reset
  BY <1>7 DEF Web!Reset, Web!Unchosen
<1>8. ASSUME NEW offset \in 0 .. 2, Web!Bind(offset) PROVE WebShape'
  BY <1>8 DEF Web!Bind
<1>9. CASE Web!BindFails
  BY <1>9 DEF Web!BindFails
<1>10. CASE Web!Spawn
  <2>1. handle = 0 /\ serve.conf \in Asked
    BY <1>10 DEF Web!Spawn
  <2>2. [gen |-> generation + 1, port |-> port, conf |-> serve.conf, state |-> "serving",
         cancelled |-> FALSE, aborted |-> FALSE] \in AnyTask
    BY <2>1
  <2>3. tasks' \subseteq AnyTask
    BY <1>10, <2>2 DEF Web!Spawn
  <2> QED
    BY <1>10, <2>3 DEF Web!Spawn
<1>11. CASE Web!Save
  BY <1>11 DEF Web!Save, Web!Saved
<1>12. CASE Web!SaveFails
  BY <1>12 DEF Web!SaveFails
<1>13. ASSUME NEW t \in tasks, Web!CloseListener(t) PROVE WebShape'
  BY <1>13 DEF Web!CloseListener, Web!Becomes, Web!Unserved
<1>14. ASSUME NEW t \in tasks, Web!LastConnection(t) PROVE WebShape'
  BY <1>14 DEF Web!LastConnection, Web!Becomes, Web!Unserved
<1>15. ASSUME NEW t \in tasks, Web!Drop(t) PROVE WebShape'
  BY <1>15 DEF Web!Drop, Web!Unserved
<1>16. ASSUME NEW t \in tasks, Web!Check(t) PROVE WebShape'
  <2>1. [t EXCEPT !.state = "resetting"] \in AnyTask
    OBVIOUS
  <2> QED
    BY <1>16, <2>1 DEF Web!Check, Web!Becomes, Web!Stale, Web!Unserved
<1>17. ASSUME NEW t \in tasks, Web!ResetPort(t) PROVE WebShape'
  BY <1>17 DEF Web!ResetPort, Web!Unserved
<1>18. CASE UNCHANGED Web!vars
  BY <1>18 DEF Web!vars
<1> QED
  BY <1>1, <1>2, <1>3, <1>4, <1>5, <1>6, <1>7, <1>8, <1>9, <1>10, <1>11, <1>12, <1>13,
     <1>14, <1>15, <1>16, <1>17, <1>18 DEF Web!Next

LEMMA ProgressStays == WebAssumption /\ WebInv /\ [Web!Next]_Web!vars => Progress'
<1> SUFFICES ASSUME WebAssumption, WebInv, [Web!Next]_Web!vars PROVE Progress'
  OBVIOUS
<1>a. WebShape /\ Progress /\ PortFits
  BY DEF WebInv
<1> USE <1>a DEF WebAssumption, WebShape, Progress, PortFits, Web!Idle, Web!Off, Web!Launch,
                 Web!Nobody, AnyTask, Web!shared
<1>1. CASE Web!Start
  <2>1. settings.enabled => settings = [enabled |-> TRUE, conf |-> settings.conf]
    OBVIOUS
  <2> QED
    BY <1>1, <2>1 DEF Web!Start
<1>2. ASSUME NEW c \in Callers, NEW conf \in Asked \cup {Web!Off}, Web!Restart(c, conf)
      PROVE  Progress'
  BY <1>2 DEF Web!Restart
<1>3. CASE Web!Cancel
  BY <1>3 DEF Web!Cancel, Web!Unchosen
<1>4. CASE Web!TaskEnded
  BY <1>4 DEF Web!TaskEnded, Web!Unchosen, Web!Gone
<1>5. CASE Web!Abort
  BY <1>5 DEF Web!Abort, Web!Unchosen
<1>6. CASE Web!GiveUp
  BY <1>6 DEF Web!GiveUp
<1>7. CASE Web!Reset
  BY <1>7 DEF Web!Reset, Web!Unchosen
<1>8. ASSUME NEW offset \in 0 .. 2, Web!Bind(offset) PROVE Progress'
  BY <1>8 DEF Web!Bind
<1>9. CASE Web!BindFails
  BY <1>9 DEF Web!BindFails
<1>10. CASE Web!Spawn
  BY <1>10 DEF Web!Spawn
<1>11. CASE Web!Save
  BY <1>11 DEF Web!Save, Web!Saved
<1>12. CASE Web!SaveFails
  BY <1>12 DEF Web!SaveFails
<1>13. ASSUME NEW t \in tasks, Web!CloseListener(t) PROVE Progress'
  BY <1>13 DEF Web!CloseListener, Web!Becomes, Web!Unserved
<1>14. ASSUME NEW t \in tasks, Web!LastConnection(t) PROVE Progress'
  BY <1>14 DEF Web!LastConnection, Web!Becomes, Web!Unserved
<1>15. ASSUME NEW t \in tasks, Web!Drop(t) PROVE Progress'
  BY <1>15 DEF Web!Drop, Web!Unserved
<1>16. ASSUME NEW t \in tasks, Web!Check(t) PROVE Progress'
  BY <1>16 DEF Web!Check, Web!Becomes, Web!Stale, Web!Unserved
<1>17. ASSUME NEW t \in tasks, Web!ResetPort(t) PROVE Progress'
  BY <1>17 DEF Web!ResetPort, Web!Unserved
<1>18. CASE UNCHANGED Web!vars
  BY <1>18 DEF Web!vars
<1> QED
  BY <1>1, <1>2, <1>3, <1>4, <1>5, <1>6, <1>7, <1>8, <1>9, <1>10, <1>11, <1>12, <1>13,
     <1>14, <1>15, <1>16, <1>17, <1>18 DEF Web!Next

LEMMA PortFitsStays == WebAssumption /\ WebInv /\ [Web!Next]_Web!vars => PortFits'
<1> SUFFICES ASSUME WebAssumption, WebInv, [Web!Next]_Web!vars PROVE PortFits'
  OBVIOUS
<1>a. WebShape /\ Progress /\ PortFits /\ TasksFit
  BY DEF WebInv
<1> USE <1>a DEF WebAssumption, WebShape, Progress, PortFits, TasksFit, AnyTask, Web!Idle,
                 Web!Off, Web!Launch, Web!Nobody, Web!shared
<1>1. CASE Web!Start
  BY <1>1 DEF Web!Start
<1>2. ASSUME NEW c \in Callers, NEW conf \in Asked \cup {Web!Off}, Web!Restart(c, conf)
      PROVE  PortFits'
  BY <1>2 DEF Web!Restart
<1>3. CASE Web!Cancel
  BY <1>3 DEF Web!Cancel, Web!Unchosen
<1>4. CASE Web!TaskEnded
  BY <1>4 DEF Web!TaskEnded, Web!Unchosen, Web!Gone
<1>5. CASE Web!Abort
  BY <1>5 DEF Web!Abort, Web!Unchosen
<1>6. CASE Web!GiveUp
  BY <1>6 DEF Web!GiveUp
<1>7. CASE Web!Reset
  BY <1>7 DEF Web!Reset, Web!Unchosen
<1>8. ASSUME NEW offset \in 0 .. 2, Web!Bind(offset) PROVE PortFits'
  BY <1>8 DEF Web!Bind
<1>9. CASE Web!BindFails
  BY <1>9 DEF Web!BindFails
<1>10. CASE Web!Spawn
  BY <1>10 DEF Web!Spawn
<1>11. CASE Web!Save
  BY <1>11 DEF Web!Save, Web!Saved
<1>12. CASE Web!SaveFails
  BY <1>12 DEF Web!SaveFails
<1>13. ASSUME NEW t \in tasks, Web!CloseListener(t) PROVE PortFits'
  BY <1>13 DEF Web!CloseListener, Web!Becomes, Web!Unserved
<1>14. ASSUME NEW t \in tasks, Web!LastConnection(t) PROVE PortFits'
  BY <1>14 DEF Web!LastConnection, Web!Becomes, Web!Unserved
<1>15. ASSUME NEW t \in tasks, Web!Drop(t) PROVE PortFits'
  BY <1>15 DEF Web!Drop, Web!Unserved
<1>16. ASSUME NEW t \in tasks, Web!Check(t) PROVE PortFits'
  BY <1>16 DEF Web!Check, Web!Becomes, Web!Stale, Web!Unserved
<1>17. ASSUME NEW t \in tasks, Web!ResetPort(t) PROVE PortFits'
  BY <1>17 DEF Web!ResetPort, Web!Unserved
<1>18. CASE UNCHANGED Web!vars
  BY <1>18 DEF Web!vars
<1> QED
  BY <1>1, <1>2, <1>3, <1>4, <1>5, <1>6, <1>7, <1>8, <1>9, <1>10, <1>11, <1>12, <1>13,
     <1>14, <1>15, <1>16, <1>17, <1>18 DEF Web!Next

LEMMA TasksFitStays == WebAssumption /\ WebInv /\ [Web!Next]_Web!vars => TasksFit'
<1> SUFFICES ASSUME WebAssumption, WebInv, [Web!Next]_Web!vars PROVE TasksFit'
  OBVIOUS
<1>a. WebShape /\ Progress /\ PortFits /\ TasksFit
  BY DEF WebInv
<1> USE <1>a DEF WebAssumption, WebShape, Progress, PortFits, TasksFit, AnyTask, Web!Idle,
                 Web!Off, Web!Launch, Web!Nobody, Web!shared
<1>1. CASE Web!Start
  BY <1>1 DEF Web!Start
<1>2. ASSUME NEW c \in Callers, NEW conf \in Asked \cup {Web!Off}, Web!Restart(c, conf)
      PROVE  TasksFit'
  BY <1>2 DEF Web!Restart
<1>3. CASE Web!Cancel
  BY <1>3 DEF Web!Cancel, Web!Unchosen
<1>4. CASE Web!TaskEnded
  BY <1>4 DEF Web!TaskEnded, Web!Unchosen, Web!Gone
<1>5. CASE Web!Abort
  BY <1>5 DEF Web!Abort, Web!Unchosen
<1>6. CASE Web!GiveUp
  BY <1>6 DEF Web!GiveUp
<1>7. CASE Web!Reset
  BY <1>7 DEF Web!Reset, Web!Unchosen
<1>8. ASSUME NEW offset \in 0 .. 2, Web!Bind(offset) PROVE TasksFit'
  BY <1>8 DEF Web!Bind
<1>9. CASE Web!BindFails
  BY <1>9 DEF Web!BindFails
<1>10. CASE Web!Spawn
  <2> DEFINE new == [gen |-> generation + 1, port |-> port, conf |-> serve.conf,
                     state |-> "serving", cancelled |-> FALSE, aborted |-> FALSE]
  <2>1. /\ handle = 0 /\ serve.conf # Web!Off /\ generation \in Nat
        /\ generation' = generation + 1 /\ handle' = generation + 1
        /\ tasks' = tasks \cup {new} /\ UNCHANGED <<settings, port, unsaved, slipped>>
    BY <1>10 DEF Web!Spawn
  <2>2. \/ holder = Web!Launch /\ serve'.at = "idle"
        \/ holder # Web!Launch /\ serve'.at = "save" /\ serve'.conf = serve.conf
    BY <1>10 DEF Web!Spawn
  <2>0. serve.at = "spawn"
    BY <1>10 DEF Web!Spawn
  <2>3. \A t \in tasks : /\ t.gen \in Nat /\ t.gen <= generation /\ t.gen # handle'
                          /\ t.aborted /\ (~slipped => t.state # "resetting")
    BY <2>0, <2>1
  <2>4. /\ new.gen = generation + 1 /\ new.port = port /\ new.conf = serve.conf
        /\ new.state = "serving" /\ ~new.cancelled /\ ~new.aborted
    OBVIOUS
  <2>5. holder = Web!Launch => settings = [enabled |-> TRUE, conf |-> serve.conf]
    OBVIOUS
  <2> HIDE DEF new
  <2>6. \A t \in tasks' : t \in tasks \/ t = new
    BY <2>1
  <2>7. /\ \A t \in tasks' : t.gen <= generation'
        /\ \A t, u \in tasks' : t.gen = u.gen => t = u
        /\ \A t \in tasks' : t.gen # handle' => t.aborted
    BY <2>1, <2>3, <2>4, <2>6
  <2>8. \A t \in tasks' : t.gen = handle' => t = new
    BY <2>1, <2>3, <2>6
  <2> QED
    BY <2>1, <2>2, <2>3, <2>4, <2>5, <2>6, <2>7, <2>8
<1>11. CASE Web!Save
  BY <1>11 DEF Web!Save, Web!Saved
<1>12. CASE Web!SaveFails
  BY <1>12 DEF Web!SaveFails
<1>13. ASSUME NEW t \in tasks, Web!CloseListener(t) PROVE TasksFit'
  BY <1>13 DEF Web!CloseListener, Web!Becomes, Web!Unserved
<1>14. ASSUME NEW t \in tasks, Web!LastConnection(t) PROVE TasksFit'
  BY <1>14 DEF Web!LastConnection, Web!Becomes, Web!Unserved
<1>15. ASSUME NEW t \in tasks, Web!Drop(t) PROVE TasksFit'
  BY <1>15 DEF Web!Drop, Web!Unserved
<1>16. ASSUME NEW t \in tasks, Web!Check(t) PROVE TasksFit'
  BY <1>16 DEF Web!Check, Web!Becomes, Web!Stale, Web!Unserved
<1>17. ASSUME NEW t \in tasks, Web!ResetPort(t) PROVE TasksFit'
  BY <1>17 DEF Web!ResetPort, Web!Unserved
<1>18. CASE UNCHANGED Web!vars
  BY <1>18 DEF Web!vars
<1> QED
  BY <1>1, <1>2, <1>3, <1>4, <1>5, <1>6, <1>7, <1>8, <1>9, <1>10, <1>11, <1>12, <1>13,
     <1>14, <1>15, <1>16, <1>17, <1>18 DEF Web!Next

LEMMA WebStays == WebAssumption /\ WebInv /\ [Web!Next]_Web!vars => WebInv'
BY WebShapeStays, ProgressStays, PortFitsStays, TasksFitStays DEF WebInv

LEMMA WebSuffices == WebInv => Web!StatusHonest /\ Web!OneServer /\ Web!SettingsFollow
<1> SUFFICES ASSUME WebInv PROVE Web!StatusHonest /\ Web!OneServer /\ Web!SettingsFollow
  OBVIOUS
<1> USE DEF WebInv
<1>1. Web!StatusHonest
  BY DEF Web!StatusHonest, Web!Settled, Progress, PortFits, TasksFit
<1>2. Web!OneServer
  <2> DEFINE open == {t \in Web!Listening : ~t.aborted}
  <2>1. \A t, u \in open : t = u
    BY DEF Web!Listening, TasksFit
  <2>2. open = {} \/ \E t \in open : open = {t}
    BY <2>1
  <2>3. Cardinality(open) \in {0, 1}
    BY <2>2, FS_EmptySet, FS_Singleton
  <2> QED
    BY <2>3 DEF Web!OneServer, Web!Cardinality, Cardinality
<1>3. Web!SettingsFollow
  BY DEF Web!SettingsFollow, Web!Settled, Progress, TasksFit
<1> QED
  BY <1>1, <1>2, <1>3

-----------------------------------------------------------------------------
(* The credentials *)

\* The mark for "nobody" is no process, and a process does one thing about the gate.
UsersDistinct ==
  /\ Login!None \notin Login!Users
  /\ Gated \cap Passing = {} /\ Gated \cap Ungated = {} /\ Passing \cap Ungated = {}

CredShape ==
  /\ server \in Nat
  /\ file \in [token : Nat, fresh : BOOLEAN]
  /\ user \in [Login!Users -> [stage : {"idle", "asks", "runs", "needs", "rotated", "works",
                                        "refused"}, token : Nat]]

\* A short process that runs holds the gate.
Holds ==
  \A u \in Gated : user[u].stage \notin {"idle", "asks"} => gate = u

\* Without a race or a loss one process at most is about a refresh, and
\* between its reading and its writing nobody else finds a fresh token.
Refreshing == {u \in Login!Users : user[u].stage \in {"needs", "rotated"}}

Sole ==
  ~lost /\ raced = "never" =>
    /\ \A u, v \in Refreshing : u = v
    /\ \A u \in Refreshing : ~file.fresh /\ user[u].token = server
    /\ \A u \in Refreshing : user[u].stage = "needs" => file.token = server
    /\ Refreshing = {} => file.token = server

CredInv == CredShape /\ Holds /\ Sole /\ Login!GateHolds

LEMMA CredStarts == UsersDistinct /\ Login!Init => CredInv
<1> SUFFICES ASSUME UsersDistinct, Login!Init PROVE CredInv
  OBVIOUS
<1> USE DEF UsersDistinct, Login!Init, Login!Idle
<1>1. CredShape
  BY DEF CredShape
<1>2. Holds /\ Login!GateHolds
  BY DEF Holds, Login!GateHolds, Login!Users
<1>3. Refreshing = {}
  BY DEF Refreshing
<1>4. Sole
  BY <1>3 DEF Sole
<1> QED
  BY <1>1, <1>2, <1>4 DEF CredInv

LEMMA CredStays == UsersDistinct /\ CredInv /\ [Login!Next]_Login!vars => CredInv'
<1> SUFFICES ASSUME UsersDistinct, CredInv, [Login!Next]_Login!vars PROVE CredInv'
  OBVIOUS
<1>a. CredShape /\ Holds /\ Sole /\ Login!GateHolds
  BY DEF CredInv
<1> USE <1>a DEF UsersDistinct, CredShape, Holds, Sole, Refreshing, Login!GateHolds,
                 Login!tokenVars, Login!Users
<1>1. ASSUME NEW u \in Login!Users, Login!Ask(u) PROVE CredInv'
  BY <1>1 DEF Login!Ask, CredInv
<1>2. ASSUME NEW u \in Login!Users, Login!TakeGate(u) PROVE CredInv'
  BY <1>2 DEF Login!TakeGate, CredInv
<1>3. ASSUME NEW u \in Login!Users, Login!PassGate(u) PROVE CredInv'
  BY <1>3 DEF Login!PassGate, CredInv
<1>4. ASSUME NEW u \in Login!Users, Login!Exit(u) PROVE CredInv'
  BY <1>4 DEF Login!Exit, Login!Ends, Login!Idle, CredInv
<1>5. ASSUME NEW u \in Login!Users, Login!Kill(u) PROVE CredInv'
  BY <1>5 DEF Login!Kill, Login!Ends, Login!Idle, CredInv
<1>6. ASSUME NEW u \in Login!Users, Login!ReadCredentials(u) PROVE CredInv'
  <2>1. CredShape'
    BY <1>6 DEF Login!ReadCredentials
  <2>2. Holds'
    BY <1>6 DEF Login!ReadCredentials
  <2>3. Login!GateHolds'
    BY <1>6 DEF Login!ReadCredentials, Login!Holders
  <2>4. Sole'
    <3>1. CASE file.fresh
      BY <1>6, <3>1 DEF Login!ReadCredentials
    <3>2. CASE ~file.fresh /\ Login!Holders(u) = {}
      BY <1>6, <3>2 DEF Login!ReadCredentials, Login!Holders
    <3>3. CASE ~file.fresh /\ Login!Holders(u) # {}
      BY <1>6, <3>3 DEF Login!ReadCredentials, Login!Holders
    <3> QED
      BY <3>1, <3>2, <3>3
  <2> QED
    BY <2>1, <2>2, <2>3, <2>4 DEF CredInv
<1>7. ASSUME NEW u \in Login!Users, Login!Rotate(u) PROVE CredInv'
  BY <1>7 DEF Login!Rotate, CredInv
<1>8. ASSUME NEW u \in Login!Users, Login!Refused(u) PROVE CredInv'
  <2>0. file' = file \/ file' = [token |-> 0, fresh |-> FALSE]
    BY <1>8 DEF Login!Refused
  <2>1. CredShape'
    <3>a. file \in [token : Nat, fresh : BOOLEAN]
      OBVIOUS
    <3>b. [token |-> 0, fresh |-> FALSE] \in [token : Nat, fresh : BOOLEAN]
      OBVIOUS
    <3>1. file' \in [token : Nat, fresh : BOOLEAN]
      BY <2>0, <3>a, <3>b
    <3>2. server' = server /\ user' = [user EXCEPT ![u].stage = "refused"]
      BY <1>8 DEF Login!Refused
    <3> QED
      BY <3>1, <3>2
  <2>2. Holds' /\ Login!GateHolds'
    BY <1>8 DEF Login!Refused
  <2>3. lost \/ raced # "never"
    BY <1>8 DEF Login!Refused
  <2>4. Sole'
    BY <1>8, <2>3 DEF Login!Refused
  <2> QED
    BY <2>1, <2>2, <2>4 DEF CredInv
<1>9. ASSUME NEW u \in Login!Users, Login!WriteCredentials(u) PROVE CredInv'
  BY <1>9 DEF Login!WriteCredentials, CredInv
<1>10. CASE Login!Expire
  BY <1>10 DEF Login!Expire, CredInv
<1>11. CASE UNCHANGED Login!vars
  BY <1>11 DEF Login!vars, CredInv
<1> QED
  BY <1>1, <1>2, <1>3, <1>4, <1>5, <1>6, <1>7, <1>8, <1>9, <1>10, <1>11 DEF Login!Next

LEMMA CredSuffices == CredInv => Login!LoggedIn /\ Login!GateHolds
BY DEF CredInv, CredShape, Sole, Refreshing, Login!LoggedIn, Login!InFlight, Login!GateHolds

-----------------------------------------------------------------------------
(* The environment of a process *)

\* The mark for "none" is no platform.
PlatformsDistinct == Env!None \notin Env!Platforms

ProvShape ==
  /\ chosen \in Env!Settings
  /\ run \in [agent : {Env!None, "claude", "codex"}, platform : Env!Platforms \cup {Env!None},
              host : {Env!None, "name", "forwards", "bare"}, model : BOOLEAN,
              status : {"pending", "running", "failed"}]
  /\ run.agent = Env!None => chosen.host # "gone" /\ process = Env!NotGiven

\* What was given to the process is what the settings and the run, as they
\* still are, give it.
GivenNow ==
  \/ process = Env!NotGiven
  \/ \E kind \in Env!Kinds : ~Env!HostMissing /\ process = Env!Given(kind)

ProvInv == ProvShape /\ GivenNow

LEMMA ProvStarts == PlatformsDistinct /\ Env!Init => ProvInv
<1> SUFFICES ASSUME PlatformsDistinct, Env!Init PROVE ProvInv
  OBVIOUS
<1>1. Env!FullEntry \in Env!Entries
  BY DEF Env!FullEntry, Env!Entries, Env!Headers
<1>2. \A s \in Env!SomeSettings : s \in Env!Settings /\ s.host # "gone"
  <2>1. TAKE s \in Env!SomeSettings
  <2>2. PICK m \in {"api", "cli"}, g \in Env!Credentials, p \in Env!Platforms,
             a \in Env!Platforms \cup {Env!None},
             e \in {x \in Env!Entries : x.hasKey \/ x.header = "key"} \cup {Env!Absent},
             h \in {"forwards", "bare"} :
          s = [mode |-> m, global |-> g, url |-> g # Env!None,
               entries |-> [[q \in Env!Platforms |-> Env!Absent] EXCEPT ![p] = e],
               active |-> a, host |-> h, agentModel |-> FALSE, perm |-> Env!None,
               provider |-> Env!None]
    BY DEF Env!SomeSettings
  <2>3. [[q \in Env!Platforms |-> Env!Absent] EXCEPT ![p] = e]
          \in [Env!Platforms -> Env!Entries \cup {Env!Absent}]
    OBVIOUS
  <2>4. (g # Env!None) \in BOOLEAN
    OBVIOUS
  <2> QED
    BY <2>2, <2>3, <2>4 DEF Env!Settings
<1>3. chosen \in Env!SomeSettings
  BY DEF Env!Init
<1> QED
  BY <1>2, <1>3 DEF Env!Init, ProvInv, ProvShape, GivenNow

LEMMA ProvStays == PlatformsDistinct /\ ProvInv /\ [Env!Next]_Env!vars => ProvInv'
<1> SUFFICES ASSUME PlatformsDistinct, ProvInv, [Env!Next]_Env!vars PROVE ProvInv'
  OBVIOUS
<1>a. ProvShape /\ GivenNow
  BY DEF ProvInv
\* What is given looks at the settings, the shell and the run, but not at
\* the run's status.
<1>b. ASSUME chosen' = chosen, shell' = shell,
             run' = run \/ \E x : run' = [run EXCEPT !.status = x]
      PROVE  /\ Env!Kinds' = Env!Kinds /\ Env!HostMissing' = Env!HostMissing
             /\ \A kind : Env!Given(kind)' = Env!Given(kind)
  <2>1. /\ run'.agent = run.agent /\ run'.platform = run.platform
        /\ run'.host = run.host /\ run'.model = run.model
    BY <1>a, <1>b DEF ProvShape
  <2>2. Env!Host' = Env!Host /\ Env!HostMissing' = Env!HostMissing /\ Env!Kinds' = Env!Kinds
    BY <1>b, <2>1 DEF Env!Host, Env!HostMissing, Env!Kinds
  <2>3. Env!EffectivePlatform' = Env!EffectivePlatform /\ Env!GlobalAuth' = Env!GlobalAuth
    BY <1>b, <2>1, <2>2 DEF Env!EffectivePlatform, Env!GlobalAuth
  <2>4. \A p : Env!Loaded(p)' = Env!Loaded(p)
    BY <1>b DEF Env!Loaded
  <2>5. \A p : Env!Placeholder(p)' = Env!Placeholder(p)
    BY <2>4 DEF Env!Placeholder
  <2>6. \A p : Env!PlatformAuth(p)' = Env!PlatformAuth(p)
    BY <2>2, <2>3, <2>4, <2>5 DEF Env!PlatformAuth
  <2>7. \A auth : Env!WithShell(auth)' = Env!WithShell(auth)
    BY <1>b, <2>2 DEF Env!WithShell
  <2>8. \A e, auth : Env!ModelArg(e, auth)' = Env!ModelArg(e, auth)
    BY <1>b DEF Env!ModelArg, Env!SettingsModel
  <2>9. \A kind, e : Env!ClaudeProcess(kind, e)' = Env!ClaudeProcess(kind, e)
    BY <2>2, <2>3, <2>6, <2>7, <2>8 DEF Env!ClaudeProcess
  <2>10. \A kind : /\ Env!CodexModel(kind)' = Env!CodexModel(kind)
                   /\ Env!Sandbox(kind)' = Env!Sandbox(kind)
                   /\ Env!ExecFlags(kind)' = Env!ExecFlags(kind)
    BY <1>b, <2>1 DEF Env!CodexModel, Env!SettingsModel, Env!Sandbox, Env!SandboxFor,
                      Env!ReadOnlyAsked, Env!ExecFlags
  <2>11. \A kind : Env!CodexProcess(kind)' = Env!CodexProcess(kind)
    BY <1>b, <2>10 DEF Env!CodexProcess
  <2> QED
    BY <2>1, <2>2, <2>9, <2>11 DEF Env!Given
<1>1. CASE Env!CreateRun
  <2>1. ProvShape'
    BY <1>1, <1>a DEF Env!CreateRun, ProvShape, Env!Settings
  <2>2. process' = Env!NotGiven
    BY <1>1, <1>a DEF Env!CreateRun, ProvShape
  <2> QED
    BY <2>1, <2>2 DEF ProvInv, GivenNow
<1>2. ASSUME NEW kind \in Env!Claude \cup Env!Codex, Env!Launch(kind) PROVE ProvInv'
  <2>1. ProvShape'
    <3>1. run.agent # Env!None
      BY <1>2 DEF Env!Launch, Env!Kinds, Env!None
    <3>2. run' = [run EXCEPT !.status = "running"] /\ chosen' = chosen
      BY <1>2 DEF Env!Launch
    <3> QED
      BY <3>1, <3>2, <1>a DEF ProvShape
  <2>2. /\ Env!Kinds' = Env!Kinds /\ Env!HostMissing' = Env!HostMissing
        /\ Env!Given(kind)' = Env!Given(kind)
    BY <1>2, <1>b DEF Env!Launch
  <2> QED
    BY <1>2, <2>1, <2>2 DEF Env!Launch, ProvInv, GivenNow
<1>3. ASSUME NEW kind \in Env!Claude \cup Env!Codex, Env!FailPreflight(kind) PROVE ProvInv'
  <2>1. ProvShape'
    BY <1>3, <1>a DEF Env!FailPreflight, ProvShape, Env!Kinds
  <2>2. /\ Env!Kinds' = Env!Kinds /\ Env!HostMissing' = Env!HostMissing
        /\ \A k : Env!Given(k)' = Env!Given(k)
    BY <1>3, <1>b DEF Env!FailPreflight
  <2> QED
    BY <1>3, <1>a, <2>1, <2>2 DEF Env!FailPreflight, ProvInv, GivenNow
<1>4. CASE Env!Edit
  <2>1. chosen' \in Env!Settings
    <3>1. chosen \in Env!Settings
      BY <1>a DEF ProvShape
    <3>2. ASSUME NEW p \in Env!Platforms, chosen' = [chosen EXCEPT !.entries[p] = Env!Absent]
          PROVE  chosen' \in Env!Settings
      <4>1. [chosen.entries EXCEPT ![p] = Env!Absent]
              \in [Env!Platforms -> Env!Entries \cup {Env!Absent}]
        BY <3>1 DEF Env!Settings
      <4>2. chosen' = [chosen EXCEPT !.entries = [chosen.entries EXCEPT ![p] = Env!Absent]]
        BY <3>1, <3>2 DEF Env!Settings
      <4> QED
        BY <3>1, <4>1, <4>2 DEF Env!Settings
    <3>3. \/ \E m \in {"api", "cli"} : chosen' = [chosen EXCEPT !.mode = m]
          \/ \E p \in Env!Platforms \cup {Env!None} : chosen' = [chosen EXCEPT !.active = p]
          \/ \E h \in {"gone", "bare"} : chosen' = [chosen EXCEPT !.host = h]
          \/ \E x \in {"plan", "bypass"} : chosen' = [chosen EXCEPT !.perm = x]
          \/ \E x \in {"pinned", "open", "keyless"} : chosen' = [chosen EXCEPT !.provider = x]
          \/ chosen' = [chosen EXCEPT !.agentModel = TRUE]
          => chosen' \in Env!Settings
      BY <3>1 DEF Env!Settings
    <3> QED
      BY <1>4, <3>2, <3>3 DEF Env!Edit
  <2>2. ProvShape'
    BY <1>4, <1>a, <2>1 DEF Env!Edit, ProvShape
  <2> QED
    BY <1>4, <2>2 DEF Env!Edit, ProvInv, GivenNow
<1>5. CASE Env!ProviderFails
  <2>1. /\ Env!Kinds' = Env!Kinds /\ Env!HostMissing' = Env!HostMissing
        /\ \A k : Env!Given(k)' = Env!Given(k)
    BY <1>5, <1>b DEF Env!ProviderFails
  <2> QED
    BY <1>5, <1>a, <2>1 DEF Env!ProviderFails, ProvInv, GivenNow, ProvShape
<1>6. CASE UNCHANGED Env!vars
  <2>1. /\ Env!Kinds' = Env!Kinds /\ Env!HostMissing' = Env!HostMissing
        /\ \A k : Env!Given(k)' = Env!Given(k)
    BY <1>6, <1>b DEF Env!vars
  <2> QED
    BY <1>6, <1>a, <2>1 DEF Env!vars, ProvInv, GivenNow, ProvShape
<1> QED
  BY <1>1, <1>2, <1>3, <1>4, <1>5, <1>6 DEF Env!Next

LEMMA ProvSuffices ==
  PlatformsDistinct /\ ProvInv => Env!ProviderEnvTrue
<1> SUFFICES ASSUME PlatformsDistinct, ProvInv
             PROVE  Env!ProviderEnvTrue
  OBVIOUS
<1> USE DEF Env!ProviderEnvTrue
<1>1. Env!OneCredential
  BY DEF Env!OneCredential, Env!Seen
<1>2. CASE process = Env!NotGiven
  BY <1>1, <1>2 DEF Env!NotGiven, Env!OwnUrl, Env!OwnPlatform, Env!StaysRemote,
                    Env!OwnModel, Env!CodexFits, Env!ClaudeStarted, Env!Claude, Env!Codex,
                    Env!None
<1>3. ASSUME NEW kind \in Env!Kinds, ~Env!HostMissing, process = Env!Given(kind)
      PROVE  Env!OwnUrl /\ Env!OwnPlatform /\ Env!StaysRemote /\ Env!OwnModel /\ Env!CodexFits
  <2>1. CASE kind \in Env!Claude
    <3> DEFINE auth == Env!PlatformAuth(Env!EffectivePlatform)
               full == Env!WithShell(auth)
               explicit == kind = "start" /\ run.model
    <3>1. /\ process.kind = kind /\ process.place = Env!Host /\ process.header = full.header
          /\ process.whose = full.whose /\ process.url = full.url
          /\ process.tiers = Env!Tiers(full)
          /\ process.model = Env!ModelArg(explicit, auth)
      BY <1>3, <2>1 DEF Env!Given, Env!ClaudeProcess
    <3>2. /\ Env!Host \in {"local", "forwards", "bare"}
          /\ Env!Host = "local" <=> run.host = Env!None
      BY <1>3 DEF Env!Host, Env!HostMissing, ProvInv, ProvShape, Env!Settings, Env!None
    <3>3. /\ Env!Host = "bare" \/ chosen.mode = "cli" => auth = Env!NoAuth
          /\ auth.whose = "platform" =>
               auth.url \in
                 {"platform", IF run.platform \in Env!Known THEN "default" ELSE Env!None}
          /\ auth.whose = "global" => auth.url \in {"global", Env!None}
          /\ auth.whose = "placeholder" => auth.url \in {"platform", "default"}
          /\ auth.url \in {"platform", "default"} =>
               auth.whose \in {"platform", "placeholder"}
          /\ auth.whose \in {"platform", "placeholder"} /\ run.platform \in Presets =>
               auth.header = "token"
          /\ auth.whose # "shell"
          /\ /\ chosen.mode = "api" /\ Env!Host # "bare" /\ run.platform # Env!None
             /\ run.platform \in Keyless \/ chosen.entries[run.platform].hasKey
             => auth.whose \in {"platform", "placeholder"}
      BY <3>2 DEF Env!PlatformAuth, Env!EffectivePlatform, Env!GlobalAuth, Env!Placeholder,
                  Env!Default, Env!Loaded, Env!NoAuth, Env!Auth, ProvInv, ProvShape,
                  Env!Settings, PlatformsDistinct, Env!Platforms, Env!Known, Env!None,
                  Env!Entries, Env!Absent, Env!Headers, Env!Credentials
    <3>4. /\ full = auth \/ (chosen.mode = "cli" /\ Env!Host = "local" /\ full.whose = "shell"
                             /\ full.url = auth.url)
          /\ full.models = auth.models
      BY <3>3 DEF Env!WithShell, Env!NoAuth, Env!Auth
    <3>5. Env!OwnUrl
      BY <3>1, <3>2, <3>3, <3>4 DEF Env!OwnUrl, Env!NoAuth, Env!Auth, Env!None
    <3>6. Env!OwnPlatform
      BY <3>1, <3>2, <3>3, <3>4 DEF Env!OwnPlatform, Env!NoAuth, Env!Auth, Env!None
    <3>7. Env!StaysRemote
      BY <3>1, <3>2 DEF Env!StaysRemote
    <3>8. Env!OwnModel
      BY <3>1, <3>4 DEF Env!OwnModel, Env!ModelArg, Env!SettingsModel, Env!Tiers, Env!None
    <3>9. Env!CodexFits
      BY <2>1, <3>1 DEF Env!CodexFits, Env!Codex, Env!Claude
    <3> QED
      BY <3>5, <3>6, <3>7, <3>8, <3>9
  <2>2. CASE kind \in Env!Codex
    <3>1. /\ process.kind = kind /\ process.model = Env!CodexModel(kind)
          /\ process.sandbox = Env!Sandbox(kind)
          /\ process.flags =
               IF kind \in {"exec", "execResume"} THEN Env!ExecFlags(kind) ELSE {}
          /\ process.url = IF chosen.provider # Env!None THEN "provider" ELSE Env!None
      BY <1>3, <2>2 DEF Env!Given, Env!CodexProcess, Env!Codex, Env!Claude
    <3>2. Env!CodexFits
      BY <3>1, <2>2 DEF Env!CodexFits, Env!CodexModel, Env!Sandbox, Env!SandboxFor,
           Env!ReadOnlyAsked, Env!ExecFlags, Env!Resumes, Env!SettingsModel, Env!Codex,
           Env!None
    <3>3. ~Env!ClaudeStarted /\ process.kind # "start"
      BY <3>1, <2>2 DEF Env!ClaudeStarted, Env!Claude, Env!Codex
    <3> QED
      BY <3>2, <3>3 DEF Env!OwnUrl, Env!OwnPlatform, Env!StaysRemote, Env!OwnModel
  <2> QED
    BY <2>1, <2>2 DEF Env!Kinds
<1> QED
  BY <1>1, <1>2, <1>3 DEF ProvInv, GivenNow

=============================================================================
