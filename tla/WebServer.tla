----------------------------- MODULE WebServer -----------------------------
(***************************************************************************)
(* The life of the embedded web server (web_server/mod.rs): its start with   *)
(* the application, its restart with another configuration, its stop, and    *)
(* what the application shows of it meanwhile.                              *)
(*                                                                         *)
(* Starts and stops take turns (WebServerLock), but the task of a server     *)
(* that was stopped may outlive the stop, which waits for it only so long.  *)
(* A configuration is the port it asks for; addresses, origins and tunnels   *)
(* behave as the port does.  Who may log in is not modelled.               *)
(***************************************************************************)
EXTENDS Integers, FiniteSets

CONSTANTS
  Callers,     \* calls of restart_web_server at the same time
  Asked,       \* the ports a configuration may ask for, which are not 0
  MaxServers,  \* bound: servers spawned
  MaxRefused   \* bound: ports taken by others, saves that fail

VARIABLES
  settings,    \* the saved configuration
  holder,      \* who holds WebServerLock: callers, start_server
  serve,       \* what the holder does
  generation,  \* WebServerGeneration
  port,        \* EffectiveWebPort
  warned,      \* WebServerWarning
  handle,      \* WebServerHandle: the number of the task, or 0
  tasks,       \* the serve tasks
  refused,
  launched,    \* start_server has been called
  unsaved,     \* history: the last save has failed
  slipped      \* history: a task that was given up took itself for the last

shared == <<generation, port, warned, handle, tasks>>
vars == <<settings, holder, serve, shared, refused, launched, unsaved, slipped>>

Launch == "launch"    \* the call of start_server
Nobody == "nobody"
Off == 0              \* what the call that disables the server asks for

(* A serve task.  It owns its listener until it has seen its cancellation,   *)
(* serves its last connections, then resets the port unless it is stale.    *)
TaskState == {"serving", "draining", "ending", "resetting"}
Task == [gen : 1..MaxServers, port : Nat, conf : Asked, state : TaskState,
         cancelled : BOOLEAN, aborted : BOOLEAN]
Idle == [at |-> "idle", conf |-> 0]

TypeOK ==
  /\ settings.enabled \in BOOLEAN /\ settings.conf \in Asked
  /\ holder \in Callers \cup {Launch, Nobody}
  /\ serve.at \in {"idle", "cancel", "wait", "abort", "reset", "bind", "spawn", "save"}
  /\ generation \in 0..MaxServers /\ port \in Nat /\ handle \in 0..MaxServers
  /\ tasks \subseteq Task
  /\ {warned, launched, unsaved, slipped} \subseteq BOOLEAN
  /\ refused \in 0..MaxRefused

(* The application begins; its settings may be good or not. *)
Init ==
  /\ settings \in [enabled : BOOLEAN, conf : Asked]
  /\ holder = Nobody /\ serve = Idle
  /\ generation = 0 /\ port = 0 /\ handle = 0 /\ tasks = {}
  /\ warned = FALSE
  /\ refused = 0
  /\ launched = FALSE /\ unsaved = FALSE /\ slipped = FALSE

Listening == {t \in tasks : t.state = "serving"}

-----------------------------------------------------------------------------
(* start_server, before a page can ask for anything: the settings are read,  *)
(* and warned of.                                                          *)
Start ==
  /\ ~launched
  /\ launched' = TRUE
  /\ IF settings.enabled
     THEN holder' = Launch /\ serve' = [at |-> "bind", conf |-> settings.conf] /\ warned' \in BOOLEAN
     ELSE UNCHANGED <<holder, serve, warned>>
  /\ UNCHANGED <<settings, generation, port, handle, tasks, refused, unsaved, slipped>>

(* restart_with_config.  A configuration that is not valid changes nothing. *)
Restart(c, conf) ==
  /\ launched /\ holder = Nobody
  /\ holder' = c
  /\ serve' = [at |-> "cancel", conf |-> conf]
  /\ warned' = IF conf = Off THEN warned ELSE FALSE
  /\ UNCHANGED <<settings, generation, port, handle, tasks, refused, launched, unsaved, slipped>>

Unchosen == <<settings, holder, refused, launched, unsaved, slipped>>

(* stop_server_inner *)
Cancel ==
  /\ serve.at = "cancel"
  /\ tasks' = {[t EXCEPT !.cancelled = @ \/ t.gen = generation] : t \in tasks}
  /\ serve' = [serve EXCEPT !.at = IF handle = 0 THEN "reset" ELSE "wait"]
  /\ UNCHANGED <<generation, port, warned, handle>> /\ UNCHANGED Unchosen

Gone(gen) == ~ \E t \in tasks : t.gen = gen

TaskEnded ==
  /\ serve.at \in {"wait", "abort"} /\ Gone(handle)
  /\ handle' = 0
  /\ serve' = [serve EXCEPT !.at = "reset"]
  /\ UNCHANGED <<generation, port, warned, tasks>> /\ UNCHANGED Unchosen

(* Five seconds have passed: there are still connections. *)
Abort ==
  /\ serve.at = "wait" /\ ~Gone(handle)
  /\ tasks' = {[t EXCEPT !.aborted = @ \/ t.gen = handle] : t \in tasks}
  /\ serve' = [serve EXCEPT !.at = "abort"]
  /\ UNCHANGED <<generation, port, warned, handle>> /\ UNCHANGED Unchosen

(* And another second. *)
GiveUp ==
  /\ serve.at = "abort" /\ ~Gone(handle)
  /\ handle' = 0
  /\ serve' = [serve EXCEPT !.at = "reset"]
  /\ slipped' = (slipped \/ \E t \in tasks : t.gen = handle /\ t.state = "resetting")
  /\ UNCHANGED <<settings, holder, generation, port, warned, tasks, refused, launched, unsaved>>

(* The rest of stop_server_inner, and what follows for the caller. *)
Reset ==
  /\ serve.at = "reset"
  /\ port' = 0 /\ warned' = FALSE
  /\ serve' = [serve EXCEPT !.at = IF serve.conf = Off THEN "save" ELSE "bind"]
  /\ UNCHANGED <<generation, handle, tasks>> /\ UNCHANGED Unchosen

(* bind_with_fallback: the port or one of the next two.  A listener of ours  *)
(* that is still open counts as taken, and others take a port at times.     *)
Free(n) == n \notin {t.port : t \in Listening}

Bind(offset) ==
  /\ serve.at = "bind" /\ generation < MaxServers
  /\ Free(serve.conf + offset)
  /\ LET others == Cardinality({k \in 0..offset - 1 : Free(serve.conf + k)})
     IN /\ refused + others <= MaxRefused
        /\ refused' = refused + others
  /\ port' = serve.conf + offset
  /\ serve' = [serve EXCEPT !.at = "spawn"]
  /\ UNCHANGED <<settings, holder, generation, warned, handle, tasks, launched, unsaved, slipped>>

BindFails ==
  /\ serve.at = "bind" /\ refused < MaxRefused
  /\ refused' = refused + 1
  /\ holder' = Nobody /\ serve' = Idle
  /\ UNCHANGED <<settings, shared, launched, unsaved, slipped>>

(* spawn_server: the next generation.  start_server is done then. *)
Spawn ==
  /\ serve.at = "spawn"
  /\ generation' = generation + 1
  /\ tasks' = tasks \cup {[gen |-> generation + 1, port |-> port, conf |-> serve.conf,
                           state |-> "serving", cancelled |-> FALSE, aborted |-> FALSE]}
  /\ handle' = generation + 1
  /\ IF holder = Launch THEN holder' = Nobody /\ serve' = Idle
     ELSE UNCHANGED holder /\ serve' = [serve EXCEPT !.at = "save"]
  /\ UNCHANGED <<settings, port, warned, refused, launched, unsaved, slipped>>

(* save_web_server_config, save_web_server_partial_disable *)
Saved == IF serve.conf = Off THEN [settings EXCEPT !.enabled = FALSE]
                             ELSE [enabled |-> TRUE, conf |-> serve.conf]

Save ==
  /\ serve.at = "save"
  /\ settings' = Saved
  /\ unsaved' = FALSE
  /\ holder' = Nobody /\ serve' = Idle
  /\ UNCHANGED <<shared, refused, launched, slipped>>

SaveFails ==
  /\ serve.at = "save" /\ refused < MaxRefused
  /\ refused' = refused + 1
  /\ unsaved' = TRUE
  /\ holder' = Nobody /\ serve' = Idle
  /\ UNCHANGED <<settings, shared, launched, slipped>>

-----------------------------------------------------------------------------
(* The serve task *)

Becomes(t, state) == tasks' = (tasks \ {t}) \cup {[t EXCEPT !.state = state]}
Unserved == <<settings, holder, serve, generation, warned, handle, refused, launched, unsaved>>

CloseListener(t) ==
  /\ t.state = "serving" /\ t.cancelled
  /\ Becomes(t, "draining")
  /\ UNCHANGED <<port, slipped>> /\ UNCHANGED Unserved

LastConnection(t) ==
  /\ t.state = "draining"
  /\ Becomes(t, "ending")
  /\ UNCHANGED <<port, slipped>> /\ UNCHANGED Unserved

(* An aborted task is dropped where it waits. *)
Drop(t) ==
  /\ t.aborted /\ t.state \in {"serving", "draining"}
  /\ tasks' = tasks \ {t}
  /\ UNCHANGED <<port, slipped>> /\ UNCHANGED Unserved

\* Mutant: every task resets the port.
StaleNever(t) == FALSE

(* Only the task of the current generation resets the port.  It may be that *)
(* of a server given up for dead whose successor is not yet counted.        *)
Stale(t) == t.gen # generation

Check(t) ==
  /\ t.state = "ending"
  /\ IF Stale(t) THEN tasks' = tasks \ {t} /\ UNCHANGED slipped
     ELSE Becomes(t, "resetting") /\ slipped' = (slipped \/ (t.gen = generation /\ handle # t.gen))
  /\ UNCHANGED port /\ UNCHANGED Unserved

ResetPort(t) ==
  /\ t.state = "resetting"
  /\ port' = 0
  /\ tasks' = tasks \ {t}
  /\ UNCHANGED slipped /\ UNCHANGED Unserved

Next ==
  \/ Start \/ \E c \in Callers, conf \in Asked \cup {Off} : Restart(c, conf)
  \/ Cancel \/ TaskEnded \/ Abort \/ GiveUp \/ Reset
  \/ \E offset \in 0..2 : Bind(offset)
  \/ BindFails \/ Spawn \/ Save \/ SaveFails
  \/ \E t \in tasks : \/ CloseListener(t) \/ LastConnection(t) \/ Drop(t)
                      \/ Check(t) \/ ResetPort(t)

Spec == Init /\ [][Next]_vars

-----------------------------------------------------------------------------
(* Properties *)

Settled == holder = Nobody

(* The port shown is the one that is served, whatever the servers before     *)
(* still do: the task of a server that was given up does not take the port  *)
(* of its successor from the page (slipped is the known exception: it       *)
(* looks at the generation before the successor has raised it).             *)
StatusHonest ==
  Settled /\ ~slipped =>
    /\ port = 0 <=> handle = 0
    /\ \A t \in tasks : t.gen = handle => t.state = "serving" /\ t.port = port

(* No two servers accept connections, unless the older one has been aborted. *)
OneServer ==
  Settled => Cardinality({t \in Listening : ~t.aborted}) <= 1

(* The next launch starts what runs now; if a start has failed, what ran     *)
(* before; and nothing after the server has been disabled.                 *)
SettingsFollow ==
  Settled /\ ~unsaved =>
    \A t \in tasks : t.gen = handle => settings = [enabled |-> TRUE, conf |-> t.conf]

=============================================================================
