---------------------------- MODULE Credentials ----------------------------
(***************************************************************************)
(* The processes of the Claude CLI that may refresh the user's credentials, *)
(* and the gate that serializes the short ones (claude_cred_gate).          *)
(*                                                                         *)
(* The CLI keeps an access token, which expires, and a refresh token, which *)
(* the server replaces whenever it is used.  A process that reads expired   *)
(* credentials uses the refresh token and writes the new one to the file.   *)
(* Of two that use the same one the second fails; a process killed between  *)
(* the two takes the new token with it.  Either logs the user out.          *)
(*                                                                         *)
(* Refresh tokens are numbers.  The app never reads the credentials: what   *)
(* the CLI does with them is external, as the comments at the gate and at   *)
(* reap_gracefully tell it.                                                *)
(***************************************************************************)
EXTENDS Integers, FiniteSets

CONSTANTS
  Gated,       \* get_cli_info, auth status, plugin commands
  Passing,     \* chat sessions, others than these, which only pass through the gate
  Ungated,     \* side questions and fork_oneshot
  MaxExpired,  \* bound: times the access token expires
  MaxFaults    \* bound: processes that are killed

VARIABLES
  server,    \* the refresh token the server takes
  file,      \* .credentials.json: its refresh token, the access token is fresh
  user,      \* what each process does, and the refresh token it holds
  gate,      \* the process that holds claude_cred_gate
  expired,
  lost,      \* history: a process was killed with a new token it had not written
  raced,     \* history: processes that held one expired token at once
  faults

tokenVars == <<server, file, lost, raced, expired>>
vars == <<tokenVars, user, gate, faults>>

Users == Gated \cup Passing \cup Ungated
None == "none"
Idle == [stage |-> "idle", token |-> 0]

TypeOK ==
  /\ server \in 1..MaxExpired + 1
  /\ file.token \in 0..server /\ file.fresh \in BOOLEAN
  /\ user \in [Users -> [stage : {"idle", "asks", "runs", "needs", "rotated", "works", "refused"},
                         token : 0..server]]
  /\ gate \in Gated \cup {None}
  /\ expired \in 0..MaxExpired /\ lost \in BOOLEAN
  /\ raced \in {"never", "once", "inGate"}
  /\ faults \in 0..MaxFaults

Init ==
  /\ server = 1 /\ file = [token |-> 1, fresh |-> TRUE]
  /\ user = [u \in Users |-> Idle]
  /\ gate = None
  /\ expired = 0 /\ lost = FALSE /\ raced = "never"
  /\ faults = 0

-----------------------------------------------------------------------------
(* A process, from the command that wants one *)

(* Side questions and forks spawn at once, the others go to the gate. *)
Ask(u) ==
  /\ user[u].stage = "idle"
  /\ user' = [user EXCEPT ![u].stage = IF u \in Ungated THEN "runs" ELSE "asks"]
  /\ UNCHANGED <<tokenVars, gate, faults>>

(* A short process holds the gate until it has exited. *)
TakeGate(u) ==
  /\ u \in Gated /\ user[u].stage = "asks" /\ gate = None
  /\ gate' = u
  /\ user' = [user EXCEPT ![u].stage = "runs"]
  /\ UNCHANGED <<tokenVars, faults>>

(* A session only waits for the one that holds it. *)
PassGate(u) ==
  /\ u \in Passing /\ user[u].stage = "asks" /\ gate = None
  /\ user' = [user EXCEPT ![u].stage = "runs"]
  /\ UNCHANGED <<tokenVars, gate, faults>>

Ends(u) ==
  /\ user' = [user EXCEPT ![u] = Idle]
  /\ gate' = IF gate = u THEN None ELSE gate

Exit(u) ==
  /\ user[u].stage \in {"works", "refused"}
  /\ Ends(u)
  /\ UNCHANGED <<tokenVars, faults>>

(* reap_gracefully after its grace, a plugin command or auth status out of   *)
(* time, a fork out of time, a session that is stopped, the app quits.      *)
Kill(u) ==
  /\ faults < MaxFaults
  /\ user[u].stage \in {"runs", "needs", "rotated", "works", "refused"}
  /\ Ends(u)
  /\ lost' = (lost \/ user[u].stage = "rotated")
  /\ faults' = faults + 1
  /\ UNCHANGED <<server, file, raced, expired>>

-----------------------------------------------------------------------------
(* The CLI and its server *)

Expire ==
  /\ file.fresh /\ expired < MaxExpired
  /\ file' = [file EXCEPT !.fresh = FALSE]
  /\ expired' = expired + 1
  /\ UNCHANGED <<server, lost, raced, user, gate, faults>>

(* Those that hold a refresh token, used or not, that the file has too. *)
Holders(u) ==
  {v \in Users \ {u} : \/ user[v].stage = "needs" /\ user[v].token = file.token
                       \/ user[v].stage = "rotated"}

(* A session reads its credentials again when they have expired. *)
ReadCredentials(u) ==
  /\ \/ user[u].stage = "runs"
     \/ u \in Passing /\ user[u].stage = "works" /\ ~file.fresh
  /\ IF file.fresh
     THEN /\ user' = [user EXCEPT ![u].stage = "works"]
          /\ UNCHANGED raced
     ELSE /\ user' = [user EXCEPT ![u] = [stage |-> "needs", token |-> file.token]]
          /\ raced' = CASE Holders(u) = {} -> raced
                       [] u \in Gated /\ Holders(u) \cap Gated # {} -> "inGate"
                       [] OTHER -> IF raced = "never" THEN "once" ELSE raced
  /\ UNCHANGED <<server, file, lost, expired, gate, faults>>

Rotate(u) ==
  /\ user[u].stage = "needs" /\ user[u].token = server
  /\ server' = server + 1
  /\ user' = [user EXCEPT ![u] = [stage |-> "rotated", token |-> server + 1]]
  /\ UNCHANGED <<file, lost, raced, expired, gate, faults>>

(* The token was used: the process fails, and may write that it is logged out. *)
Refused(u) ==
  /\ user[u].stage = "needs" /\ user[u].token # server
  /\ user' = [user EXCEPT ![u].stage = "refused"]
  /\ file' \in {file, [token |-> 0, fresh |-> FALSE]}
  /\ UNCHANGED <<server, lost, raced, expired, gate, faults>>

WriteCredentials(u) ==
  /\ user[u].stage = "rotated"
  /\ file' = [token |-> user[u].token, fresh |-> TRUE]
  /\ user' = [user EXCEPT ![u].stage = "works"]
  /\ UNCHANGED <<server, lost, raced, expired, gate, faults>>

Next ==
  \/ \E u \in Users : \/ Ask(u) \/ TakeGate(u) \/ PassGate(u) \/ Exit(u) \/ Kill(u)
                      \/ ReadCredentials(u) \/ Rotate(u) \/ Refused(u) \/ WriteCredentials(u)
  \/ Expire

Spec == Init /\ [][Next]_vars

-----------------------------------------------------------------------------
(* What the gate promises.                                                  *)

InFlight == \E u \in Users : user[u].stage = "rotated" /\ user[u].token = server

(* The user stays logged in: the file has the token the server takes, or a   *)
(* process is about to write it, unless one was killed before it could or   *)
(* two raced for a refresh.                                                 *)
LoggedIn == file.token = server \/ InFlight \/ lost \/ raced # "never"

(* Two of the processes that hold the gate never race, however they end and  *)
(* whenever the token expires: a race takes a session, a side question or a *)
(* fork.                                                                    *)
GateHolds == raced # "inGate"

CredentialsTrue == LoggedIn /\ GateHolds
=============================================================================
