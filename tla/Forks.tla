------------------------------- MODULE Forks -------------------------------
(***************************************************************************)
(* Forks of a conversation, and what the model remembers of the messages a  *)
(* run shows (fork_session and start_session of commands/session.rs,        *)
(* fork_oneshot of agent/claude_stream.rs).                                 *)
(*                                                                         *)
(* A run shows its own log and works on a session of the CLI: a transcript  *)
(* of Claude, a thread of Codex.  A fork copies the log and has the CLI     *)
(* fork the session, Claude by a process of its own that answers one        *)
(* checkpoint, Codex in the live app-server.  Claude deletes transcripts    *)
(* that have not been used for long; a run whose transcript is gone goes on *)
(* in a new session, after a notice.                                        *)
(*                                                                         *)
(* A turn is a number, written to the log and to the session in one step    *)
(* (SessionActor has the turns).  Starts and stops that race for one run,   *)
(* and the statuses, are in SessionLifecycle.                               *)
(***************************************************************************)
EXTENDS Integers, Sequences, FiniteSets, SequencesExt

CONSTANTS
  MaxRuns,      \* bound: runs, the first one included
  MaxSessions,  \* bound: sessions the CLI makes
  MaxTurns,     \* bound: turns
  MaxFaults     \* bound: deleted transcripts, failed forks, crashes

VARIABLES
  agent,      \* whose sessions these are
  meta,       \* meta.json of each run
  log,        \* the turns and notices in the events.jsonl of each run
  session,    \* the turns in each session, in the order they were made
  owner,      \* the run each session was made for
  gone,       \* the sessions whose transcript was deleted
  proc,       \* the CLI process of each run
  job,        \* the fork_session of each source run
  turns,      \* history: turns so far
  cut,        \* history: forks that failed or were cut short by a crash
  early,      \* history: forks that were started before they were done
  behind,     \* history: forks whose log was copied after later turns
  shared,     \* history: sessions another run than their owner has written
  faults

runVars == <<meta, log>>
cliVars == <<session, owner, gone>>
history == <<cut, early, behind, shared>>
vars == <<agent, runVars, cliVars, proc, job, turns, history, faults>>

Runs == 1..MaxRuns
Sessions == DOMAIN session
None == 0

(* What a log and a session have besides turns. *)
Notice == 0
Checkpoint == 0

NoRun == [there |-> FALSE, session |-> None]
NoProc == [session |-> None, told |-> FALSE]
NoJob == [step |-> "none", run |-> None, from |-> None, to |-> None]

TypeOK ==
  /\ agent \in {"claude", "codex"}
  /\ meta \in [Runs -> [there : BOOLEAN, session : {None} \cup Sessions]]
  /\ \A r \in Runs : log[r] \in Seq({Notice} \cup 1..MaxTurns)
  /\ \A s \in Sessions : session[s] \in Seq({Checkpoint} \cup 1..MaxTurns)
  /\ owner \in [Sessions -> Runs] /\ gone \subseteq Sessions
  /\ proc \in [Runs -> [session : {None} \cup Sessions, told : BOOLEAN]]
  /\ \A r \in Runs : job[r].step \in {"none", "create", "copy", "save", "oneshot", "persist"}
  /\ turns \in 0..MaxTurns /\ faults \in 0..MaxFaults
  /\ cut \cup early \cup behind \subseteq Runs /\ shared \subseteq Sessions

Init ==
  /\ agent \in {"claude", "codex"}
  /\ meta = [r \in Runs |-> [NoRun EXCEPT !.there = (r = 1)]]
  /\ log = [r \in Runs |-> <<>>]
  /\ session = <<>> /\ owner = <<>> /\ gone = {}
  /\ proc = [r \in Runs |-> NoProc]
  /\ job = [r \in Runs |-> NoJob]
  /\ turns = 0 /\ faults = 0
  /\ cut = {} /\ early = {} /\ behind = {} /\ shared = {}

Alive(r) == proc[r].session # None
(* The spawn lock of a run, which a fork of it holds to its end. *)
Locked(r) == job[r].step # "none"
(* The runs that a fork is making. *)
InMaking == {job[r].run : r \in Runs} \ {None}

(* The CLI makes a session for the run r. *)
Made(r, content) ==
  /\ Len(session) < MaxSessions
  /\ session' = Append(session, content)
  /\ owner' = Append(owner, r)
  /\ UNCHANGED gone

-----------------------------------------------------------------------------
(* start_session_impl *)

Spawned(r, s) ==
  /\ proc' = [proc EXCEPT ![r] = [session |-> s, told |-> FALSE]]
  /\ UNCHANGED meta
  /\ early' = IF r \in InMaking THEN early \cup {r} ELSE early

(* find_cli_session_path *)
Found(s) == s \notin gone

(* Resume or Continue, and the thread of a Codex run. *)
Resume(r) ==
  /\ meta[r].session # None /\ Found(meta[r].session)
  /\ Spawned(r, meta[r].session)
  /\ UNCHANGED <<log, cliVars>>

(* The transcript is not found: a notice, and a new session. *)
StartAfresh(r) ==
  /\ meta[r].session # None /\ ~Found(meta[r].session)
  /\ log' = [log EXCEPT ![r] = Append(@, Notice)]
  /\ Spawned(r, Len(session) + 1)
  /\ Made(r, <<>>)

(* New.  Claude's first start; a Codex run without a thread gets one. *)
StartNew(r) ==
  /\ meta[r].session = None
  /\ r = 1 \/ agent = "codex"
  /\ Spawned(r, Len(session) + 1)
  /\ Made(r, <<>>)
  /\ UNCHANGED log

Start(r) ==
  /\ meta[r].there /\ ~Alive(r) /\ ~Locked(r)
  /\ Resume(r) \/ StartAfresh(r) \/ StartNew(r)
  /\ UNCHANGED <<agent, job, turns, cut, behind, shared, faults>>

(* session_init, thread/started: the run is told what session it works on. *)
SessionInit(r) ==
  /\ Alive(r) /\ ~proc[r].told
  /\ proc' = [proc EXCEPT ![r].told = TRUE]
  /\ meta' = [meta EXCEPT ![r].session = proc[r].session]
  /\ UNCHANGED <<agent, log, cliVars, job, turns, history, faults>>

Turn(r) ==
  /\ Alive(r) /\ proc[r].told /\ turns < MaxTurns
  /\ LET s == proc[r].session
     IN /\ log' = [log EXCEPT ![r] = Append(@, turns + 1)]
        /\ session' = [session EXCEPT ![s] = Append(@, turns + 1)]
        /\ shared' = IF owner[s] # r THEN shared \cup {s} ELSE shared
  /\ turns' = turns + 1
  /\ UNCHANGED <<agent, meta, owner, gone, proc, job, cut, early, behind, faults>>

(* stop_session, or the CLI ends by itself. *)
Ends(r) ==
  /\ Alive(r)
  /\ proc' = [proc EXCEPT ![r] = NoProc]
  /\ UNCHANGED <<agent, runVars, cliVars, job, turns, history, faults>>

(* cleanupPeriodDays: Claude deletes a transcript nothing works on. *)
CliDeletes(s) ==
  /\ agent = "claude" /\ faults < MaxFaults
  /\ s \notin gone /\ \A r \in Runs : proc[r].session # s
  /\ gone' = gone \cup {s}
  /\ faults' = faults + 1
  /\ UNCHANGED <<agent, runVars, session, owner, proc, job, turns, history>>

-----------------------------------------------------------------------------
(* fork_session_impl *)

Unused == {q \in Runs : ~meta[q].there}
NewRun == CHOOSE q \in Unused : \A p \in Unused : q <= p

Created == [there |-> TRUE, session |-> None]

(* A fork of what went wrong has gone wrong. *)
Inherits(r, q) == cut' = IF r \in cut \cup early THEN cut \cup {q} ELSE cut
Forked(from, to) == shared' = IF from \in shared THEN shared \cup {to} ELSE shared

(* stop_actor of the source, create_run. *)
ForkClaude(r) ==
  /\ agent = "claude" /\ meta[r].session # None
  /\ Unused # {}
  /\ meta' = [meta EXCEPT ![NewRun] = Created]
  /\ proc' = [proc EXCEPT ![r] = NoProc]
  /\ job' = [job EXCEPT ![r] = [NoJob EXCEPT !.step = "copy", !.run = NewRun,
                                  !.from = meta[r].session]]
  /\ Inherits(r, NewRun)
  /\ UNCHANGED <<agent, log, cliVars, turns, early, behind, shared, faults>>

(* fork_session_codex: thread/fork, answered by the live app-server. *)
ForkCodex(r) ==
  /\ agent = "codex" /\ Alive(r) /\ proc[r].told
  /\ Unused \ InMaking # {}
  /\ LET made == NewRun
     IN /\ Made(made, session[proc[r].session])
        /\ job' = [job EXCEPT ![r] = [NoJob EXCEPT !.step = "create", !.to = Len(session) + 1]]
        /\ Forked(proc[r].session, Len(session) + 1)
  /\ UNCHANGED <<agent, runVars, proc, turns, cut, early, behind, faults>>

BeginFork(r) ==
  /\ meta[r].there /\ ~Locked(r)
  /\ \A p \in Runs : ~Locked(p)     \* bound: one fork at a time
  /\ ForkClaude(r) \/ ForkCodex(r)

(* create_run, after thread/fork. *)
CreateRun(r) ==
  /\ job[r].step = "create"
  /\ meta' = [meta EXCEPT ![NewRun] = Created]
  /\ job' = [job EXCEPT ![r].step = "copy", ![r].run = NewRun]
  /\ Inherits(r, NewRun)
  /\ UNCHANGED <<agent, log, cliVars, proc, turns, early, behind, shared, faults>>

(* copy_bus_events *)
CopyEvents(r) ==
  /\ job[r].step = "copy"
  /\ log' = [log EXCEPT ![job[r].run] = log[r]]
  /\ behind' = IF \/ r \in behind
                  \/ agent = "codex" /\ Len(session[meta[r].session]) > Len(session[job[r].to])
                  THEN behind \cup {job[r].run} ELSE behind
  /\ job' = [job EXCEPT ![r].step = "save"]
  /\ UNCHANGED <<agent, meta, cliVars, proc, turns, cut, early, shared, faults>>

(* The session of the parent until there is another; for Codex, the thread. *)
SaveParent(r) ==
  /\ job[r].step = "save"
  /\ meta' = [meta EXCEPT ![job[r].run] =
                [Created EXCEPT !.session = IF agent = "claude" THEN job[r].from ELSE job[r].to]]
  /\ job' = [job EXCEPT ![r] = IF agent = "claude" THEN [@ EXCEPT !.step = "oneshot"] ELSE NoJob]
  /\ UNCHANGED <<agent, log, cliVars, proc, turns, history, faults>>

(* fork_oneshot: the new session has the turns of the old and a checkpoint. *)
ForkOneshot(r) ==
  /\ job[r].step = "oneshot" /\ job[r].from \notin gone
  /\ Made(job[r].run, Append(session[job[r].from], Checkpoint))
  /\ job' = [job EXCEPT ![r].step = "persist", ![r].to = Len(session) + 1]
  /\ Forked(job[r].from, Len(session) + 1)
  /\ UNCHANGED <<agent, runVars, proc, turns, cut, early, behind, faults>>

(* fork_oneshot fails or takes longer than 60 s. *)
OneshotFails(r) ==
  /\ job[r].step = "oneshot"
  /\ faults < MaxFaults \/ job[r].from \in gone
  /\ cut' = cut \cup {job[r].run}
  /\ job' = [job EXCEPT ![r] = NoJob]
  /\ faults' = IF job[r].from \in gone THEN faults ELSE faults + 1
  /\ UNCHANGED <<agent, runVars, cliVars, proc, turns, early, behind, shared>>

(* save_meta of what create_run returned, with the new session. *)
Persist(r) ==
  /\ job[r].step = "persist"
  /\ meta' = [meta EXCEPT ![job[r].run] = [Created EXCEPT !.session = job[r].to]]
  /\ job' = [job EXCEPT ![r] = NoJob]
  /\ UNCHANGED <<agent, log, cliVars, proc, turns, history, faults>>

Crash ==
  /\ faults < MaxFaults
  /\ faults' = faults + 1
  /\ proc' = [r \in Runs |-> NoProc]
  /\ job' = [r \in Runs |-> NoJob]
  /\ cut' = cut \cup InMaking
  /\ UNCHANGED <<agent, runVars, cliVars, turns, early, behind, shared>>

Next ==
  \/ \E r \in Runs : \/ Start(r) \/ SessionInit(r) \/ Turn(r) \/ Ends(r)
                     \/ BeginFork(r) \/ CreateRun(r) \/ CopyEvents(r) \/ SaveParent(r)
                     \/ ForkOneshot(r) \/ OneshotFails(r) \/ Persist(r)
  \/ \E s \in Sessions : CliDeletes(s)
  \/ Crash

Spec == Init /\ [][Next]_vars

-----------------------------------------------------------------------------
(* What forks promise.                                                      *)

(* A fork that was not cut short or started before it was done. *)
Sound(r) == r \notin cut \cup early

(* Two runs never go on in one session: when fork_session has ended, the run *)
(* it returned has a session of its own, which the parent does not write.   *)
OwnSession ==
  \A r \in Runs \ InMaking :
    Sound(r) /\ meta[r].session # None => owner[meta[r].session] = r

(* No two processes work on one session, unless one of them is of a fork     *)
(* that was cut short or started early: a fork has the session of its       *)
(* parent until fork_oneshot has returned.                                  *)
OneProcess ==
  \A r, q \in Runs : Alive(r) /\ r # q /\ proc[r].session = proc[q].session
                       => ~Sound(r) \/ ~Sound(q)

SinceNotice(entries) ==
  LET notices == {k \in DOMAIN entries : entries[k] = Notice}
      last == CHOOSE k \in notices \cup {0} : \A n \in notices : n <= k
  IN SubSeq(entries, last + 1, Len(entries))

IsTurn(e) == e # Checkpoint
Turns(s) == SelectSeq(session[s], IsTurn)

(* What a run shows below its last notice is what the model remembers, and   *)
(* the model remembers nothing the run does not show: starts, deleted       *)
(* transcripts, forks and forks of forks included.  A fork of a live Codex  *)
(* thread may show turns of its parent that came after the thread was       *)
(* forked.                                                                  *)
Remembered ==
  \A r \in Runs :
    LET s == proc[r].session
    IN Alive(r) /\ Sound(r) /\ s \notin shared
         => \/ SinceNotice(log[r]) = Turns(s)
            \/ r \in behind /\ ToSet(Turns(s)) \subseteq ToSet(log[r])

ForksTrue == OwnSession /\ OneProcess /\ Remembered
=============================================================================
