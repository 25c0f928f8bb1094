---------------------------- MODULE SessionActor ----------------------------
(***************************************************************************)
(* One session actor of agent/session_actor.rs, on its Claude stream-json  *)
(* path: the turn engine (user tickets, Ralph loop, hard timeout and       *)
(* quarantine), the interactive prompts, and the end of the process.  The  *)
(* actor is one task: each iteration of its select! loop runs one handler  *)
(* to the end, so a handler is one action.  What interleaves with it is    *)
(* outside: the IPC callers that fill its mailbox, the CLI process behind  *)
(* two pipes, and the clock.                                               *)
(*                                                                         *)
(* The private state is the record eng.  The methods of the actor are      *)
(* operators from one such record to the next; what they write to the      *)
(* CLI's stdin gathers in eng.out and Step puts it into the pipe.          *)
(* Internal (/context) turns are dispatched nowhere in the code, and the   *)
(* deadlines are abstracted: a timer may fire whenever it is armed.        *)
(***************************************************************************)
EXTENDS Naturals, Sequences, FiniteSets, SequencesExt

CONSTANTS
    Tickets,         \* user messages; each is sent at most once
    Prompts,         \* ids of the CLI's interactive requests
    Permissions,     \* the prompts that are can_use_tool requests, for one tool
    MaxIterations,   \* max_iterations of a Ralph loop, 0 for none
    MaxFailures,     \* max_consecutive_failures (3)
    MaxLoops,        \* bound: StartRalphLoop commands
    MaxInterrupts,   \* bound: user interrupts
    TimeoutEnabled,  \* user_hard_timeout is Some
    CliWithdraws,    \* the CLI may withdraw a prompt (control_cancel_request)
    Ralph, NoTurn

ASSUME SessionActorAssumption ==
    /\ Permissions \subseteq Prompts
    /\ MaxIterations \in Nat /\ MaxFailures \in Nat \ {0}
    /\ MaxLoops \in Nat /\ MaxInterrupts \in Nat
    /\ TimeoutEnabled \in BOOLEAN /\ CliWithdraws \in BOOLEAN
    /\ Ralph \notin Tickets /\ NoTurn \notin Tickets \cup {Ralph}

VARIABLES
    actor,      \* "running" in the loop, "closing" after it, "gone" after cleanup
    eng,        \* the actor's private state, with the run's meta.json status
    mailbox,    \* cmd_rx
    stdin,      \* lines written to the CLI and not yet read by it
    stdout,     \* lines written by the CLI and not yet read by the actor
    cli,        \* the CLI process
    cards,      \* prompts the user interface shows as answerable
    cancelled,  \* the CancellationToken of the app's exit
    asked,      \* history: tickets in the order their messages were sent
    interrupts, loops

vars == <<actor, eng, mailbox, stdin, stdout, cli, cards, cancelled, asked,
          interrupts, loops>>

-----------------------------------------------------------------------------
Turns == Tickets \cup {Ralph}
Phases == {"none", "running", "waiting", "pausedRunning", "pausedWaiting", "cancelPending"}
NoLoop == [phase |-> "none", iter |-> 0, fails |-> 0, text |-> FALSE]

Command == [k : {"send", "interrupt", "stop", "answer", "ralph", "unralph"},
            of : Tickets \cup Prompts \cup {NoTurn}, keep : BOOLEAN]
Cmd(k, of) == [k |-> k, of |-> of, keep |-> FALSE]

\* Lines of both pipes.  bad marks an error result.
Message == [k : {"user", "interrupt", "answer", "result", "promise", "prompt", "withdraw"},
            of : Turns \cup Prompts \cup {NoTurn}, bad : BOOLEAN]
Msg(k, of) == [k |-> k, of |-> of, bad |-> FALSE]

\* spawn_actor.  start_session left the run's status Running, or Idle on a resume.
Init ==
    /\ actor = "running"
    /\ \E status \in {"running", "idle"} :
        eng = [active |-> NoTurn, quarantine |-> FALSE, interruptSent |-> FALSE,
               queue |-> <<>>, loop |-> NoLoop, pendingInterrupt |-> FALSE,
               pending |-> {}, remembered |-> FALSE, state |-> "", gotError |-> FALSE,
               status |-> status, metaError |-> FALSE,
               reply |-> [t \in Tickets |-> "none"],
               answers |-> [p \in Prompts |-> 0], interrupted |-> FALSE,
               outcome |-> "none", out |-> <<>>]
    /\ mailbox = <<>> /\ stdin = <<>> /\ stdout = <<>>
    /\ cli = [alive |-> TRUE, turn |-> NoTurn, open |-> {}, used |-> {}, taken |-> <<>>,
              code |-> "none"]
    /\ cards = {} /\ cancelled = FALSE
    /\ asked = <<>> /\ interrupts = 0 /\ loops = 0

-----------------------------------------------------------------------------
(* The engine's methods.                                                   *)

\* A write to stdin fails exactly when the process behind the pipe is gone.
Write(e, m) == IF cli.alive THEN [e EXCEPT !.out = Append(@, m)] ELSE e

Answer(e, p) ==
    IF cli.alive
    THEN [e EXCEPT !.out = Append(@, Msg("answer", p)), !.answers[p] = @ + 1]
    ELSE e

\* persist_idle_running: only Running -> Idle and Idle -> Running.
PersistIdleRunning(e, target) ==
    IF {e.status, target} = {"running", "idle"} THEN [e EXCEPT !.status = target] ELSE e

\* emit_state with update_meta: deduplicated on the state, then update_status,
\* and persist_result_error for a failure.
EmitTerminal(e, s) ==
    IF e.state = s THEN e
    ELSE [e EXCEPT !.state = s, !.status = s,
                   !.metaError = IF s = "failed" THEN e.gotError ELSE FALSE]

\* Mutant: the queue is cleared and its callers are left without an answer.
FailAllPendingRepliesSilent(e) == [e EXCEPT !.queue = <<>>]

FailAllPendingReplies(e) ==
    [e EXCEPT !.queue = <<>>,
              !.reply = [t \in Tickets |-> IF Contains(e.queue, t) THEN "err" ELSE e.reply[t]]]

\* Mutant: the error of the last error result is not dropped at the turn's start.
BeginTurnKeepsError(e, turn) ==
    PersistIdleRunning(
        [e EXCEPT !.out = Append(@, Msg("user", turn)), !.active = turn,
                  !.state = "running", !.interrupted = FALSE, !.outcome = "none"],
        "running")

\* The common part of start_user_turn and start_ralph_turn after a successful write.
BeginTurn(e, turn) ==
    PersistIdleRunning(
        [e EXCEPT !.out = Append(@, Msg("user", turn)), !.active = turn,
                  !.gotError = FALSE, !.state = "running",
                  !.interrupted = FALSE, !.outcome = "none"],
        "running")

\* A user message pauses the loop; a pending cancellation is left alone.
PausedByUser(phase) ==
    CASE phase = "running" -> "pausedRunning"
      [] phase = "waiting" -> "pausedWaiting"
      [] OTHER -> phase

ResumedFrom(phase) ==
    CASE phase = "pausedRunning" -> "running"
      [] phase = "pausedWaiting" -> "waiting"
      [] OTHER -> phase

\* Mutant: the newest ticket is taken first.
StartUserTurnLifo(e) ==
    LET t == Last(e.queue)
        popped == [e EXCEPT !.queue = Front(@), !.loop.phase = PausedByUser(@)]
    IN  IF cli.alive THEN BeginTurn([popped EXCEPT !.reply[t] = "ok"], t)
        ELSE [popped EXCEPT !.reply[t] = "err"]

StartUserTurn(e) ==
    LET t == Head(e.queue)
        popped == [e EXCEPT !.queue = Tail(@), !.loop.phase = PausedByUser(@)]
    IN  IF cli.alive THEN BeginTurn([popped EXCEPT !.reply[t] = "ok"], t)
        ELSE [popped EXCEPT !.reply[t] = "err"]

\* Mutant: one failure too many is allowed.
RalphFailureOffByOne(e) ==
    IF e.loop.fails + 1 > MaxFailures THEN [e EXCEPT !.loop = NoLoop]
    ELSE [e EXCEPT !.loop.fails = @ + 1, !.loop.phase = "waiting"]

\* A failed Ralph turn or write: give up after MaxFailures in a row, else back off.
RalphFailure(e) ==
    IF e.loop.fails + 1 >= MaxFailures THEN [e EXCEPT !.loop = NoLoop]
    ELSE [e EXCEPT !.loop.fails = @ + 1, !.loop.phase = "waiting"]

StartRalphTurn(e) ==
    LET fresh == [e EXCEPT !.loop.phase = "running", !.loop.text = FALSE]
    IN  IF cli.alive THEN BeginTurn(fresh, Ralph) ELSE RalphFailure(fresh)

\* expired: the backoff deadline of a waiting loop has passed.
TryDispatch(e, expired) ==
    IF e.active # NoTurn \/ e.quarantine THEN e
    ELSE IF e.queue # <<>> THEN StartUserTurn(e)
    ELSE IF e.loop.phase = "running" \/ (e.loop.phase = "waiting" /\ expired)
         THEN StartRalphTurn(e)
    ELSE e

RalphOnTurnEnd(e, turn, failed) ==
    LET last == \/ MaxIterations > 0 /\ e.loop.iter + 1 >= MaxIterations
                \/ e.loop.text
                \/ e.loop.phase = "cancelPending"
    IN  IF e.loop.phase = "none" THEN e
        ELSE IF turn # Ralph THEN [e EXCEPT !.loop.phase = ResumedFrom(@)]
        ELSE IF failed
             THEN IF e.loop.phase = "cancelPending" THEN [e EXCEPT !.loop = NoLoop]
                  ELSE RalphFailure(e)
        ELSE IF last THEN [e EXCEPT !.loop = NoLoop]
        ELSE [e EXCEPT !.loop.fails = 0, !.loop.iter = @ + 1]

\* Mutant: the next ticket is left for the next command to dispatch.
TurnResultNoDispatch(e, bad, expired) ==
    LET error == bad /\ ~e.pendingInterrupt
        idle == PersistIdleRunning(
                    [e EXCEPT !.pendingInterrupt = FALSE, !.state = "idle",
                              !.gotError = (e.gotError \/ bad) /\ ~e.pendingInterrupt,
                              !.outcome = IF error THEN "error" ELSE "ok"], "idle")
    IN  RalphOnTurnEnd([idle EXCEPT !.active = NoTurn, !.metaError = idle.gotError],
                       e.active, error)

\* A result line is RunState(idle), its error attached; after a user interrupt
\* it is taken for the acknowledgement, and the error is dropped.
TurnResult(e, bad, expired) ==
    LET error == bad /\ ~e.pendingInterrupt
        idle == PersistIdleRunning(
                    [e EXCEPT !.pendingInterrupt = FALSE, !.state = "idle",
                              !.gotError = (e.gotError \/ bad) /\ ~e.pendingInterrupt,
                              !.outcome = CASE error -> "error"
                                            [] ~error /\ bad /\ ~e.interrupted -> "swallowed"
                                            [] OTHER -> "ok"], "idle")
        kept == [idle EXCEPT !.metaError = idle.gotError]
    IN  IF e.active = NoTurn THEN kept
        ELSE TryDispatch(RalphOnTurnEnd([kept EXCEPT !.active = NoTurn], e.active, error),
                         expired)

\* Mutant: the frontend is not told that the interrupted turn is over.
LiftQuarantineSilent(e, expired) ==
    TryDispatch([e EXCEPT !.quarantine = FALSE, !.interruptSent = FALSE,
                          !.pendingInterrupt = FALSE, !.gotError = FALSE], expired)

\* Mutant: nothing is dispatched after a quarantine.
LiftQuarantineNoDispatch(e, expired) ==
    PersistIdleRunning(
        [e EXCEPT !.quarantine = FALSE, !.interruptSent = FALSE,
                  !.pendingInterrupt = FALSE, !.gotError = FALSE, !.state = "idle",
                  !.metaError = FALSE, !.outcome = "ok"], "idle")

\* The result that ends a quarantine: an acknowledgement, whatever it says.
LiftQuarantine(e, expired) ==
    TryDispatch(
        PersistIdleRunning(
            [e EXCEPT !.quarantine = FALSE, !.interruptSent = FALSE,
                      !.pendingInterrupt = FALSE, !.gotError = FALSE, !.state = "idle",
                      !.metaError = FALSE, !.outcome = "ok"], "idle"),
        expired)

\* The turn's text is scanned for the promise on the internal-turn route only.
IsInternalTurn(e) == e.active \notin Turns \cup {NoTurn}
IsRalphTurn(e) == e.active = Ralph

RecordText(e) ==
    IF IsInternalTurn(e) /\ IsRalphTurn(e) /\ e.loop.phase # "none"
    THEN [e EXCEPT !.loop.text = TRUE] ELSE e

\* handle_eof once child.wait() returned.
Ended(e) ==
    LET end == [FailAllPendingReplies(e) EXCEPT !.active = NoTurn, !.quarantine = FALSE]
    IN  IF e.gotError
        THEN [end EXCEPT !.status =
                IF ~e.metaError /\ cli.code = "zero" THEN "completed" ELSE "failed"]
        ELSE EmitTerminal(end, CASE cancelled -> "stopped"
                                 [] ~cancelled /\ cli.code = "zero" -> "completed"
                                 [] OTHER -> "failed")

-----------------------------------------------------------------------------
Step(new) ==
    /\ eng' = [new EXCEPT !.out = <<>>]
    /\ stdin' = stdin \o new.out

\* The IPC callers.  A card is answered or dismissed by any connected client,
\* possibly by two of them.
Post(c) ==
    /\ actor # "gone"
    /\ mailbox' = Append(mailbox, c)
    /\ UNCHANGED <<actor, stdin, stdout, cli, cards, cancelled>>

SendMessage(t) ==
    /\ eng.reply[t] = "none"
    /\ Post(Cmd("send", t))
    /\ eng' = [eng EXCEPT !.reply[t] = "waiting"]
    /\ asked' = Append(asked, t)
    /\ UNCHANGED <<interrupts, loops>>

Interrupt ==
    /\ eng.state = "running" /\ interrupts < MaxInterrupts
    /\ Post(Cmd("interrupt", NoTurn))
    /\ interrupts' = interrupts + 1
    /\ UNCHANGED <<eng, asked, loops>>

StopSession ==
    /\ actor = "running" /\ ~Contains(mailbox, Cmd("stop", NoTurn))
    /\ Post(Cmd("stop", NoTurn))
    /\ UNCHANGED <<eng, asked, interrupts, loops>>

\* keep: the tool of the request is remembered for the session.
AnswerCmd(p, keep) == [k |-> "answer", of |-> p, keep |-> keep]

Respond(p, keep) ==
    /\ p \in cards
    /\ Cardinality({i \in DOMAIN mailbox : mailbox[i].k = "answer" /\ mailbox[i].of = p}) < 2
    /\ Post(AnswerCmd(p, keep))
    /\ UNCHANGED <<eng, asked, interrupts, loops>>

StartRalphLoop ==
    /\ loops < MaxLoops
    /\ Post(Cmd("ralph", NoTurn))
    /\ loops' = loops + 1
    /\ UNCHANGED <<eng, asked, interrupts>>

CancelRalphLoop ==
    /\ eng.loop.phase # "none" /\ ~Contains(mailbox, Cmd("unralph", NoTurn))
    /\ Post(Cmd("unralph", NoTurn))
    /\ UNCHANGED <<eng, asked, interrupts, loops>>

AppExit ==
    /\ ~cancelled
    /\ cancelled' = TRUE
    /\ UNCHANGED <<actor, eng, mailbox, stdin, stdout, cli, cards, asked, interrupts, loops>>

-----------------------------------------------------------------------------
(* The branches of the select! loop.                                       *)
Receive(k) ==
    /\ actor = "running" /\ mailbox # <<>> /\ Head(mailbox).k = k
    /\ mailbox' = Tail(mailbox)
    /\ UNCHANGED <<stdout, cli, cancelled, asked, interrupts, loops>>

HandleSendMessage(expired) ==
    /\ Receive("send")
    /\ Step(TryDispatch([eng EXCEPT !.queue = Append(@, Head(mailbox).of)], expired))
    /\ UNCHANGED <<actor, cards>>

HandleInterrupt ==
    /\ Receive("interrupt")
    /\ Step(Write([eng EXCEPT !.pendingInterrupt = TRUE,
                              !.interrupted = eng.active # NoTurn], Msg("interrupt", NoTurn)))
    /\ UNCHANGED <<actor, cards>>

\* stdin is dropped; the handler waits for the CLI to exit, or kills it.
HandleStop ==
    /\ Receive("stop")
    /\ actor' = "closing"
    /\ UNCHANGED <<eng, stdin, cards>>

\* Mutant: the pending entry survives its response.
HandleResponseKeepsPending ==
    LET c == Head(mailbox)
        known == c.of \in eng.pending
    IN  /\ Receive("answer")
        /\ Step(IF known THEN Answer(eng, c.of) ELSE eng)
        /\ cards' = IF known THEN cards \ {c.of} ELSE cards
        /\ UNCHANGED actor

\* A permission, hook, elicitation or user-input response, or a cancellation:
\* refused unless the request is pending, else cleared and written.
HandleResponse ==
    LET c == Head(mailbox)
        known == c.of \in eng.pending
    IN  /\ Receive("answer")
        /\ Step(IF known
                THEN Answer([eng EXCEPT !.pending = @ \ {c.of},
                                        !.remembered = @ \/ (c.keep /\ c.of \in Permissions)],
                            c.of)
                ELSE eng)
        /\ cards' = IF known THEN cards \ {c.of} ELSE cards
        /\ UNCHANGED actor

HandleStartRalph ==
    /\ Receive("ralph")
    /\ Step(IF eng.loop.phase # "none" THEN eng
            ELSE TryDispatch([eng EXCEPT !.loop = [NoLoop EXCEPT !.phase = "running"]], FALSE))
    /\ UNCHANGED <<actor, cards>>

HandleCancelRalph ==
    /\ Receive("unralph")
    /\ Step(IF eng.loop.phase = "none" THEN eng
            ELSE IF IsRalphTurn(eng) THEN [eng EXCEPT !.loop.phase = "cancelPending"]
            ELSE [eng EXCEPT !.loop = NoLoop])
    /\ UNCHANGED <<actor, cards>>

ReadStdout(k) ==
    /\ actor = "running" /\ stdout # <<>> /\ Head(stdout).k = k
    /\ stdout' = Tail(stdout)
    /\ UNCHANGED <<actor, mailbox, cli, cancelled, asked, interrupts, loops>>

ReadResult(expired) ==
    /\ ReadStdout("result")
    /\ Step(IF eng.quarantine THEN LiftQuarantine(eng, expired)
            ELSE TurnResult(eng, Head(stdout).bad, expired))
    /\ UNCHANGED cards

\* Assistant text that carries the loop's promise tag.
ReadPromise ==
    /\ ReadStdout("promise")
    /\ Step(IF eng.quarantine THEN eng ELSE RecordText(eng))
    /\ UNCHANGED cards

\* Nobody is asked in quarantine, nor about a remembered tool.
AnswersItself(p) == eng.quarantine \/ (eng.remembered /\ p \in Permissions)

\* The prompt is put to the user.
Prompted(e, p) == [e EXCEPT !.pending = @ \cup {p}]

\* Mutant: a request that arrives in quarantine is swallowed like other lines.
ReadPromptSwallowed ==
    LET p == Head(stdout).of
    IN  /\ ReadStdout("prompt")
        /\ Step(IF eng.quarantine THEN eng
                ELSE IF AnswersItself(p) THEN Answer(eng, p) ELSE Prompted(eng, p))
        /\ cards' = IF AnswersItself(p) THEN cards ELSE cards \cup {p}

ReadPrompt ==
    LET p == Head(stdout).of
    IN  /\ ReadStdout("prompt")
        /\ Step(IF AnswersItself(p) THEN Answer(eng, p) ELSE Prompted(eng, p))
        /\ cards' = IF AnswersItself(p) THEN cards ELSE cards \cup {p}

\* control_cancel_request: the card goes, the pending entry stays.
ReadWithdraw ==
    /\ ReadStdout("withdraw")
    /\ cards' = IF eng.quarantine THEN cards ELSE cards \ {Head(stdout).of}
    /\ UNCHANGED <<eng, stdin>>

Tick == actor = "running" /\ UNCHANGED <<mailbox, stdout, cancelled, asked, interrupts, loops>>

\* The deadline of a turn moves with every line of output; in quarantine it is
\* not looked at.
Armed == TimeoutEnabled /\ eng.active # NoTurn /\ ~eng.quarantine

\* Mutant: the timed out turn is forgotten without a quarantine.
HardTimeoutForgets ==
    /\ Tick /\ Armed
    /\ eng.pending = {}
    /\ Step(TryDispatch([eng EXCEPT !.active = NoTurn], FALSE))
    /\ UNCHANGED <<actor, cli, cards>>

\* The turn's hard deadline passed; a pending prompt defers it.
HardTimeout ==
    /\ Tick /\ Armed
    /\ eng.pending = {}
    /\ Step([eng EXCEPT !.active = NoTurn, !.quarantine = TRUE, !.interruptSent = FALSE])
    /\ UNCHANGED <<actor, cli, cards>>

\* Sent once, whether the pipe takes it or not.
SendInterruptToCli(e) == Write([e EXCEPT !.interruptSent = TRUE], Msg("interrupt", NoTurn))

QuarantineInterrupt ==
    /\ Tick /\ eng.quarantine /\ ~eng.interruptSent
    /\ Step(SendInterruptToCli(eng))
    /\ UNCHANGED <<actor, cli, cards>>

\* Mutant: the deadline kills only for an internal turn.
QuarantineKillInternalOnly ==
    /\ Tick /\ eng.quarantine /\ eng.interruptSent /\ IsInternalTurn(eng)
    /\ cli' = [cli EXCEPT !.alive = FALSE, !.code = "signal"]
    /\ Step(FailAllPendingReplies(EmitTerminal(eng, "failed")))
    /\ actor' = "closing"
    /\ UNCHANGED cards

\* Ten seconds after the interrupt: kill, fail what is queued, leave the loop.
QuarantineKill ==
    /\ Tick /\ eng.quarantine /\ eng.interruptSent
    /\ cli' = IF cli.alive THEN [cli EXCEPT !.alive = FALSE, !.code = "signal"] ELSE cli
    /\ Step([FailAllPendingReplies(EmitTerminal(eng, "failed")) EXCEPT !.outcome = "timeout"])
    /\ actor' = "closing"
    /\ UNCHANGED cards

RetryRalph ==
    /\ Tick /\ eng.active = NoTurn /\ ~eng.quarantine /\ eng.loop.phase = "waiting"
    /\ Step(TryDispatch(eng, TRUE))
    /\ UNCHANGED <<actor, cli, cards>>

\* stdout is at its end: the CLI exited and everything it wrote was read.
HandleEof ==
    /\ actor = "running" /\ ~cli.alive /\ stdout = <<>>
    /\ Step(Ended(eng))
    /\ actor' = "closing"
    /\ UNCHANGED <<mailbox, stdout, cli, cards, cancelled, asked, interrupts, loops>>

HandleCancelled ==
    /\ actor = "running" /\ cancelled
    /\ actor' = "closing"
    /\ UNCHANGED <<eng, mailbox, stdin, stdout, cli, cards, cancelled, asked, interrupts, loops>>

\* Mutant: cleanup also tells the callers whose turn did start that it failed.
CleanupFailsAll ==
    /\ actor = "closing" /\ ~cli.alive
    /\ actor' = "gone"
    /\ eng' = [FailAllPendingReplies(eng) EXCEPT !.reply =
                    [t \in Tickets |-> IF eng.reply[t] = "none" THEN "none" ELSE "err"]]
    /\ mailbox' = <<>>
    /\ UNCHANGED <<stdin, stdout, cli, cards, cancelled, asked, interrupts, loops>>

\* cleanup: the queue fails, and the commands left in the mailbox are dropped
\* with their reply channels.
Cleanup ==
    /\ actor = "closing" /\ ~cli.alive
    /\ actor' = "gone"
    /\ LET dropped == {mailbox[i].of : i \in {j \in DOMAIN mailbox : mailbox[j].k = "send"}}
           failed == FailAllPendingReplies(eng)
       IN  eng' = [failed EXCEPT !.reply =
                    [t \in Tickets |-> IF t \in dropped THEN "err" ELSE failed.reply[t]]]
    /\ mailbox' = <<>>
    /\ UNCHANGED <<stdin, stdout, cli, cards, cancelled, asked, interrupts, loops>>

-----------------------------------------------------------------------------
(* The CLI process, as the code in src/ uses it: one turn at a time, its   *)
(* prompts, an interrupt that may or may not be honoured, and its exit.    *)
CliStep == cli.alive /\ UNCHANGED <<actor, eng, mailbox, cards, cancelled, asked,
                                    interrupts, loops>>

CliReads(k) == stdin # <<>> /\ Head(stdin).k = k /\ stdin' = Tail(stdin)

CliTakesTurn ==
    /\ CliStep /\ CliReads("user") /\ cli.turn = NoTurn
    /\ cli' = [cli EXCEPT !.turn = Head(stdin).of,
                          !.taken = IF Head(stdin).of = Ralph THEN @
                                    ELSE Append(@, Head(stdin).of)]
    /\ UNCHANGED stdout

CliTakesAnswer ==
    /\ CliStep /\ CliReads("answer")
    /\ cli' = [cli EXCEPT !.open = @ \ {Head(stdin).of}]
    /\ UNCHANGED stdout

\* The turn ends as an error result, its open prompts withdrawn or forgotten;
\* an idle CLI has nothing to stop.
CliTakesInterrupt ==
    /\ CliStep /\ CliReads("interrupt")
    /\ IF cli.turn = NoTurn THEN UNCHANGED <<cli, stdout>>
       ELSE /\ cli' = [cli EXCEPT !.turn = NoTurn, !.open = {}]
            /\ \E gone \in SetToSeqs({Msg("withdraw", p) :
                                      p \in IF CliWithdraws THEN cli.open ELSE {}}) :
                  stdout' = stdout \o gone
                              \o <<[k |-> "result", of |-> cli.turn, bad |-> TRUE]>>

CliPrompts(p) ==
    /\ CliStep /\ cli.turn # NoTurn /\ p \notin cli.used
    /\ cli' = [cli EXCEPT !.open = @ \cup {p}, !.used = @ \cup {p}]
    /\ stdout' = Append(stdout, Msg("prompt", p))
    /\ UNCHANGED stdin

CliWithdrawsPrompt(p) ==
    /\ CliStep /\ CliWithdraws /\ p \in cli.open
    /\ cli' = [cli EXCEPT !.open = @ \ {p}]
    /\ stdout' = Append(stdout, Msg("withdraw", p))
    /\ UNCHANGED stdin

CliFinishes(bad, promise) ==
    /\ CliStep /\ cli.turn # NoTurn /\ cli.open = {}
    /\ promise => cli.turn = Ralph /\ ~bad
    /\ cli' = [cli EXCEPT !.turn = NoTurn]
    /\ stdout' = stdout \o (IF promise THEN <<Msg("promise", NoTurn)>> ELSE <<>>)
                        \o <<[k |-> "result", of |-> cli.turn, bad |-> bad]>>
    /\ UNCHANGED stdin

CliExits(code) ==
    /\ CliStep
    /\ cli' = [cli EXCEPT !.alive = FALSE, !.code = code]
    /\ stdin' = <<>>
    /\ UNCHANGED stdout

-----------------------------------------------------------------------------
CallerNext ==
    \/ \E t \in Tickets : SendMessage(t)
    \/ Interrupt \/ StopSession \/ StartRalphLoop \/ CancelRalphLoop \/ AppExit
    \/ \E p \in Prompts, keep \in BOOLEAN : Respond(p, keep)

ActorNext ==
    \/ \E expired \in BOOLEAN : HandleSendMessage(expired) \/ ReadResult(expired)
    \/ HandleInterrupt \/ HandleStop \/ HandleResponse \/ HandleStartRalph
    \/ HandleCancelRalph \/ ReadPromise \/ ReadPrompt \/ ReadWithdraw
    \/ HardTimeout \/ QuarantineInterrupt \/ QuarantineKill \/ RetryRalph
    \/ HandleEof \/ HandleCancelled \/ Cleanup

CliNext ==
    \/ CliTakesTurn \/ CliTakesAnswer \/ CliTakesInterrupt
    \/ \E p \in Prompts : CliPrompts(p) \/ CliWithdrawsPrompt(p)
    \/ \E bad, promise \in BOOLEAN : CliFinishes(bad, promise)
    \/ \E code \in {"zero", "other"} : CliExits(code)

Next == CallerNext \/ ActorNext \/ CliNext

Spec == Init /\ [][Next]_vars

\* The runtime polls every ready branch of select!, a timer that is armed fires,
\* and the user answers what is on the screen; the CLI owes nothing, but a
\* process whose stdin was closed is reaped.
Fairness ==
    /\ WF_vars(\E expired \in BOOLEAN : HandleSendMessage(expired))
    /\ WF_vars(HandleInterrupt \/ HandleStop \/ HandleResponse \/ HandleStartRalph
               \/ HandleCancelRalph)
    /\ WF_vars(ReadPromise \/ ReadPrompt \/ ReadWithdraw
               \/ \E expired \in BOOLEAN : ReadResult(expired))
    /\ WF_vars(HardTimeout) /\ WF_vars(QuarantineInterrupt) /\ WF_vars(QuarantineKill)
    /\ WF_vars(HandleEof) /\ WF_vars(HandleCancelled) /\ WF_vars(Cleanup)
    /\ WF_vars(actor = "closing" /\ CliExits("other"))
    /\ \A p \in Prompts : WF_vars(\E keep \in BOOLEAN : Respond(p, keep))

FairSpec == Spec /\ Fairness

-----------------------------------------------------------------------------
EngineType ==
    [active : Turns \cup {NoTurn}, quarantine : BOOLEAN, interruptSent : BOOLEAN,
     queue : Seq(Tickets),
     loop : [phase : Phases, iter : Nat, fails : 0 .. MaxFailures - 1, text : BOOLEAN],
     pendingInterrupt : BOOLEAN, pending : SUBSET Prompts, remembered : BOOLEAN,
     state : {"", "running", "idle", "completed", "failed", "stopped"},
     gotError : BOOLEAN,
     status : {"running", "idle", "completed", "failed", "stopped"},
     metaError : BOOLEAN,
     reply : [Tickets -> {"none", "waiting", "ok", "err"}],
     answers : [Prompts -> Nat],
     interrupted : BOOLEAN,
     outcome : {"none", "ok", "error", "swallowed", "timeout"}, out : Seq(Message)]

TypeOK ==
    /\ actor \in {"running", "closing", "gone"}
    /\ eng \in EngineType
    /\ mailbox \in Seq(Command)
    /\ stdin \in Seq(Message) /\ stdout \in Seq(Message)
    /\ cli \in [alive : BOOLEAN, turn : Turns \cup {NoTurn}, open : SUBSET Prompts,
                used : SUBSET Prompts, taken : Seq(Tickets),
                code : {"none", "zero", "other", "signal"}]
    /\ cards \subseteq Prompts /\ cancelled \in BOOLEAN
    /\ asked \in Seq(Tickets)
    /\ interrupts \in 0 .. MaxInterrupts /\ loops \in 0 .. MaxLoops

Occurrences(s, k) == Cardinality({i \in DOMAIN s : s[i].k = k})

\* HC #1, one turn at a time, measured at the process: of the turns written to
\* stdin at most one has not yet had its result read, whatever timeouts,
\* interrupts and late results did to active_turn.
OneTurnInCli ==
    actor = "running" /\ cli.alive =>
        Occurrences(stdin, "user") + Occurrences(stdout, "result")
            + (IF cli.turn = NoTurn THEN 0 ELSE 1) <= 1

\* HC #12: a caller that still waits for its reply has its ticket in exactly one
\* place, the mailbox or the queue; with the actor gone nobody waits.
NoTicketLost ==
    \A t \in Tickets :
        Cardinality({i \in DOMAIN mailbox : mailbox[i] = Cmd("send", t)})
          + Cardinality({i \in DOMAIN eng.queue : eng.queue[i] = t})
          = IF eng.reply[t] = "waiting" THEN 1 ELSE 0

\* A caller that was told Err may safely send the message again: it was not, and
\* will not be, taken by the CLI.
ErrNotRun ==
    \A t \in Tickets : eng.reply[t] = "err" =>
        ~Contains(cli.taken, t) /\ ~Contains(stdin, Msg("user", t))

\* t was sent before u; nothing is sent twice.
Before(t, u) == \E a, b \in DOMAIN asked : a < b /\ asked[a] = t /\ asked[b] = u

\* The CLI sees the users' messages in the order they were sent, across the
\* queue, the Ralph turns in between and the turns that were quarantined.
TurnsInOrder ==
    /\ \A t \in Tickets : Contains(cli.taken, t) => Contains(asked, t)
    /\ \A i, j \in DOMAIN cli.taken : i < j => Before(cli.taken[i], cli.taken[j])

\* Work conservation: while the CLI lives, a queued message or a running Ralph
\* loop always has a turn or a quarantine ahead of it that will dispatch it.
NothingStalled ==
    actor = "running" /\ cli.alive
      /\ (eng.queue # <<>> \/ eng.loop.phase = "running")
    => eng.active # NoTurn \/ eng.quarantine

\* The state the frontends were last sent is "running" exactly while a turn is
\* active or being given up: no spinner without a turn, no idle prompt over one.
SpinnerHonest ==
    actor = "running" =>
        (eng.state = "running" <=> eng.active # NoTurn \/ eng.quarantine)

\* A request of the CLI gets at most one response, whoever answers it: two
\* clients, the remembered tool, the quarantine.
OneAnswer == \A p \in Prompts : eng.answers[p] <= 1

\* A prompt the CLI waits for is never out of reach: its line is still to be
\* read, or the user can answer it, or its answer is on the way.
PromptReachable ==
    actor = "running" /\ cli.alive =>
        \A p \in cli.open : \/ Contains(stdout, Msg("prompt", p))
                            \/ p \in eng.pending /\ p \in cards
                            \/ Contains(stdin, Msg("answer", p))

\* A run ends Failed only for a bad exit, a timeout, or the error of its last
\* turn as it was shown to the user; it ends Completed only without those.
\* An error an earlier turn left in memory or in meta.json decides neither.
VerdictJustified ==
    /\ eng.status = "failed" =>
           cli.code \in {"other", "signal"} \/ eng.outcome \in {"error", "timeout"}
    /\ eng.status = "completed" =>
           cli.code = "zero" /\ eng.outcome \notin {"error", "timeout"}

\* HC #15, #16: a quarantine ends, by a result, a kill or the end of the process.
QuarantineEnds == eng.quarantine ~> (~eng.quarantine \/ actor = "gone")

\* A CLI that hangs cannot hold a message back: every caller gets its reply.
TicketAnswered ==
    \A t \in Tickets : eng.reply[t] = "waiting" ~> eng.reply[t] \in {"ok", "err"}

-----------------------------------------------------------------------------
(* What comments of the code say, and it does not do.                      *)

\* The error of a turn during which the user interrupted nothing is shown; it is
\* never taken for the acknowledgement of an interrupt that came too late for
\* the turn before.
ErrorShown == eng.outcome # "swallowed"

\* A Ralph turn's top-level text is accumulated, so that its promise is found.
PromiseHeard ==
    [][ReadPromise /\ IsRalphTurn(eng) /\ ~eng.quarantine /\ eng.loop.phase # "none"
        => eng'.loop.text]_vars
=============================================================================
