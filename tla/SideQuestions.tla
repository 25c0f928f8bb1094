--------------------------- MODULE SideQuestions ---------------------------
(***************************************************************************)
(* Side questions: side_question and codex_side_question of                 *)
(* commands/session.rs, and the panel of the chat page that shows the       *)
(* answer (+page.svelte).                                                   *)
(*                                                                         *)
(* A question is put to a CLI process of its own.  A task of the app reads  *)
(* what the process writes and emits btw-delta, btw-complete and btw-error; *)
(* the page shows what it hears in the one panel it has, whichever question *)
(* the event is about.                                                      *)
(*                                                                         *)
(* A piece of an answer is the number of its question.  What the process is *)
(* asked, its model and its provider are in ProviderEnv; the session it     *)
(* answers from is not touched (--fork-session, --no-session-persistence,   *)
(* --ephemeral).                                                            *)
(***************************************************************************)
EXTENDS Integers, Sequences, SequencesExt

CONSTANTS
  MaxQuestions, \* bound: questions
  MaxLines      \* bound: lines with text in one answer

VARIABLES
  agent,    \* the agent of the conversation
  asked,    \* questions so far
  panel,    \* btwState
  call,     \* the side_question call of each question
  cli,      \* its process, and what it has written that was not read
  wrote,    \* history: lines with text it has written
  reader,   \* the task that reads it
  wire,     \* events on their way to the page
  mixed     \* history: questions asked while an earlier one was not over

vars == <<agent, asked, panel, call, cli, wrote, reader, wire, mixed>>

Questions == 1..MaxQuestions
NoPanel == [active |-> FALSE, question |-> 0, answer |-> <<>>, error |-> "", loading |-> FALSE]
NoReader == [stage |-> "none", content |-> FALSE, error |-> ""]

(* Why an answer failed: as the CLI said it, or as the app found. *)
Errors == {"", "said", "failed", "late", "call"}

TypeOK ==
  /\ agent \in {"claude", "codex"} /\ asked \in 0..MaxQuestions
  /\ panel.question \in 0..asked /\ panel.answer \in Seq(1..asked)
  /\ panel.active \in BOOLEAN /\ panel.loading \in BOOLEAN /\ panel.error \in Errors
  /\ call \in [Questions -> {"none", "sent", "refused", "back"}]
  /\ \A q \in Questions : /\ cli[q].state \in {"none", "runs", "quiet", "exited", "killed"}
                          /\ cli[q].out \in Seq({"text", "result", "error"})
                          /\ reader[q].stage \in {"none", "reads", "waits", "over"}
                          /\ reader[q].error \in Errors
  /\ wrote \in [Questions -> 0..MaxLines]
  /\ \A k \in DOMAIN wire : wire[k].question \in 1..asked
  /\ mixed \subseteq Questions

Init ==
  /\ agent \in {"claude", "codex"}
  /\ asked = 0 /\ panel = NoPanel
  /\ call = [q \in Questions |-> "none"]
  /\ cli = [q \in Questions |-> [state |-> "none", out |-> <<>>]]
  /\ wrote = [q \in Questions |-> 0]
  /\ reader = [q \in Questions |-> NoReader]
  /\ wire = <<>> /\ mixed = {}

Delta(q) == [type |-> "delta", question |-> q, error |-> ""]
Complete(q) == [type |-> "complete", question |-> q, error |-> ""]
Failed(q, why) == [type |-> "error", question |-> q, error |-> why]

(* Nothing of the question q can still reach the page. *)
Over(q) ==
  /\ call[q] \in {"none", "back"} /\ reader[q].stage \in {"none", "over"}
  /\ \A k \in DOMAIN wire : wire[k].question # q

-----------------------------------------------------------------------------
(* The page *)

(* handleBtwSend: the panel is emptied for the question, shown or not. *)
Ask ==
  /\ asked < MaxQuestions
  /\ asked' = asked + 1
  /\ panel' = [NoPanel EXCEPT !.active = TRUE, !.question = asked + 1, !.loading = TRUE]
  /\ call' = [call EXCEPT ![asked + 1] = "sent"]
  /\ mixed' = IF \A q \in 1..asked : Over(q) THEN mixed ELSE mixed \cup {asked + 1}
  /\ UNCHANGED <<agent, cli, wrote, reader, wire>>

(* The cross of the panel. *)
Close ==
  /\ panel.active
  /\ panel' = [panel EXCEPT !.active = FALSE]
  /\ UNCHANGED <<agent, asked, call, cli, wrote, reader, wire, mixed>>

(* The call failed: no such run, no session to resume, no CLI.  (Else it      *)
(* returns the id of the question, which nothing looks at.)                 *)
CallFails(q) ==
  /\ call[q] = "refused"
  /\ call' = [call EXCEPT ![q] = "back"]
  /\ panel' = [panel EXCEPT !.error = "call", !.loading = FALSE]
  /\ UNCHANGED <<agent, asked, cli, wrote, reader, wire, mixed>>

(* The listeners do not filter by btw_id. *)
Heard(e) ==
  CASE e.type = "delta" -> [panel EXCEPT !.answer = Append(@, e.question)]
    [] e.type = "complete" -> [panel EXCEPT !.loading = FALSE]
    [] e.type = "error" -> [panel EXCEPT !.error = e.error, !.loading = FALSE]

Hear ==
  /\ wire # <<>>
  /\ wire' = Tail(wire)
  /\ panel' = IF panel.active THEN Heard(Head(wire)) ELSE panel
  /\ UNCHANGED <<agent, asked, call, cli, wrote, reader, mixed>>

-----------------------------------------------------------------------------
(* side_question, codex_side_question *)

(* A process is spawned for the question, and a task to read it. *)
Started(q) ==
  /\ cli' = [cli EXCEPT ![q].state = "runs"]
  /\ reader' = [reader EXCEPT ![q].stage = "reads"]

SideQuestion(q) ==
  /\ call[q] = "sent"
  /\ \/ call' = [call EXCEPT ![q] = "back"] /\ Started(q)
     \/ /\ call' = [call EXCEPT ![q] = "refused"]
        /\ UNCHANGED <<cli, reader>>
  /\ UNCHANGED <<agent, asked, panel, wrote, wire, mixed>>

Alive(q) == cli[q].state \in {"runs", "quiet"}

(* The CLI writes a line.  A result and an error are Claude's last. *)
CliWrites(q, line) ==
  /\ cli[q].state = "runs"
  /\ line = "text" => wrote[q] < MaxLines
  /\ line = "result" => agent = "claude"
  /\ Len(cli[q].out) < MaxLines     \* bound: lines that wait to be read
  /\ cli' = [cli EXCEPT ![q].out = Append(@, line),
                        ![q].state = IF line # "text" /\ agent = "claude" THEN "quiet" ELSE @]
  /\ wrote' = [wrote EXCEPT ![q] = IF line = "text" THEN @ + 1 ELSE @]
  /\ UNCHANGED <<agent, asked, panel, call, reader, wire, mixed>>

CliExits(q) ==
  /\ Alive(q)
  /\ cli' = [cli EXCEPT ![q].state = "exited"]
  /\ UNCHANGED <<agent, asked, panel, call, wrote, reader, wire, mixed>>

(* A line is read.  Claude's reader stops at a result or an error; Codex's    *)
(* keeps the last error and reads to the end.                               *)
ReadLine(q) ==
  /\ reader[q].stage = "reads" /\ cli[q].out # <<>>
  /\ LET line == Head(cli[q].out)
     IN /\ wire' = CASE line = "text" -> Append(wire, Delta(q))
                     [] line = "error" /\ agent = "claude" -> Append(wire, Failed(q, "said"))
                     [] OTHER -> wire
        /\ reader' = [reader EXCEPT ![q] =
             [stage |-> IF line # "text" /\ agent = "claude" THEN "waits" ELSE "reads",
              content |-> @.content \/ line = "text",
              error |-> IF line = "error" /\ agent = "codex" THEN "said" ELSE @.error]]
  /\ cli' = [cli EXCEPT ![q].out = Tail(@)]
  /\ UNCHANGED <<agent, asked, panel, call, wrote, mixed>>

(* The end of what the process wrote. *)
EndOfOutput(q) ==
  /\ reader[q].stage = "reads" /\ cli[q].out = <<>> /\ ~Alive(q)
  /\ reader' = [reader EXCEPT ![q].stage = "waits"]
  /\ UNCHANGED <<agent, asked, panel, call, cli, wrote, wire, mixed>>

(* decide_btw_outcome, and what side_question decides in its place. *)
Outcome(q) ==
  IF reader[q].content THEN Complete(q)
  ELSE Failed(q, IF reader[q].error = "" THEN "failed" ELSE reader[q].error)

(* Claude's process is waited for only when it said nothing, and killed;      *)
(* Codex's is waited for.                                                   *)
Settle(q) ==
  /\ reader[q].stage = "waits"
  /\ Alive(q) => agent = "claude" /\ reader[q].content
  /\ wire' = Append(wire, Outcome(q))
  /\ reader' = [reader EXCEPT ![q].stage = "over"]
  /\ cli' = [cli EXCEPT ![q].state = IF Alive(q) THEN "killed" ELSE @, ![q].out = <<>>]
  /\ UNCHANGED <<agent, asked, panel, call, wrote, mixed>>

(* 120 seconds, which only a question to Codex has. *)
TimeOut(q) ==
  /\ agent = "codex" /\ reader[q].stage \in {"reads", "waits"}
  /\ cli' = [cli EXCEPT ![q] = [state |-> IF Alive(q) THEN "killed" ELSE @.state,
                                out |-> <<>>]]
  /\ wire' = Append(wire, Failed(q, "late"))
  /\ reader' = [reader EXCEPT ![q].stage = "over"]
  /\ UNCHANGED <<agent, asked, panel, call, wrote, mixed>>

Next ==
  \/ Ask \/ Close \/ Hear
  \/ \E q \in Questions :
       \/ SideQuestion(q) \/ CallFails(q)
       \/ \E line \in {"text", "result", "error"} : CliWrites(q, line)
       \/ CliExits(q) \/ ReadLine(q) \/ EndOfOutput(q) \/ Settle(q) \/ TimeOut(q)

Spec == Init /\ [][Next]_vars

-----------------------------------------------------------------------------
(* What a side question promises.                                           *)

(* The question the panel shows, which was asked when no other was under way. *)
Alone == panel.active /\ panel.question \notin mixed

(* The panel shows the answer to its question and nothing of another's: each *)
(* piece the process wrote, once, unless it is still loading, timed out or   *)
(* failed.  An answer that is complete is whole.                            *)
AnswerOfQuestion ==
  Alone => /\ ToSet(panel.answer) \subseteq {panel.question}
           /\ Len(panel.answer) <= wrote[panel.question]
           /\ ~panel.loading /\ panel.error = "" => Len(panel.answer) > 0
           /\ ~panel.loading /\ panel.error # "late" => Len(panel.answer) = wrote[panel.question]

(* When nothing is under way the panel does not load, it shows an answer or  *)
(* an error, and no process of a question runs: also when questions were    *)
(* mixed, closed, timed out or refused.                                     *)
Settled ==
  (\A q \in Questions : Over(q))
    => /\ ~panel.loading \/ ~panel.active
       /\ panel.active => panel.error # "" \/ panel.answer # <<>>
       /\ \A q \in Questions : ~Alive(q)

(* What Codex said went wrong is what the panel says of an answer without     *)
(* text.  (Claude's error is overwritten by the one for an empty answer.)   *)
ErrorShown ==
  \A q \in Questions :
    Alone /\ panel.question = q /\ Over(q) /\ agent = "codex" /\ reader[q].error = "said"
      => panel.error \in {"said", "late"} \/ panel.answer # <<>>

SideQuestionsTrue == AnswerOfQuestion /\ Settled /\ ErrorShown
=============================================================================
