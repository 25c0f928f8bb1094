------------------------ MODULE InteractionResponses ------------------------
(***************************************************************************)
(* The answer to one request of the CLI (a permission, a hook, a question), *)
(* from the button on a page to the CLI and back, through failures and     *)
(* restarts: deliver_interaction_response (agent/session_actor.rs), the    *)
(* history summary a page is loaded from (storage/history.rs), the cards   *)
(* of the pages (session-store.svelte.ts) and what a page makes of an error *)
(* ([interaction:...], routes/chat/+page.svelte).                          *)
(*                                                                         *)
(* Around the write to the CLI the actor writes durable facts: a response   *)
(* has been started, has failed, is resolved.  Which tool a card belongs    *)
(* to, whether the user allows or denies, and the dismissal of a prompt,    *)
(* which no page offers, are left out.                                      *)
(***************************************************************************)
EXTENDS Naturals, Sequences, SequencesExt

CONSTANTS
  Pages,     \* the pages that show the run
  MaxEnds    \* bound: how often the session ends

VARIABLES
  log,       \* the events of events.jsonl that concern the request
  session,   \* the actor: lives, its pending entry, what it does for whom
  answers,   \* answers to the request that have reached the CLI
  card,      \* the request's card on each page
  cursor,    \* how much of the log each page has processed
  call,      \* each page's respond_permission
  ghost,     \* history: a write that was reported as failed is in the log
  blind,     \* history: pages that gave up on a call without its answer
  ends

vars == <<log, session, answers, card, cursor, call, ghost, blind, ends>>

Steps == {"prompt", "started", "failed", "resolved", "withdrawn", "spawning", "running", "idle"}
Nobody == [page |-> "none"]
Silent == [alive |-> FALSE, pending |-> FALSE, step |-> "loop", for |-> Nobody]

TypeOK ==
  /\ log \in Seq(Steps)
  /\ session \in [alive : BOOLEAN, pending : BOOLEAN, step : {"loop", "write", "failed", "resolved"},
                  for : Pages \cup {Nobody}]
  /\ answers \in Nat
  /\ card \in [Pages -> {"none", "prompt", "pending", "running", "failed", "error"}]
  /\ cursor \in [Pages -> 0..Len(log)]
  /\ call \in [Pages -> {"none", "sent", "ok", "notStarted", "uncertain"}]
  /\ ghost \in BOOLEAN /\ blind \subseteq Pages
  /\ ends \in 0..MaxEnds

(* The CLI's turn is under way when it asks. *)
Init ==
  /\ log = <<"prompt">>
  /\ session = [Silent EXCEPT !.alive = TRUE, !.pending = TRUE]
  /\ answers = 0
  /\ card = [p \in Pages |-> "none"]
  /\ cursor = [p \in Pages |-> 0]
  /\ call = [p \in Pages |-> "none"]
  /\ ghost = FALSE /\ blind = {}
  /\ ends = 0

-----------------------------------------------------------------------------
(* Cards *)

(* applyEvent *)
Reduce(shown, event) ==
  CASE event = "prompt" -> "prompt"
    [] event = "started" /\ shown \in {"prompt", "running", "pending"} -> "pending"
    [] event = "failed" /\ shown \in {"prompt", "running", "pending"} -> "failed"
    [] event = "resolved" /\ shown \in {"prompt", "running", "pending"} -> "running"
    [] event = "withdrawn" /\ shown \in {"prompt", "running", "pending"} -> "error"
    [] event \in {"idle", "spawning"} /\ shown \in {"prompt", "running"} -> "error"
    [] OTHER -> shown

\* Mutant: the prompt is replayed after the response that was begun.
KeepPromptLast(kept, event) ==
  CASE event = "prompt" -> Append(kept, event)
    [] event \in {"started", "failed"} /\ kept # <<>> -> <<event, "prompt">>
    [] event \in {"resolved", "withdrawn"} -> <<>>
    [] OTHER -> kept

(* handle_event of the history: a prompt is kept until it is answered or    *)
(* withdrawn; a response that was started, or has failed, is kept with it.  *)
Keep(kept, event) ==
  CASE event = "prompt" -> Append(kept, event)
    [] event \in {"started", "failed"} /\ kept # <<>> -> <<"prompt", event>>
    [] event \in {"resolved", "withdrawn"} -> <<>>
    [] OTHER -> kept

(* The summary of a prefix replays what is kept in the order of the log,    *)
(* with the last state of the run only.                                     *)
LastState(events) ==
  LET states == SelectInSeq(Reverse(events), LAMBDA e : e \in {"spawning", "running", "idle"})
  IN IF states = 0 THEN <<>> ELSE <<Reverse(events)[states]>>

SummaryCard(events) ==
  LET kept == FoldLeft(Keep, <<>>, events)
  IN IF events = <<>> THEN "none"
     ELSE FoldLeft(Reduce, "running", kept \o LastState(events))

(* A page loads the run from the summary of any prefix, and catches up from *)
(* there.  What is open in a run that has ended is closed.                  *)
Load(p) ==
  /\ call[p] = "none"
  /\ \E n \in 0..Len(log) :
       /\ cursor' = [cursor EXCEPT ![p] = n]
       /\ card' = [card EXCEPT ![p] =
            IF ~session.alive /\ SummaryCard(SubSeq(log, 1, n)) \in {"prompt", "running"}
            THEN "error" ELSE SummaryCard(SubSeq(log, 1, n))]
  /\ blind' = blind \ {p}
  /\ UNCHANGED <<log, session, answers, call, ghost, ends>>

(* The next event, live or in a replay. *)
Deliver(p) ==
  /\ cursor[p] < Len(log)
  /\ cursor' = [cursor EXCEPT ![p] = @ + 1]
  /\ card' = [card EXCEPT ![p] = Reduce(@, log[cursor'[p]])]
  /\ UNCHANGED <<log, session, answers, call, ghost, blind, ends>>

(* The user answers: only a prompt has buttons. *)
Click(p) ==
  /\ card[p] = "prompt" /\ call[p] = "none"
  /\ call' = [call EXCEPT ![p] = "sent"]
  /\ UNCHANGED <<log, session, answers, card, cursor, ghost, blind, ends>>

(* The call returns.  After [interaction:not_started] the buttons are       *)
(* unlocked, after any other error the page records a failed response.      *)
Return(p) ==
  /\ call[p] \in {"ok", "notStarted", "uncertain"}
  /\ call' = [call EXCEPT ![p] = "none"]
  /\ card' = [card EXCEPT ![p] =
       CASE call[p] = "ok" -> IF @ = "prompt" THEN "running" ELSE @
         [] call[p] = "uncertain" -> Reduce(@, "failed")
         [] OTHER -> @]
  /\ UNCHANGED <<log, session, answers, cursor, ghost, blind, ends>>

(* The request times out or its connection is lost. *)
GiveUp(p) ==
  /\ call[p] = "sent"
  /\ call' = [call EXCEPT ![p] = "uncertain"]
  /\ blind' = blind \cup {p}
  /\ session' = IF session.for = p THEN [session EXCEPT !.for = Nobody] ELSE session
  /\ UNCHANGED <<log, answers, card, cursor, ghost, ends>>

-----------------------------------------------------------------------------
(* deliver_interaction_response *)

Reply(p, how) == call' = IF p = Nobody THEN call ELSE [call EXCEPT ![p] = how]

(* persist_and_emit_durable: written, not written, or, once, reported as    *)
(* failed although the line is complete and the next writer will keep it.   *)
Persist(event, ok) ==
  \/ ok /\ log' = Append(log, event) /\ UNCHANGED ghost
  \/ ~ok /\ UNCHANGED <<log, ghost>>
  \/ ~ok /\ ~ghost /\ log' = Append(log, event) /\ ghost' = TRUE

(* Validation and the durable start come first; the entry goes with them.   *)
Begin(p) ==
  /\ session.alive /\ session.step = "loop"
  /\ call[p] = "sent"
  /\ \/ /\ ~session.pending
        /\ Reply(p, "notStarted")
        /\ UNCHANGED <<log, session, ghost>>
     \/ /\ session.pending
        /\ Persist("started", FALSE)
        /\ Reply(p, "notStarted")
        /\ UNCHANGED session
     \/ /\ session.pending
        /\ Persist("started", TRUE)
        /\ session' = [session EXCEPT !.pending = FALSE, !.step = "write", !.for = p]
        /\ UNCHANGED call
  /\ UNCHANGED <<answers, card, cursor, blind, ends>>

(* The write.  One that fails may still have reached the CLI. *)
Write ==
  /\ session.step = "write"
  /\ \/ answers' = answers + 1 /\ session' = [session EXCEPT !.step = "resolved"]
     \/ /\ answers' \in {answers, answers + 1}
        /\ session' = [session EXCEPT !.step = "failed"]
  /\ UNCHANGED <<log, card, cursor, call, ghost, blind, ends>>

Finish ==
  /\ session.step \in {"failed", "resolved"}
  /\ \E ok \in BOOLEAN :
       /\ Persist(session.step, ok)
       /\ Reply(session.for, IF ok /\ session.step = "resolved" THEN "ok" ELSE "uncertain")
  /\ session' = [session EXCEPT !.step = "loop", !.for = Nobody]
  /\ UNCHANGED <<answers, card, cursor, blind, ends>>

-----------------------------------------------------------------------------
(* The session *)

(* The CLI withdraws its request, which the actor only passes on, when the  *)
(* turn is interrupted; then the turn ends.                                 *)
Withdraw ==
  /\ session.alive /\ session.step = "loop"
  /\ Last(log) = "prompt"
  /\ log' = log \o <<"withdrawn", "idle">>
  /\ UNCHANGED <<session, answers, card, cursor, call, ghost, blind, ends>>

(* The CLI ends, or the application does: the calls under way fail. *)
End ==
  /\ session.alive /\ ends < MaxEnds
  /\ ends' = ends + 1
  /\ session' = Silent
  /\ call' = [p \in Pages |-> IF call[p] = "sent" THEN "uncertain" ELSE call[p]]
  /\ UNCHANGED <<log, answers, card, cursor, ghost, blind>>

(* A call to a session that is not there. *)
NoSession(p) ==
  /\ ~session.alive /\ call[p] = "sent"
  /\ call' = [call EXCEPT ![p] = "uncertain"]
  /\ UNCHANGED <<log, session, answers, card, cursor, ghost, blind, ends>>

(* The run is resumed with a CLI that knows nothing of the request. *)
Resume ==
  /\ ~session.alive
  /\ session' = [Silent EXCEPT !.alive = TRUE]
  /\ log' = log \o <<"spawning", "running">>
  /\ UNCHANGED <<answers, card, cursor, call, ghost, blind, ends>>

Next ==
  \/ \E p \in Pages :
       Load(p) \/ Deliver(p) \/ Click(p) \/ Return(p) \/ GiveUp(p) \/ Begin(p) \/ NoSession(p)
  \/ Write \/ Finish \/ Withdraw \/ End \/ Resume

Spec == Init /\ [][Next]_vars

-----------------------------------------------------------------------------
(* Properties *)

(* The CLI gets at most one answer, and once one may have reached it no     *)
(* page that has processed the log offers the request again, whether the    *)
(* page was there or is loaded later, from whichever summary, and whatever *)
(* failed or restarted in between.                                          *)
AnsweredOnce ==
  /\ answers <= 1
  /\ \A p \in Pages : cursor[p] = Len(log) /\ card[p] = "prompt" => answers = 0

(* As long as the CLI waits and no answer was begun, each page that has     *)
(* processed the log offers the request, also after attempts that were      *)
(* rejected: the user is never left with a session that waits for ever.     *)
(* The exceptions: the page gave up on a call whose rejection it never      *)
(* heard, until it is loaded again, or a failed write of the start is in    *)
(* the log all the same.                                                    *)
StillOffered ==
  session.alive /\ session.pending /\ "withdrawn" \notin Range(log) /\ ~ghost =>
    \A p \in Pages \ blind :
      cursor[p] = Len(log) /\ call[p] \in {"none", "sent", "notStarted"} => card[p] = "prompt"

=============================================================================
