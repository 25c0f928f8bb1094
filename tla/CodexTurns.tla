----------------------------- MODULE CodexTurns -----------------------------
(***************************************************************************)
(* The turns of a Codex thread: how messages, steers, interrupts, settings   *)
(* and other requests of the user reach the app-server, and how its reports  *)
(* reach the page (agent/codex_appserver.rs, handle_codex_control and        *)
(* handle_codex_line of agent/session_actor.rs, the chat page).             *)
(*                                                                         *)
(* The actor and the server talk through two pipes, so each acts on what the *)
(* other was some messages ago.  The actor knows the turn it has sent; the   *)
(* driver knows the turn the server says it runs, and only that can be       *)
(* steered or interrupted.  The page may be behind the actor, so it may      *)
(* steer or interrupt at any time.                                         *)
(*                                                                         *)
(* A setting stands for model, effort, approvals and sandbox, which are      *)
(* handled alike.  Threads of sub-agents and requests of the server are in   *)
(* CodexAppServer, the turn engine is in SessionActor.                      *)
(***************************************************************************)
EXTENDS Integers, Sequences, FiniteSets

CONSTANTS
  Values,       \* of the setting
  MaxTurns,     \* bound: messages
  MaxActs,      \* bound: steers, interrupts, choices and calls
  MaxUpdates,   \* bound: reports of the server
  MaxProcs,     \* bound: processes
  MaxRefusals   \* bound: turns the server refuses

VARIABLES
  saved,        \* the setting in agent settings and meta.json
  choice,       \* a choice of the page that has been saved and not switched
  actor,        \* the actor and its driver
  toServer,     \* the server's stdin
  fromServer,   \* its stdout
  server,       \* the turn it runs, and the value it applies
  made,         \* what this process has reported last, by card
  cards,        \* the cards on the page, in order
  calls,        \* what became of each call that wants data
  turns,        \* messages sent so far
  acts, reports, procs, refusals,
  missed,       \* history: a choice came while a process was spawned
  want,         \* history: the setting when a turn was sent
  ran,          \* history: the setting with which each turn ran
  texts         \* history: what became of each steered text

pipes == <<toServer, fromServer>>
serverVars == <<server, made, reports, refusals>>
settingVars == <<saved, choice, missed>>
history == <<want, ran, texts>>
vars == <<settingVars, actor, pipes, serverVars, cards, calls, turns, acts, procs, history>>

None == "none"
Turns == 1..MaxTurns
Kinds == {"item", "plan", "hook", "diff"}
Message(m, turn, x) == [m |-> m, turn |-> turn, x |-> x]

(* No process.  In the state "starting" the settings have been read and the  *)
(* actor is not in the session map yet; "limbo" is the quarantine.          *)
NoActor == [state |-> "none", ready |-> FALSE, turn |-> 0, queue |-> <<>>, active |-> 0,
            replay |-> FALSE, startup |-> None, override |-> None]

Alive == actor.state \in {"up", "limbo"}

TypeOK ==
  /\ saved \in Values /\ choice \in Values \cup {None}
  /\ actor.state \in {"none", "starting", "up", "limbo"}
  /\ actor.turn \in 0..MaxTurns /\ actor.active \in 0..MaxTurns
  /\ \A i \in DOMAIN actor.queue : actor.queue[i] \in Turns
  /\ server.turn \in 0..MaxTurns /\ server.value \in Values
  /\ \A i \in DOMAIN toServer : toServer[i].m \in {"open", "start", "interrupt", "steer", "ask"}
  /\ DOMAIN made = DOMAIN made \cap (Kinds \X (0..MaxTurns))
  /\ \A i \in DOMAIN cards : cards[i].version \in 0..MaxUpdates
  /\ \A i \in DOMAIN calls : calls[i] \in {"asked", "answered", "late", "refused", "closed"}
  /\ missed \in BOOLEAN

Init ==
  /\ saved \in Values /\ choice = None /\ missed = FALSE
  /\ actor = NoActor
  /\ toServer = <<>> /\ fromServer = <<>>
  /\ server \in [turn : {0}, value : Values]
  /\ made = <<>> /\ cards = <<>> /\ calls = <<>>
  /\ turns = 0 /\ acts = 0 /\ reports = 0 /\ procs = 0 /\ refusals = 0
  /\ want = <<>> /\ ran = <<>> /\ texts = <<>>

-----------------------------------------------------------------------------
(* try_dispatch and frame_user_turn: the first turn of a process replays the *)
(* settings it was spawned with, unless the user has chosen others since.    *)

CanGo(a) == a.state = "up" /\ a.ready /\ a.turn = 0 /\ a.queue # <<>>

ValueSent(a) ==
  IF a.override # None THEN a.override ELSE IF a.replay THEN a.startup ELSE None

(* What the user would expect of a turn sent now, if that is clear. *)
Expected == IF choice # None \/ missed THEN None ELSE saved

Dispatch(a) ==
  IF CanGo(a)
  THEN /\ actor' = [a EXCEPT !.turn = Head(a.queue), !.queue = Tail(a.queue), !.replay = FALSE]
       /\ toServer' = Append(toServer, Message("start", Head(a.queue), ValueSent(a)))
       /\ want' = Append(want, <<Head(a.queue), Expected>>)
  ELSE actor' = a /\ UNCHANGED <<toServer, want>>

-----------------------------------------------------------------------------
(* The page and the commands *)

(* start_session, with a message: the settings are read, *)
Start ==
  /\ actor.state = "none" /\ procs < MaxProcs /\ turns < MaxTurns
  /\ procs' = procs + 1 /\ turns' = turns + 1
  /\ actor' = [NoActor EXCEPT !.state = "starting", !.startup = saved, !.replay = TRUE,
                              !.queue = <<turns + 1>>]
  /\ missed' = FALSE
  /\ UNCHANGED <<saved, choice, pipes, serverVars, cards, calls, acts, history>>

(* then the process is spawned.  What a resumed thread applies is up to it. *)
Spawned ==
  /\ actor.state = "starting"
  /\ actor' = [actor EXCEPT !.state = "up"]
  /\ toServer' = <<Message("open", 0, None)>> /\ fromServer' = <<>>
  /\ server' \in [turn : {0}, value : Values]
  /\ UNCHANGED <<settingVars, made, reports, refusals, cards, calls, turns, acts, procs, history>>

SendMessage ==
  /\ Alive /\ turns < MaxTurns
  /\ turns' = turns + 1
  /\ Dispatch([actor EXCEPT !.queue = Append(@, turns + 1)])
  /\ UNCHANGED <<settingVars, fromServer, serverVars, cards, calls, acts, procs, ran, texts>>

Act == acts < MaxActs /\ acts' = acts + 1

(* handleModelChange and its likes save the choice first, *)
Choose(v) ==
  /\ Act /\ choice = None
  /\ saved' = v /\ choice' = v
  /\ UNCHANGED <<missed, actor, pipes, serverVars, cards, calls, turns, procs, history>>

(* and tell the actor, if there is one, for its next turn. *)
HotSwitch ==
  /\ choice # None
  /\ choice' = None
  /\ IF Alive THEN actor' = [actor EXCEPT !.override = choice] ELSE UNCHANGED actor
  /\ missed' = (missed \/ (actor.state = "starting" /\ actor.startup # choice))
  /\ UNCHANGED <<saved, pipes, serverVars, cards, calls, turns, acts, procs, history>>

(* Steer, without an active turn, sends nothing and is acknowledged. *)
Steer ==
  /\ Alive /\ Act
  /\ texts' = Append(texts, IF actor.active = 0 THEN "dropped" ELSE "sent")
  /\ toServer' = IF actor.active = 0 THEN toServer
                 ELSE Append(toServer, Message("steer", actor.active, Len(texts) + 1))
  /\ UNCHANGED <<settingVars, actor, fromServer, serverVars, cards, calls, turns, procs, want, ran>>

Interrupt ==
  /\ Alive /\ Act
  /\ toServer' = IF actor.active = 0 THEN toServer
                 ELSE Append(toServer, Message("interrupt", actor.active, None))
  /\ UNCHANGED <<settingVars, actor, fromServer, serverVars, cards, calls, turns, procs, history>>

(* A request whose answer is for the call i (frame_tracked). *)
AskMessage(i) == Message("ask", 0, i)

(* rollback, fork, goal_get, mcp_status, skills_list, model_list: the answer *)
(* is the server's.  Before there is a thread there is nothing to ask.       *)
Call ==
  /\ Alive /\ Act
  /\ calls' = Append(calls, IF actor.ready THEN "asked" ELSE "refused")
  /\ toServer' = IF actor.ready THEN Append(toServer, AskMessage(Len(calls) + 1)) ELSE toServer
  /\ UNCHANGED <<settingVars, actor, fromServer, serverVars, cards, turns, procs, history>>

(* send_session_control waits for ten seconds. *)
CallTimesOut ==
  /\ \E i \in DOMAIN calls : calls[i] = "asked" /\ calls' = [calls EXCEPT ![i] = "late"]
  /\ UNCHANGED <<settingVars, actor, pipes, serverVars, cards, turns, acts, procs, history>>

-----------------------------------------------------------------------------
(* The server *)

Reads == toServer # <<>> /\ toServer' = Tail(toServer)
Says(messages) == fromServer' = fromServer \o messages
Unasked == <<settingVars, actor, cards, turns, acts, procs, want>>

(* turn/start.  A turn may be refused; nobody reads that answer. *)
ServerStarts ==
  /\ Reads /\ Head(toServer).m = "start"
  /\ LET turn == Head(toServer).turn
         v == IF Head(toServer).x = None THEN server.value ELSE Head(toServer).x
     IN \/ /\ server' = [turn |-> turn, value |-> v]
           /\ ran' = Append(ran, <<turn, v>>)
           /\ made' = [k \in DOMAIN made |-> IF k[1] = "diff" THEN 0 ELSE made[k]]
           /\ Says(<<Message("started", turn, None)>>)
           /\ UNCHANGED refusals
        \/ /\ refusals < MaxRefusals
           /\ refusals' = refusals + 1
           /\ UNCHANGED <<server, ran, made, fromServer>>
  /\ UNCHANGED <<reports, calls, texts>> /\ UNCHANGED Unasked

(* A steer or an interrupt of another turn than the one that runs is refused. *)
ServerSteers ==
  /\ Reads /\ Head(toServer).m = "steer"
  /\ texts' = [texts EXCEPT ![Head(toServer).x] =
                 IF server.turn = Head(toServer).turn THEN "heard" ELSE "tooLate"]
  /\ UNCHANGED <<fromServer, serverVars, calls, ran>> /\ UNCHANGED Unasked

ServerInterrupts ==
  /\ Reads /\ Head(toServer).m = "interrupt"
  /\ IF server.turn = Head(toServer).turn
     THEN server' = [server EXCEPT !.turn = 0] /\ Says(<<Message("completed", server.turn, None)>>)
     ELSE UNCHANGED <<server, fromServer>>
  /\ UNCHANGED <<made, reports, refusals, calls, ran, texts>> /\ UNCHANGED Unasked

ServerAnswers ==
  /\ Reads /\ Head(toServer).m \in {"open", "ask"}
  /\ Says(<<IF Head(toServer).m = "open" THEN Message("opened", 0, None)
            ELSE Message("reply", 0, Head(toServer).x)>>)
  /\ UNCHANGED <<serverVars, calls, ran, texts>> /\ UNCHANGED Unasked

(* A turn ends, at times after a terminal error. *)
ServerEnds ==
  /\ server.turn # 0
  /\ server' = [server EXCEPT !.turn = 0]
  /\ \E error \in {<<>>, <<Message("error", server.turn, None)>>} :
       Says(Append(error, Message("completed", server.turn, None)))
  /\ UNCHANGED <<toServer, made, reports, refusals, calls, ran, texts>> /\ UNCHANGED Unasked

(* A report about what a card shows: an item of the turn (started, output,   *)
(* completed), its plan, a hook, the diff of the turn so far.               *)
CardOf(kind, turn) == <<kind, IF kind = "diff" THEN 0 ELSE turn>>
Version(k) == IF k \in DOMAIN made THEN made[k] ELSE 0

ServerReports(kind) ==
  /\ server.turn # 0 /\ reports < MaxUpdates
  /\ reports' = reports + 1
  /\ LET k == CardOf(kind, server.turn)
     IN /\ made' = [c \in DOMAIN made \cup {k} |-> IF c = k THEN reports + 1 ELSE made[c]]
        /\ Says(<<Message(kind, server.turn, [version |-> reports + 1, first |-> Version(k) = 0])>>)
  /\ UNCHANGED <<toServer, server, refusals, calls, ran, texts>> /\ UNCHANGED Unasked

-----------------------------------------------------------------------------
(* handle_codex_line, with parse_line and handle_notification *)

Hears(m) == actor.state \in {"up", "limbo"} /\ fromServer # <<>> /\ Head(fromServer).m = m
            /\ fromServer' = Tail(fromServer)
Unheard == <<settingVars, serverVars, turns, acts, procs, ran, texts>>

(* The answer to thread/start or thread/resume: what was queued can go. *)
Opened ==
  /\ Hears("opened")
  /\ Dispatch([actor EXCEPT !.ready = TRUE])
  /\ UNCHANGED <<cards, calls>> /\ UNCHANGED Unheard

(* turn/started.  The page drops the diff of the turn before. *)
TurnStarted ==
  /\ Hears("started")
  /\ actor' = [actor EXCEPT !.active = Head(fromServer).turn]
  /\ cards' = [i \in DOMAIN cards |->
                IF cards[i].card[1] = "diff" THEN [cards[i] EXCEPT !.version = 0] ELSE cards[i]]
  /\ UNCHANGED <<toServer, calls, want>> /\ UNCHANGED Unheard

(* turn/completed, turn/failed: the next message goes. *)
TurnEnded ==
  /\ Hears("completed")
  /\ Dispatch([actor EXCEPT !.active = 0, !.turn = 0])
  /\ UNCHANGED <<cards, calls>> /\ UNCHANGED Unheard

(* A terminal error.  One that Codex retries changes nothing. *)
TerminalError ==
  /\ Hears("error")
  /\ actor' = [actor EXCEPT !.active = 0]
  /\ UNCHANGED <<toServer, want, cards, calls>> /\ UNCHANGED Unheard

(* client_waiters, control_waiters.  Who has stopped waiting hears nothing. *)
Reply ==
  /\ Hears("reply")
  /\ LET i == Head(fromServer).x
     IN calls' = [calls EXCEPT ![i] = IF @ = "asked" THEN "answered" ELSE @]
  /\ UNCHANGED <<actor, toServer, want, cards>> /\ UNCHANGED Unheard

(* tool_start makes a card unless there is one of that id; tool_end, output, *)
(* hook and diff reports change the card there is.  A plan is a tool_start  *)
(* and a tool_end each time, under the id of its turn.                     *)
Has(k) == \E i \in DOMAIN cards : cards[i].card = k
Update(k, version) == [i \in DOMAIN cards |->
                        IF cards[i].card = k THEN [card |-> k, version |-> version] ELSE cards[i]]

Report ==
  /\ \E kind \in Kinds : Hears(kind)
  /\ LET k == CardOf(Head(fromServer).m, Head(fromServer).turn)
         version == Head(fromServer).x.version
         makes == k[1] # "item" \/ Head(fromServer).x.first
     IN cards' = IF Has(k) THEN Update(k, version)
                 ELSE IF makes THEN Append(cards, [card |-> k, version |-> version])
                 ELSE cards
  /\ UNCHANGED <<actor, toServer, want, calls>> /\ UNCHANGED Unheard

-----------------------------------------------------------------------------
(* A turn of which nothing is heard for half an hour is given up.  What is   *)
(* sent then is a request of the Claude protocol, which Codex ignores; and   *)
(* what ends a quarantine is in the reader of the Claude protocol only.     *)
TimesOut ==
  /\ actor.state = "up" /\ actor.turn # 0
  /\ toServer = <<>> /\ fromServer = <<>>
  /\ actor' = [actor EXCEPT !.state = "limbo", !.turn = 0]
  /\ UNCHANGED <<settingVars, pipes, serverVars, cards, calls, turns, acts, procs, history>>

(* The process is gone: killed at the end of a quarantine, stopped or dead.  *)
(* Calls that wait find their channel closed.                              *)
Ends ==
  /\ Alive
  /\ actor' = NoActor
  /\ toServer' = <<>> /\ fromServer' = <<>>
  /\ server' = [server EXCEPT !.turn = 0]
  /\ calls' = [i \in DOMAIN calls |-> IF calls[i] = "asked" THEN "closed" ELSE calls[i]]
  /\ texts' = [i \in DOMAIN texts |-> IF texts[i] = "sent" THEN "tooLate" ELSE texts[i]]
  /\ made' = <<>>
  /\ UNCHANGED <<settingVars, reports, refusals, cards, turns, acts, procs, want, ran>>

Next ==
  \/ Start \/ Spawned \/ SendMessage \/ HotSwitch \/ \E v \in Values : Choose(v)
  \/ Steer \/ Interrupt \/ Call \/ CallTimesOut
  \/ ServerStarts \/ ServerSteers \/ ServerInterrupts \/ ServerAnswers \/ ServerEnds
  \/ \E kind \in Kinds : ServerReports(kind)
  \/ Opened \/ TurnStarted \/ TurnEnded \/ TerminalError \/ Reply \/ Report
  \/ TimesOut \/ Ends

Spec == Init /\ [][Next]_vars

-----------------------------------------------------------------------------
(* Properties *)

Quiet == Alive /\ toServer = <<>> /\ fromServer = <<>>

(* Every turn runs with the setting that was saved when it was sent, on a    *)
(* resumed thread too, although no process is ever told twice and the server *)
(* begins with settings of its own.  The known exception is a choice made    *)
(* while the process was being spawned.                                     *)
SettingsKept ==
  \A i \in DOMAIN ran, j \in DOMAIN want :
    ran[i][1] = want[j][1] /\ want[j][2] # None => ran[i][2] = want[j][2]

(* Turns run in the order of their messages, none twice, and none before the *)
(* turn before it has ended; and in the end a turn that the actor waits for  *)
(* is one that runs, or that the server has refused.                        *)
OneTurnAtATime ==
  /\ \A i, j \in DOMAIN ran : i < j => ran[i][1] < ran[j][1]
  /\ \A i \in DOMAIN toServer : toServer[i].m = "start" => server.turn = 0
  /\ Quiet /\ actor.state = "up" =>
       /\ actor.active = server.turn
       /\ actor.turn = server.turn \/ (server.turn = 0 /\ refusals > 0)
       /\ actor.queue # <<>> => actor.turn # 0

(* A steered text is heard as long as the turn the actor has in hand is the  *)
(* one the server runs: what is dropped came before the start of the turn   *)
(* was read, or after its end.                                             *)
SteersNoStranger ==
  \A i \in DOMAIN toServer :
    toServer[i].m \in {"steer", "interrupt"} /\ server.turn # 0 /\ actor.turn = server.turn =>
      toServer[i].turn = server.turn

(* A call that wants data is answered, closed or given up: nobody waits when *)
(* nothing is under way.                                                    *)
NobodyWaits == Quiet => \A i \in DOMAIN calls : calls[i] # "asked"

(* The page has one card for each thing reported, and it shows what was      *)
(* reported last: a plan that is reported again refreshes its card, and the  *)
(* diff of a turn does not outlive it.                                      *)
CardsCurrent ==
  /\ \A i, j \in DOMAIN cards : cards[i].card = cards[j].card => i = j
  /\ Quiet => \A k \in DOMAIN made : made[k] # 0 =>
                \E i \in DOMAIN cards : cards[i] = [card |-> k, version |-> made[k]]
  /\ Quiet /\ server.turn # 0 =>
       \A i \in DOMAIN cards : cards[i].card[1] = "diff" =>
         cards[i].version = Version(cards[i].card)

=============================================================================
