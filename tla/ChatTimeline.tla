---------------------------- MODULE ChatTimeline ----------------------------
(***************************************************************************)
(* What a page that follows a conversation makes of it: the lines of the    *)
(* Claude CLI, which streams the tool calls of its main thread and of its   *)
(* sub-agents into one pipe, the events they are mapped to                  *)
(* (agent/claude_protocol.rs), and the reducer of the page's store           *)
(* (session-store.svelte.ts), with the messages the page shows before they  *)
(* are confirmed.                                                           *)
(*                                                                         *)
(* Events reach a page in order (see WsDelivery), so they are applied as they *)
(* are made.  The input of a tool comes in two halves.                      *)
(* Texts and thoughts go the way of the calls and are left out.              *)
(***************************************************************************)
EXTENDS Naturals, Sequences, SequencesExt

CONSTANTS
  Viewers,     \* the pages
  Words,       \* what users say
  Uses,        \* calls of tools
  Top,         \* the main thread
  Parent,      \* the scope of each call: Top, or the call that is its agent
  MaxSays,     \* bound: messages
  MaxMishaps   \* bound: failed sends, loads of the page, resumes

VARIABLES
  mode,      \* a session with its actor, or a process per message
  turn,      \* a turn is under way
  use,       \* of each call: how far the CLI is with it
  sent,      \* halves of its input that were sent
  emitted,   \* ProtocolState: emitted_tool_ids
  last,      \* ProtocolState: last_tool_use_id
  stale,     \* calls of the session before, which the CLI streams again
  cards,     \* of each call: its cards on the page, with the scope they are in
  seen,      \* the page: seenToolIds
  reloaded,  \* the page was loaded again after these calls
  crossed,   \* history: calls of whose input a half came under another's name
  queue,     \* messages that are sent and not yet begun
  users,     \* of each page: the messages it shows
  said,      \* history: the messages of the conversation
  refused,   \* history: the messages of each page that failed
  mishaps

cliVars == <<turn, use, sent, emitted, last, stale>>
cardVars == <<cards, seen, reloaded, crossed>>
userVars == <<queue, users, said, refused>>
vars == <<mode, cliVars, cardVars, userVars, mishaps>>

NoCall == "no call"
Scopes == {Top} \cup Uses
Cards == [in : Scopes, input : Seq(1..2), status : {"running", "ended", "rejected"}]
Messages == [words : Words, by : Viewers, number : 1..MaxSays]
Entries == [words : Words, id : Nat, uuid : BOOLEAN]

TypeOK ==
  /\ mode \in {"actor", "pipe"}
  /\ turn \in BOOLEAN
  /\ use \in [Uses -> {"none", "streams", "left", "called", "ended", "rejected"}]
  /\ sent \in [Uses -> 0..2]
  /\ emitted \subseteq Uses /\ last \in Uses \cup {NoCall} /\ stale \subseteq Uses
  /\ cards \in [Uses -> Seq(Cards)]
  /\ seen \subseteq Uses /\ reloaded \subseteq Uses /\ crossed \subseteq Uses
  /\ queue \in Seq(Messages) /\ users \in [Viewers -> Seq(Entries)]
  /\ said \in Seq(Messages) /\ refused \in Seq(Messages)
  /\ mishaps \in 0..MaxMishaps

Init ==
  /\ mode \in {"actor", "pipe"}
  /\ turn = FALSE
  /\ use = [t \in Uses |-> "none"] /\ sent = [t \in Uses |-> 0]
  /\ emitted = {} /\ last = NoCall /\ stale = {}
  /\ cards = [t \in Uses |-> <<>>]
  /\ seen = {} /\ reloaded = {} /\ crossed = {}
  /\ queue = <<>> /\ users = [v \in Viewers |-> <<>>]
  /\ said = <<>> /\ refused = <<>>
  /\ mishaps = 0

-----------------------------------------------------------------------------
(* The messages *)

LastOf(entries, Test(_)) == SelectLastInSubSeq(entries, 1, Len(entries), Test)

(* user_message: it confirms the entry with its client id, else the last    *)
(* one of the same words that has no uuid, else it is a new entry.          *)
Confirm(entries, message, own) ==
  LET byId(e) == own /\ mode = "pipe" /\ e.id = message.number
      byWords(e) == e.words = message.words /\ ~e.uuid
      i == IF LastOf(entries, byId) # 0 THEN LastOf(entries, byId) ELSE LastOf(entries, byWords)
  IN IF i = 0
     THEN Append(entries, [words |-> message.words, id |-> 0, uuid |-> mode = "actor"])
     ELSE [entries EXCEPT ![i].uuid = mode = "actor"]

(* UserMessage: with a uuid in a session, and none in pipe mode. *)
UserMessage(message, shown) ==
  /\ said' = Append(said, message)
  /\ users' = [v \in Viewers |-> Confirm(shown[v], message, v = message.by)]

Sayings == Len(said) + Len(queue) + Len(refused)

(* The page shows its message at once. *)
Optimistic(message) ==
  [users EXCEPT ![message.by] =
     Append(@, [words |-> message.words, id |-> message.number, uuid |-> FALSE])]

Say(v) ==
  /\ Sayings < MaxSays
  /\ \E w \in Words :
       LET message == [words |-> w, by |-> v, number |-> Sayings + 1]
       IN IF mode = "actor"
          THEN /\ queue' = Append(queue, message)
               /\ users' = Optimistic(message)
               /\ UNCHANGED said
          ELSE UserMessage(message, Optimistic(message)) /\ UNCHANGED queue
  /\ UNCHANGED <<mode, cliVars, cardVars, refused, mishaps>>

(* start_user_turn; the write to the CLI may fail, and the entry stays. *)
Begin ==
  /\ queue # <<>> /\ ~turn
  /\ queue' = Tail(queue)
  /\ UserMessage(Head(queue), users)
  /\ turn' = TRUE
  /\ UNCHANGED <<mode, use, sent, emitted, last, stale, cardVars, refused, mishaps>>

BeginFails ==
  /\ queue # <<>> /\ ~turn /\ mishaps < MaxMishaps
  /\ queue' = Tail(queue)
  /\ refused' = Append(refused, Head(queue))
  /\ mishaps' = mishaps + 1
  /\ UNCHANGED <<mode, cliVars, cardVars, users, said>>

-----------------------------------------------------------------------------
(* The reducer of tool events *)

(* The first card of a call in one of the scopes. *)
CardIn(shown, t, scopes) ==
  LET at == {i \in DOMAIN shown[t] : shown[t][i].in \in scopes}
  IN IF at = {} THEN 0 ELSE Min(at)

(* tool_start: below the card of its parent, if that is a main entry; among  *)
(* those never twice.                                                       *)
Started(shown, t, input) ==
  LET nested == Parent[t] # Top /\ CardIn(shown, Parent[t], {Top}) # 0
      card == [in |-> IF nested THEN Parent[t] ELSE Top, input |-> input, status |-> "running"]
  IN IF t \in seen \/ (~nested /\ CardIn(shown, t, {Top}) # 0) THEN shown
     ELSE [shown EXCEPT ![t] = Append(@, card)]

(* tool_input_delta: the card is sought in the scope of the line. *)
InputAdded(shown, t, scope, half) ==
  LET i == CardIn(shown, t, {scope})
  IN IF i = 0 THEN shown ELSE [shown EXCEPT ![t][i].input = Append(@, half)]

\* Mutant: the end of a call is looked for among the main entries only.
EndedInMain(shown, t, scopes, status) ==
  LET i == CardIn(shown, t, {Top})
  IN IF i = 0 THEN shown ELSE [shown EXCEPT ![t][i].status = status]

(* tool_end: in the scope the line names, or in any when it names none;      *)
(* failing that, among the main entries.                                    *)
Ended(shown, t, scopes, status) ==
  LET below == CardIn(shown, t, scopes \ {Top})
      i == IF below # 0 THEN below ELSE CardIn(shown, t, {Top})
  IN IF i = 0 THEN shown ELSE [shown EXCEPT ![t][i].status = status]

-----------------------------------------------------------------------------
(* The lines of the CLI *)

(* The main thread speaks during its turn, an agent until its call ends. *)
Speaks(s) ==
  /\ turn /\ stale = {}
  /\ s # Top => use[s] = "called"
  /\ \A t \in Uses : Parent[t] = s => use[t] # "streams"

(* content_block_start *)
BlockStart(t) ==
  /\ use[t] = "none" /\ Speaks(Parent[t])
  /\ use' = [use EXCEPT ![t] = "streams"]
  /\ emitted' = emitted \cup {t} /\ last' = t
  /\ cards' = Started(cards, t, <<>>) /\ seen' = seen \cup {t}
  /\ UNCHANGED <<mode, turn, sent, stale, reloaded, crossed, userVars, mishaps>>

(* content_block_delta: the half is taken for one of the latest call's. *)
BlockDelta(t) ==
  /\ use[t] = "streams" /\ sent[t] < 2
  /\ sent' = [sent EXCEPT ![t] = @ + 1]
  /\ cards' = InputAdded(cards, last, Parent[t], sent[t] + 1)
  /\ crossed' = IF last = t THEN crossed ELSE crossed \cup {t}
  /\ UNCHANGED <<mode, turn, use, emitted, last, stale, seen, reloaded, userVars, mishaps>>

(* The complete message, which a CLI that streams nothing also sends: a call *)
(* that is known from its stream is passed over, with its input.            *)
Assistant(t) ==
  /\ \/ use[t] = "streams" /\ sent[t] = 2
     \/ use[t] = "none" /\ Speaks(Parent[t])
  /\ use' = [use EXCEPT ![t] = "called"]
  /\ emitted' = emitted \cup {t}
  /\ IF t \in emitted THEN UNCHANGED <<cards, seen>>
     ELSE cards' = Started(cards, t, <<1, 2>>) /\ seen' = seen \cup {t}
  /\ UNCHANGED <<mode, turn, sent, last, stale, reloaded, crossed, userVars, mishaps>>

(* The stream is broken off, and its message never completed. *)
BreakOff(t) ==
  /\ use[t] = "streams"
  /\ use' = [use EXCEPT ![t] = "left"]
  /\ UNCHANGED <<mode, turn, sent, emitted, last, stale, cardVars, userVars, mishaps>>

Quiet(s) == \A t \in Uses : Parent[t] = s => use[t] \notin {"streams", "called"}

(* A line about the end of a call; not every CLI names its parent in it. *)
LineOf(t) == {{Parent[t]}, Uses}

(* tool_result, user_rejected_tool_use *)
ToolResult(t) ==
  /\ turn /\ stale = {} /\ use[t] = "called" /\ Quiet(t)
  /\ \E status \in {"ended", "rejected"}, scopes \in LineOf(t) :
       /\ use' = [use EXCEPT ![t] = status]
       /\ cards' = Ended(cards, t, scopes, status)
  /\ UNCHANGED <<mode, turn, sent, emitted, last, stale, seen, reloaded, crossed, userVars,
                 mishaps>>

(* result *)
Result ==
  /\ turn /\ stale = {} /\ Quiet(Top)
  /\ turn' = FALSE
  /\ UNCHANGED <<mode, use, sent, emitted, last, stale, cardVars, userVars, mishaps>>

-----------------------------------------------------------------------------
(* Resume and reload *)

(* A new process with a new ProtocolState, which streams the last turns again. *)
Resume ==
  /\ mode = "actor" /\ ~turn /\ mishaps < MaxMishaps
  /\ mishaps' = mishaps + 1
  /\ emitted' = {} /\ last' = NoCall
  /\ stale' = {t \in Uses : use[t] \in {"ended", "rejected"}}
  /\ UNCHANGED <<mode, turn, use, sent, cardVars, userVars>>

StreamAgain(t) ==
  /\ t \in stale /\ Parent[t] \notin stale
  /\ stale' = stale \ {t} /\ emitted' = emitted \cup {t} /\ seen' = seen \cup {t}
  /\ \E scopes \in LineOf(t) :
       cards' = Ended(Started(cards, t, <<1, 2>>), t, scopes, use[t])
  /\ UNCHANGED <<mode, turn, use, sent, last, reloaded, crossed, userVars, mishaps>>

(* loadRun: the main entries and the messages come from the history, where   *)
(* what an agent did is kept behind its call, and what has no end is ended.  *)
(* The cards we follow are those of a page that is loaded again.            *)
Reload(v) ==
  /\ ~turn /\ mishaps < MaxMishaps
  /\ mishaps' = mishaps + 1
  /\ cards' = [t \in Uses |->
       IF CardIn(cards, t, {Top}) = 0 THEN <<>>
       ELSE <<[cards[t][CardIn(cards, t, {Top})] EXCEPT
                 !.status = IF @ = "running" THEN "ended" ELSE @]>>]
  /\ seen' = {}
  /\ reloaded' = reloaded \cup {t \in Uses : use[t] # "none"}
  /\ users' = [users EXCEPT ![v] =
       [i \in DOMAIN said |-> [words |-> said[i].words, id |-> 0, uuid |-> mode = "actor"]]]
  /\ UNCHANGED <<mode, cliVars, crossed, queue, said, refused>>

Next ==
  \/ \E v \in Viewers : Say(v) \/ Reload(v)
  \/ Begin \/ BeginFails \/ Result \/ Resume
  \/ \E t \in Uses :
       \/ BlockStart(t) \/ BlockDelta(t) \/ Assistant(t) \/ BreakOff(t)
       \/ ToolResult(t) \/ StreamAgain(t)

Spec == Init /\ [][Next]_vars

-----------------------------------------------------------------------------
(* Properties *)

(* A call that the CLI has made is shown on one card, in its place, with the *)
(* state it is in and with its input, although the calls of agents are       *)
(* streamed into each other and their lines may not name their scope.  The  *)
(* exceptions: an input of which a half was taken for another call's is      *)
(* never shown whole, for the complete message is passed over; and after a   *)
(* reload the calls of agents are not among the cards, until they are        *)
(* streamed again.                                                          *)
CardsTrue ==
  \A t \in Uses : use[t] \in {"called", "ended", "rejected"} =>
    /\ Len(cards[t]) <= 1
    /\ cards[t] = <<>> => t \in reloaded /\ Parent[t] # Top
    /\ \A i \in DOMAIN cards[t] :
         /\ cards[t][i].in = Parent[t]
         /\ cards[t][i].input = <<1, 2>> \/ t \in crossed
         /\ cards[t][i].status = IF use[t] = "called" THEN "running" ELSE use[t]

Count(seq, Test(_)) == Len(SelectSeq(seq, Test))

(* Every page shows every message as often as it was said, and besides only *)
(* its own messages that wait or have failed.  The exception: in pipe mode,  *)
(* where messages have no uuid, words that were said before are taken for   *)
(* the same message, except on the page that says them.                     *)
MessagesTrue ==
  \A v \in Viewers, w \in Words :
    LET shown == Count(users[v], LAMBDA e : e.words = w)
        all == Count(said, LAMBDA m : m.words = w)
        own == Count(said, LAMBDA m : m.words = w /\ m.by = v)
        pending == Count(queue, LAMBDA m : m.words = w /\ m.by = v)
                   + Count(refused, LAMBDA m : m.words = w /\ m.by = v)
    IN /\ shown <= all + pending
       /\ mode = "actor" => shown >= all
       /\ mode = "pipe" => shown >= (IF own > 0 THEN own ELSE IF all > 0 THEN 1 ELSE 0)

=============================================================================
