-------------------------- MODULE HistoryProjection --------------------------
(***************************************************************************)
(* The projection of events.jsonl onto history pages (storage/history.rs). *)
(* Two machines read the same events.  The builder folds them into entries:*)
(* streamed text becomes one assistant entry, a tool's end patches the      *)
(* entry its start has made, a sub-agent's events go to pages of their own. *)
(* The boundary tracker finds the last point of a live run at which nothing *)
(* is open; a generation is cut there, its pages are immutable, and what   *)
(* follows reaches the client as events.                                    *)
(*                                                                         *)
(* An event is a type, a scope (the main timeline, or the tool whose        *)
(* sub-agent sent it) and an identity.  The length of texts, the splitting *)
(* into pages and the spooling of large values are left out: they change   *)
(* where an entry lies on disk, not which entries there are.                *)
(***************************************************************************)
EXTENDS Naturals, Sequences, FiniteSets, SequencesExt, TLC

CONSTANTS
  Main,        \* "__main"
  Agents,      \* tools that start a sub-agent; each is the scope of its events
  Tools,       \* all tools, Agents among them
  Home,        \* the scope each tool is started in
  Messages,    \* message ids
  MaxSubs,     \* MAX_SUBHISTORIES
  MaxEvents    \* bound: length of the log

Scopes == {Main} \cup Agents
NoId == "no id"

VARIABLES
  length,     \* events in the log
  tracker,    \* SemanticBoundaryTracker
  builder,    \* BuildState
  published   \* the entries of a generation cut at the last safe point

vars == <<length, tracker, builder, published>>

Kinds == {"user", "state", "output", "delta", "complete", "start", "end"}
Event(kind, scope, id) == [kind |-> kind, scope |-> scope, id |-> id]

Entries == [kind : {"user", "assistant", "output", "tool"}, id : Messages \cup Tools \cup {NoId},
            seq : Nat, status : {"final", "running", "success", "error"}, sub : BOOLEAN]

TypeOK ==
  /\ length \in 0..MaxEvents
  /\ tracker \in [streams : SUBSET Scopes, tools : SUBSET (Scopes \X Tools)]
  /\ builder \in [entries : [Scopes -> Seq(Entries)], stream : [Scopes -> Nat],
                  open : [Scopes -> SUBSET Tools], subs : SUBSET Agents,
                  seen : SUBSET (Messages \cup Tools)]
  /\ published \in [Scopes -> Seq(Entries)]

Init ==
  /\ length = 0
  /\ tracker = [streams |-> {}, tools |-> {}]
  /\ builder = [entries |-> [s \in Scopes |-> <<>>], stream |-> [s \in Scopes |-> 0],
                open |-> [s \in Scopes |-> {}], subs |-> {}, seen |-> {}]
  /\ published = [s \in Scopes |-> <<>>]

-----------------------------------------------------------------------------
(* SemanticBoundaryTracker *)

(* A message of the user or a change of the run's state ends all open work. *)
ClosesTurn(e) == e.kind = "state" \/ (e.kind = "user" /\ e.scope = Main)

\* Mutant: one message's end closes the streams of all scopes.
ObserveOneStream(t, e) ==
  CASE ClosesTurn(e) -> [streams |-> {}, tools |-> {}]
    [] e.kind = "delta" -> [t EXCEPT !.streams = @ \cup {e.scope}]
    [] e.kind = "complete" -> [t EXCEPT !.streams = {}]
    [] e.kind = "start" -> [t EXCEPT !.tools = @ \cup {<<e.scope, e.id>>}]
    [] e.kind = "end" -> [t EXCEPT !.tools = {x \in @ : x[2] # e.id}]
    [] OTHER -> t

(* A tool's end may lack its parent; the tool is then found by its id. *)
Observe(t, e) ==
  CASE ClosesTurn(e) -> [streams |-> {}, tools |-> {}]
    [] e.kind = "delta" -> [t EXCEPT !.streams = @ \cup {e.scope}]
    [] e.kind = "complete" -> [t EXCEPT !.streams = @ \ {e.scope}]
    [] e.kind = "start" -> [t EXCEPT !.tools = @ \cup {<<e.scope, e.id>>}]
    [] e.kind = "end" ->
         [t EXCEPT !.tools = IF <<e.scope, e.id>> \in @ THEN @ \ {<<e.scope, e.id>>}
                             ELSE {x \in @ : x[2] # e.id}]
    [] OTHER -> t

IsClosed(t) == t.streams = {} /\ t.tools = {}

-----------------------------------------------------------------------------
(* BuildState *)

Entry(kind, id, seq, status) ==
  [kind |-> kind, id |-> id, seq |-> seq, status |-> status, sub |-> FALSE]

Push(b, scope, entry) == [b EXCEPT !.entries[scope] = Append(@, entry)]

(* update_tool_page: fields of the entry of a tool, wherever its page is. *)
Patch(entries, id, fields) ==
  [i \in DOMAIN entries |->
     IF entries[i].kind = "tool" /\ entries[i].id = id THEN fields @@ entries[i] ELSE entries[i]]

(* settle_interrupted_work, of every scope: streamed text becomes an        *)
(* incomplete message, open tools end in error.                             *)
Settle(b) ==
  LET Flushed(s) ==
        IF b.stream[s] = 0 THEN b.entries[s]
        ELSE Append(b.entries[s], Entry("assistant", NoId, b.stream[s], "final"))
      Ended(x, s) ==
        IF x.kind = "tool" /\ x.id \in b.open[s] THEN [x EXCEPT !.status = "error"] ELSE x
  IN [b EXCEPT
        !.entries = [s \in Scopes |-> LET all == Flushed(s)
                                      IN [i \in DOMAIN all |-> Ended(all[i], s)]],
        !.stream = [s \in Scopes |-> 0],
        !.open = [s \in Scopes |-> {}]]

(* An imported log can repeat a range: the second message or tool of an id  *)
(* is left out, with the text streamed for it.                              *)
Duplicate(b, e) == e.kind \in {"complete", "start"} /\ e.id \in b.seen

LeaveOut(b, e) == IF e.kind = "complete" THEN [b EXCEPT !.stream[e.scope] = 0] ELSE b

Record(b, e) ==
  IF e.kind \in {"complete", "start"} /\ e.id # NoId THEN [b EXCEPT !.seen = @ \cup {e.id}] ELSE b

(* The scope an event is projected into.  A tool's end without its parent   *)
(* goes where the tool is open.                                             *)
Target(b, e) ==
  IF e.kind = "end" /\ e.scope = Main /\ e.id \notin b.open[Main]
     /\ \E s \in b.subs : e.id \in b.open[s]
  THEN CHOOSE s \in b.subs : e.id \in b.open[s]
  ELSE e.scope

(* The first event of a sub-agent makes its sub-history, unless there are   *)
(* too many; each event links the tool that started it, while that is open. *)
Linked(b, s) ==
  LET owners == {o \in {Main} \cup b.subs : s \in b.open[o]}
      linked == [sub |-> TRUE]
  IN [b EXCEPT !.subs = @ \cup {s},
               !.entries = [o \in Scopes |-> IF o \in owners THEN Patch(@[o], s, linked) ELSE @[o]]]

(* handle_event after deduplication, and handle_subhistory_event.  A sub-   *)
(* history has no entries for output and state.                             *)
Project(b, e, seq, s) ==
  CASE e.kind = "user" -> Push(b, s, Entry("user", NoId, seq, "final"))
    [] e.kind = "output" /\ s = Main -> Push(b, s, Entry("output", NoId, seq, "final"))
    [] e.kind = "delta" -> [b EXCEPT !.stream[s] = IF @ = 0 THEN seq ELSE @]
    [] e.kind = "complete" ->
         Push([b EXCEPT !.stream[s] = 0], s,
              Entry("assistant", e.id, IF b.stream[s] = 0 THEN seq ELSE b.stream[s], "final"))
    [] e.kind = "start" ->
         Push([b EXCEPT !.open[s] = @ \cup {e.id}], s, Entry("tool", e.id, seq, "running"))
    [] e.kind = "end" /\ e.id \in b.open[s] ->
         [b EXCEPT !.open[s] = @ \ {e.id},
                   !.entries[s] = Patch(@, e.id, [status |-> "success"])]
    [] OTHER -> b

HandleEvent(b, e, seq) ==
  LET settled == IF ClosesTurn(e) THEN Settle(b) ELSE b
      s == Target(settled, e)
      recorded == Record(settled, e)
  IN IF Duplicate(settled, e) THEN LeaveOut(settled, e)
     ELSE IF s = Main THEN Project(recorded, e, seq, s)
     ELSE IF s \notin b.subs /\ Cardinality(b.subs) >= MaxSubs THEN recorded
     ELSE Project(Linked(recorded, s), e, seq, s)

-----------------------------------------------------------------------------
(* The log grows by one event and both machines read it.  finish settles    *)
(* what is open; at a safe point it must find nothing.                      *)
Append1(e) ==
  /\ length < MaxEvents
  /\ length' = length + 1
  /\ tracker' = Observe(tracker, e)
  /\ builder' = HandleEvent(builder, e, length')
  /\ published' = IF IsClosed(tracker') THEN Settle(builder').entries ELSE published

(* What a session writes: any event, any number of times, as an import may  *)
(* repeat a range; but a tool belongs to one scope, which its end may omit. *)
Next ==
  \/ \E kind \in {"user", "delta"}, s \in Scopes : Append1(Event(kind, s, NoId))
  \/ \E kind \in {"state", "output"} : Append1(Event(kind, Main, NoId))
  \/ \E s \in Scopes, m \in Messages \cup {NoId} : Append1(Event("complete", s, m))
  \/ \E t \in Tools :
       \/ Append1(Event("start", Home[t], t))
       \/ \E s \in {Home[t], Main} : Append1(Event("end", s, t))

Spec == Init /\ [][Next]_vars

-----------------------------------------------------------------------------
(* Properties *)

(* Pages are immutable, so what a generation of a live run shows must be    *)
(* what a later one, built from more events, shows as well: the tracker     *)
(* finds nothing open only when the builder has no streamed text and no     *)
(* tool that a later event could still change.                              *)
PublishedStays ==
  LET now == Settle(builder).entries
  IN \A s \in Scopes : IsPrefix(published[s], now[s])

(* The entries are a keyed list: no message and no tool is shown twice,      *)
(* over all timelines, though an import may have repeated its events; and   *)
(* a finished page shows no tool as running.                                *)
EntriesUnique ==
  LET final == Settle(builder).entries
      All == UNION {{<<s, i, final[s][i]>> : i \in DOMAIN final[s]} : s \in Scopes}
      Named == {x \in All : x[3].id # NoId}
  IN /\ Cardinality({x[3].id : x \in Named}) = Cardinality(Named)
     /\ \A x \in All : x[3].status # "running"

=============================================================================
