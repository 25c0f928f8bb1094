---------------------------- MODULE HistoryPages ----------------------------
(***************************************************************************)
(* The files of a generation (storage/history.rs).  HistoryProjection says  *)
(* which entries a log has; here the same log is read line by line into    *)
(* bounded pages: an entry goes to the page in memory, a full page becomes *)
(* a file, a tool gets a file of its own so that its end can patch it, the *)
(* timeline of a sub-agent has pages of its own.  A line that is too long  *)
(* to be parsed is spooled; its identity is scanned, its text extracted    *)
(* into the entry that the ordinary handler makes for it.  When the build  *)
(* is complete a client reads the pages from the latest to the first.      *)
(*                                                                         *)
(* Bytes are counted in units, Weight of a form: a text is kept inline,    *)
(* spooled (a blob and a preview), or it is wide, inline but encoded as    *)
(* more than an entry may have.  The form "line" is the text of a line     *)
(* longer than PARSE_LINE_LIMIT.                                           *)
(***************************************************************************)
EXTENDS Naturals, Sequences, FiniteSets, SequencesExt, TLC

CONSTANTS
  Main, Agents, Tools, Home, Messages, MaxSubs,  \* as in HistoryProjection
  PageEntries,  \* PAGE_ENTRY_LIMIT
  PageBytes,    \* PAGE_BYTE_LIMIT
  EntryBytes,   \* ENTRY_BYTE_LIMIT
  Weight,       \* bytes of an entry, by the form of its text
  Inline,       \* deltas that fit in CONTENT_INLINE_LIMIT
  MaxOpen,      \* MAX_OPEN_TOOLS
  Events,       \* the events a log may have
  MaxEvents     \* bound: lines of the log

Scopes == {Main} \cup Agents
NoId == "no id"
Forms == {"inline", "spooled", "wide", "line"}

LimitsAssumption ==
  /\ PageEntries \in Nat \ {0} /\ EntryBytes \in Nat /\ PageBytes \in Nat
  /\ Weight \in [Forms -> Nat \ {0}]
  /\ \A form \in Forms \ {"wide"} : Weight[form] <= EntryBytes
  /\ Weight["wide"] > EntryBytes /\ EntryBytes <= PageBytes

VARIABLES
  length,   \* lines read
  builder,  \* BuildState: the sides, which sub-histories there are, the ids seen
  stage,    \* "reading", "complete"
  reader,   \* a client: the timeline it pages through, its cursor, what it has
  projected,  \* history: the state of HistoryProjection after the same lines
  lengthy   \* history: a line longer than PARSE_LINE_LIMIT has been read

vars == <<length, builder, stage, reader, projected, lengthy>>

-----------------------------------------------------------------------------
(* Entries and pages *)

(* HistoryEntry; text names the events whose text it shows. *)
Entry(kind, id, first, last, form, text) ==
  [kind |-> kind, id |-> id, first |-> first, last |-> last, bytes |-> Weight[form],
   text |-> text, status |-> IF kind = "tool" THEN "running" ELSE "final",
   sub |-> FALSE, whole |-> TRUE]

NoStream == [first |-> 0, text |-> {}]

(* The state of one timeline, the main one or a sub-agent's. *)
NewSide == [files |-> <<>>, page |-> <<>>, counted |-> 0, stream |-> NoStream,
            open |-> <<>>, error |-> "none"]

Failed(side) == side.error # "none"
Fail(side, why) == IF Failed(side) THEN side ELSE [side EXCEPT !.error = why]

Weigh(page) == FoldSeq(LAMBDA e, sum : e.bytes + sum, 0, page)

(* flush_page *)
Flush(side) ==
  IF Failed(side) \/ side.page = <<>> THEN side
  ELSE IF Weigh(side.page) > PageBytes THEN Fail(side, "page")
  ELSE [side EXCEPT !.files = Append(@, side.page), !.page = <<>>, !.counted = 0]

IsFull(side, entry) ==
  /\ side.page # <<>>
  /\ Len(side.page) >= PageEntries \/ side.counted + entry.bytes > PageBytes

(* What is left of an entry that is too large: a placeholder on the main    *)
(* timeline, whose text is in a blob.                                       *)
Bounded(entry) ==
  IF entry.bytes <= EntryBytes THEN entry
  ELSE [entry EXCEPT !.bytes = Weight["spooled"], !.whole = FALSE]

(* push *)
Push(side, scope, entry) ==
  LET fits == Bounded(entry)
      room == IF IsFull(side, fits) THEN Flush(side) ELSE side
  IN IF ~fits.whole /\ scope # Main THEN Fail(side, "entry")
     ELSE IF Failed(room) THEN room
     ELSE [room EXCEPT !.page = Append(@, fits), !.counted = @ + fits.bytes]

IsTool(entry, tool) == entry.kind = "tool" /\ entry.id = tool

(* update_tool_page: the file is read, changed and replaced. *)
UpdateTool(side, number, tool, fields, more) ==
  LET file == side.files[number]
      new == [i \in DOMAIN file |->
                IF IsTool(file[i], tool)
                THEN fields @@ [file[i] EXCEPT !.bytes = @ + more] ELSE file[i]]
  IN IF Failed(side) THEN side
     ELSE IF \A i \in DOMAIN file : ~IsTool(file[i], tool) THEN Fail(side, "missing")
     ELSE IF Weigh(new) > PageBytes THEN Fail(side, "page")
     ELSE [side EXCEPT !.files[number] = new]

(* SpoolText: short text stays in memory, longer text goes to a file. *)
Form(stream) == IF Cardinality(stream.text) <= Inline THEN "inline" ELSE "spooled"

(* settle_interrupted_work, of one timeline. *)
Settle(side, scope, seq) ==
  LET flushed ==
        IF side.stream = NoStream THEN side
        ELSE Push([side EXCEPT !.stream = NoStream], scope,
                  Entry("assistant", NoId, side.stream.first, seq, Form(side.stream), side.stream.text))
      EndInError(tool, d) ==
        UpdateTool(d, side.open[tool].file, tool, [status |-> "error", last |-> seq], 0)
  IN [FoldSet(EndInError, flushed, DOMAIN side.open) EXCEPT !.open = <<>>]

-----------------------------------------------------------------------------
(* handle_event *)

Closes(e) == e.kind = "state" \/ (e.kind = "user" /\ e.scope = Main)

Duplicate(b, e) == e.kind \in {"complete", "start"} /\ e.id \in b.seen

Record(b, e) ==
  IF e.kind \in {"complete", "start"} /\ e.id # NoId THEN [b EXCEPT !.seen = @ \cup {e.id}] ELSE b

Nowhere == "nowhere"

(* open_tool_scope *)
OpenScope(b, tool) ==
  IF tool \in DOMAIN b.sides[Main].open THEN Main
  ELSE IF \E s \in b.subs : tool \in DOMAIN b.sides[s].open
  THEN CHOOSE s \in b.subs : tool \in DOMAIN b.sides[s].open
  ELSE Nowhere

\* Mutant: a tool's end without its parent stays on the main timeline.
TargetAsSent(b, e) == e.scope

Target(b, e) ==
  IF e.kind = "end" /\ e.scope = Main /\ OpenScope(b, e.id) # Nowhere
  THEN OpenScope(b, e.id) ELSE e.scope

\* Mutant: the tool shares the page in memory, which becomes its file.
StartToolShares(side, scope, e, seq) ==
  LET own == Flush(Push(side, scope, Entry("tool", e.id, seq, seq, e.form, {})))
  IN IF Cardinality(DOMAIN side.open) >= MaxOpen THEN Fail(side, "open")
     ELSE IF Failed(own) THEN own
     ELSE [own EXCEPT !.open = (e.id :> [file |-> Len(own.files), text |-> {}]) @@ @]

\* Mutant: the page of the tool is not flushed before its number is kept.
StartToolUnflushed(side, scope, e, seq) ==
  LET own == Push(Flush(side), scope, Entry("tool", e.id, seq, seq, e.form, {}))
  IN IF Cardinality(DOMAIN side.open) >= MaxOpen THEN Fail(side, "open")
     ELSE IF Failed(own) THEN own
     ELSE [own EXCEPT !.open = (e.id :> [file |-> Len(own.files), text |-> {}]) @@ @]

(* A tool owns its file; what it streams is kept until it ends. *)
StartTool(side, scope, e, seq) ==
  LET own == Flush(Push(Flush(side), scope, Entry("tool", e.id, seq, seq, e.form, {})))
  IN IF Cardinality(DOMAIN side.open) >= MaxOpen THEN Fail(side, "open")
     ELSE IF Failed(own) THEN own
     ELSE [own EXCEPT !.open = (e.id :> [file |-> Len(own.files), text |-> {}]) @@ @]

(* The output the event brings, inline or in a blob, or else what was streamed. *)
Output(tool, e, seq) ==
  IF e.form = "none" THEN [text |-> tool.text, form |-> Form(tool)]
  ELSE [text |-> {seq}, form |-> e.form]

EndTool(side, e, seq) ==
  LET tool == side.open[e.id]
      closed == [side EXCEPT !.open = Restrict(@, DOMAIN @ \ {e.id})]
      output == Output(tool, e, seq)
  IN UpdateTool(closed, tool.file, e.id,
                [status |-> "success", last |-> seq, text |-> output.text], Weight[output.form])

\* Mutant: the streamed text is kept after the message that shows it.
CompleteKeepsStream(side, scope, e, seq) ==
  LET first == IF side.stream = NoStream THEN seq ELSE side.stream.first
  IN Push(side, scope,
          IF e.form = "none" THEN Entry("assistant", e.id, first, seq, Form(side.stream), side.stream.text)
          ELSE Entry("assistant", e.id, first, seq, e.form, {seq}))

(* A message shows its own text, or else the text streamed for it. *)
Complete(side, scope, e, seq) ==
  LET first == IF side.stream = NoStream THEN seq ELSE side.stream.first
  IN Push([side EXCEPT !.stream = NoStream], scope,
          IF e.form = "none" THEN Entry("assistant", e.id, first, seq, Form(side.stream), side.stream.text)
          ELSE Entry("assistant", e.id, first, seq, e.form, {seq}))

(* handle_legacy_event: a line from before there were envelopes. *)
Legacy(side, e, seq) == Push(side, Main, Entry("output", NoId, seq, seq, e.form, {seq}))

(* The match on the event's type, of the main timeline and of a sub-history. *)
Project(side, scope, e, seq) ==
  CASE e.kind \in {"user", "output"} ->
         Push(side, scope, Entry(e.kind, NoId, seq, seq, e.form, {seq}))
    [] e.kind = "legacy" -> Legacy(side, e, seq)
    [] e.kind = "delta" ->
         [side EXCEPT !.stream = [first |-> IF @ = NoStream THEN seq ELSE @.first,
                                  text |-> @.text \cup {seq}]]
    [] e.kind = "complete" -> Complete(side, scope, e, seq)
    [] e.kind = "start" -> StartTool(side, scope, e, seq)
    [] e.kind = "progress" /\ e.id \in DOMAIN side.open ->
         [side EXCEPT !.open[e.id].text = @ \cup {seq}]
    [] e.kind = "end" /\ e.id \in DOMAIN side.open -> EndTool(side, e, seq)
    [] OTHER -> side

(* The first event of a sub-agent makes its sub-history; the tool that has  *)
(* started the sub-agent is linked to it while it is open.                  *)
Linked(b, scope) ==
  [b EXCEPT
     !.subs = @ \cup {scope},
     !.sides = [o \in Scopes |->
        IF o \in {Main} \cup b.subs /\ scope \in DOMAIN @[o].open
        THEN UpdateTool(@[o], @[o].open[scope].file, scope, [sub |-> TRUE], 0) ELSE @[o]]]

NoRoom(b, scope) == scope \notin {Main} \cup b.subs /\ Cardinality(b.subs) >= MaxSubs

SettleAll(b, seq) == [b EXCEPT !.sides = [s \in Scopes |-> Settle(@[s], s, seq)]]

(* An event of a timeline: that of a sub-agent is linked first. *)
HandleIn(b, scope, e, seq) ==
  IF NoRoom(b, scope) THEN b
  ELSE [(IF scope = Main THEN b ELSE Linked(b, scope)) EXCEPT
          !.sides[scope] = Project(@, scope, e, seq)]

HandleSettled(b, e, seq) ==
  IF ~Duplicate(b, e) THEN HandleIn(Record(b, e), Target(b, e), e, seq)
  ELSE IF e.kind = "complete" THEN [b EXCEPT !.sides[e.scope].stream = NoStream]
  ELSE b

HandleEvent(b, e, seq) == HandleSettled(IF Closes(e) THEN SettleAll(b, seq) ELSE b, e, seq)

(* A failure of one timeline fails the build. *)
Broken(b) == \E s \in Scopes : Failed(b.sides[s])

-----------------------------------------------------------------------------
(* handle_oversized_event *)

(* oversized_metadata: the identity of the event without its text. *)
Metadata(e) == [e EXCEPT !.form = IF e.kind = "complete" THEN "none" ELSE "inline"]

(* The handler has made no entry: there is no room for the sub-history, or  *)
(* the tool has ended before.                                               *)
NoEntry(b, e) ==
  [b EXCEPT !.sides[Main] = Fail(@, IF NoRoom(b, e.scope) THEN "no room" ELSE "no entry")]

(* The extracted text replaces that of the entry just made, which is the    *)
(* last one in memory; what has been counted for it stays.                  *)
ReplaceText(side, seq) ==
  LET n == Len(side.page)
  IN [side EXCEPT !.page[n].text = {seq}, !.page[n].bytes = Weight["line"]]

(* What handle_event has made of the identity gets the extracted text. *)
OversizedText(made, e, seq) ==
  IF Broken(made) THEN made
  ELSE IF made.sides[e.scope].page = <<>> THEN NoEntry(made, e)
  ELSE [made EXCEPT !.sides[e.scope] = ReplaceText(@, seq)]

(* The tool is looked up before its end closes it, after its start opens it. *)
PatchTool(from, made, scope, e) ==
  IF scope = Nowhere THEN NoEntry(made, e)
  ELSE [made EXCEPT !.sides[scope] =
          UpdateTool(@, from.sides[scope].open[e.id].file, e.id, <<>>, Weight["line"] - Weight["inline"])]

OversizedTool(b, made, e) ==
  IF Broken(made) THEN made
  ELSE IF e.kind = "end" /\ OpenScope(b, e.id) # Nowhere THEN PatchTool(b, made, OpenScope(b, e.id), e)
  ELSE PatchTool(made, made, OpenScope(made, e.id), e)

(* Any other event becomes a placeholder, and is not handled. *)
OversizedOther(b, seq) ==
  LET entry == [Entry("output", NoId, seq, seq, "line", {seq}) EXCEPT !.whole = FALSE]
  IN [b EXCEPT !.sides[Main] = Push(@, Main, entry)]

HandleOversized(b, made, e, seq) ==
  IF Duplicate(b, e) THEN made
  ELSE IF e.kind \in {"user", "complete", "output"} THEN OversizedText(made, e, seq)
  ELSE IF e.kind \in {"start", "end"} THEN OversizedTool(b, made, e)
  ELSE IF e.kind = "invalid" THEN [b EXCEPT !.sides[Main] = Fail(@, "invalid")]
  ELSE OversizedOther(b, seq)

-----------------------------------------------------------------------------
(* build_generation *)

Flattened(side) == FlattenSeq(side.files) \o side.page

(* The entries of the files, as HistoryProjection has them. *)
Plain(entry) == [kind |-> entry.kind, id |-> entry.id, seq |-> entry.first,
                 status |-> entry.status, sub |-> entry.sub]

Timeline(entries) == [i \in DOMAIN entries |-> Plain(entries[i])]

Flat(b) ==
  [entries |-> [s \in Scopes |-> Timeline(Flattened(b.sides[s]))],
   stream |-> [s \in Scopes |-> b.sides[s].stream.first],
   open |-> [s \in Scopes |-> DOMAIN b.sides[s].open],
   subs |-> b.subs, seen |-> b.seen]

Projection == INSTANCE HistoryProjection WITH
  builder <- projected, tracker <- {}, published <- <<>>

NoReader == [scope |-> Nowhere, cursor |-> 0, got |-> <<>>]

Init ==
  /\ length = 0
  /\ builder = [sides |-> [s \in Scopes |-> NewSide], subs |-> {}, seen |-> {}]
  /\ stage = "reading"
  /\ reader = NoReader
  /\ projected = Flat(builder)
  /\ lengthy = FALSE

(* What the event is to the projection: a placeholder is an output, and so  *)
(* is a line written before there were envelopes.                           *)
Meaning(e) ==
  IF e.kind = "legacy" \/ (e.form = "line" /\ e.kind \in {"delta", "state", "progress"}) THEN Projection!Event("output", Main, NoId)
  ELSE Projection!Event(e.kind, e.scope, e.id)

(* The next line.  A build that has failed is given up. *)
ReadLine(e) ==
  /\ stage = "reading" /\ ~Broken(builder)
  /\ length < MaxEvents
  /\ length' = length + 1
  /\ builder' = IF e.form = "line"
                THEN HandleOversized(builder, HandleEvent(builder, Metadata(e), length'), e, length')
                ELSE HandleEvent(builder, e, length')
  /\ projected' = Projection!HandleEvent(projected, Meaning(e), length')
  /\ lengthy' = (lengthy \/ e.form = "line")
  /\ UNCHANGED <<stage, reader>>

\* Mutant: only the main timeline's last page is written.
FinishMain ==
  /\ stage = "reading" /\ ~Broken(builder)
  /\ stage' = "complete"
  /\ LET settled == SettleAll(builder, length)
     IN builder' = [settled EXCEPT !.sides[Main] = Flush(@)]
  /\ projected' = Projection!Settle(projected)
  /\ UNCHANGED <<length, reader, lengthy>>

(* finish: every timeline is settled, its last page becomes a file. *)
Finish ==
  /\ stage = "reading" /\ ~Broken(builder)
  /\ stage' = "complete"
  /\ LET settled == SettleAll(builder, length)
     IN builder' = [settled EXCEPT !.sides = [s \in Scopes |-> Flush(@[s])]]
  /\ projected' = Projection!Settle(projected)
  /\ UNCHANGED <<length, reader, lengthy>>

(* get_page and get_subhistory_page: the latest page, then the one before   *)
(* the cursor.                                                              *)
ReadLatest(s) ==
  LET files == builder.sides[s].files
  IN /\ stage = "complete" /\ ~Broken(builder)
     /\ reader = NoReader
     /\ files # <<>>
     /\ reader' = [scope |-> s, cursor |-> Len(files), got |-> Last(files)]
     /\ UNCHANGED <<length, builder, stage, projected, lengthy>>

ReadOlder ==
  /\ reader.cursor > 1
  /\ reader' = [reader EXCEPT !.cursor = @ - 1,
                 !.got = builder.sides[reader.scope].files[reader.cursor - 1] \o @]
  /\ UNCHANGED <<length, builder, stage, projected, lengthy>>

Next ==
  \/ \E e \in Events : ReadLine(e)
  \/ Finish
  \/ \E s \in {Main} \cup builder.subs : ReadLatest(s)
  \/ ReadOlder

Spec == Init /\ [][Next]_vars

-----------------------------------------------------------------------------
(* Properties *)

TypeOK ==
  /\ length \in 0..MaxEvents
  /\ stage \in {"reading", "complete"}
  /\ builder.subs \subseteq Agents /\ builder.seen \subseteq Messages \cup Tools
  /\ \A s \in Scopes :
       LET side == builder.sides[s]
       IN /\ \A e \in Range(Flattened(side)) : e.text \subseteq 1..length
          /\ side.counted \in Nat
          /\ side.error \in {"none", "page", "entry", "missing", "open", "no entry", "no room", "invalid"}
          /\ \A t \in DOMAIN side.open : side.open[t].file \in DOMAIN side.files
  /\ reader.cursor \in Nat

(* Splitting into files loses nothing: at every line the files and the page *)
(* in memory, read one after the other, are the entries that the projection *)
(* of the same log has, in its order, with the status that later events     *)
(* have given them although they were already in a file.                    *)
PagesProject == ~Broken(builder) => Flat(builder) = projected

(* A client that follows the cursors from the latest page to the first has  *)
(* every entry of the timeline once, in order.                              *)
ReadsAll ==
  reader.cursor = 1 => Timeline(reader.got) = projected.entries[reader.scope]

(* The text shown by an entry is its own: it came with one of its events,   *)
(* though an extracted text is put into "the last entry" after the fact,    *)
(* and no text, streamed or not, is shown by two entries.                   *)
OwnText ==
  \A s \in Scopes :
    LET shown == Flattened(builder.sides[s])
    IN \A i \in DOMAIN shown :
         /\ \A seq \in shown[i].text : shown[i].first <= seq /\ seq <= shown[i].last
         /\ shown[i].kind \in {"user", "output"} => shown[i].text # {}
         /\ \A j \in DOMAIN shown : i # j => shown[i].text \cap shown[j].text = {}

(* A log of lines that can be parsed is always projected: no page grows     *)
(* over its limit and no patch misses its tool, however entries of all      *)
(* sizes, streams, tools and sub-agents are interleaved.  The exceptions    *)
(* are the limit of open tools, and an entry of a sub-agent that is too     *)
(* large when encoded.                                                      *)
OrdinaryLogsBuild ==
  ~lengthy => \A s \in Scopes : builder.sides[s].error \in {"none", "open", "entry"}

(* history.rs:62, on HistoryEntry: the in-memory upper bound remains below  *)
(* one page.                                                                *)
PageInMemoryBounded == \A s \in Scopes : Weigh(builder.sides[s].page) <= PageBytes

(* history.rs:2724, when there is no room for a sub-history: never fail the *)
(* build over this; only this sub-agent's expandable detail is lost.        *)
SubsNeverFail ==
  \A s \in Scopes : builder.sides[s].error # "no room"

=============================================================================
