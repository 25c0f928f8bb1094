------------------------------ MODULE LongLines ------------------------------
(***************************************************************************)
(* A line of events.jsonl that is longer than PARSE_LINE_LIMIT             *)
(* (storage/history.rs).  It is read in the chunks the buffer happens to   *)
(* hold and moved to a file when it becomes too long.  That file is never  *)
(* parsed as a whole: a first pass keeps the identity of the event and     *)
(* skips everything else, a second pass finds one field and copies its     *)
(* value, a string decoded, any other value as it is written.              *)
(*                                                                         *)
(* A byte is one of the characters JSON gives a meaning, or a letter.  The *)
(* four digits of a \u escape are one letter: a character, or the high or  *)
(* the low half of a pair.  "1st" and "2nd" are the bytes of a character   *)
(* of two bytes.                                                           *)
(***************************************************************************)
EXTENDS Naturals, Sequences, FiniteSets, SequencesExt, TLC

CONSTANTS
  Documents,    \* the lines: the fields of an event, and how they are laid out
  Pieces,       \* parts of strings: as they are written, and what they mean
  Identity,     \* keys of the event whose strings are its identity
  Attachments,  \* the key of the attachments, kept if they are a list
  Field,        \* the key whose value is extracted
  ParseLimit,   \* PARSE_LINE_LIMIT
  ScalarLimit,  \* MAX_JSON_SCALAR_BYTES
  EntryLimit,   \* ENTRY_BYTE_LIMIT
  MaxNesting,   \* MAX_JSON_NESTING_DEPTH
  Buffered      \* bytes decoded before they are flushed to the spool

LimitsAssumption ==
  {ParseLimit, ScalarLimit, EntryLimit, MaxNesting, Buffered} \subseteq Nat \ {0}

Quote == "\""
Escape == "\\"
Newline == "newline"
Space == " "

VARIABLES
  document,  \* the event the line was written for
  unread,    \* bytes of the log that have not been read
  line,      \* read_bounded_line: the bytes of the line, and where they are
  pass,      \* "line", "metadata", "extract"
  offset,    \* bytes of the line this pass has read
  scan,      \* JsonMetadataScanner
  search     \* extract_json_string_field, extract_json_value_field

vars == <<document, unread, line, pass, offset, scan, search>>

-----------------------------------------------------------------------------
(* What the lines are.  A string is a sequence of pieces; a value is a      *)
(* string or raw bytes; an event is a sequence of keys and values.          *)

Written(string) == FlattenSeq([i \in DOMAIN string |-> Pieces[string[i]].written])
Meant(string) == FlattenSeq([i \in DOMAIN string |-> Pieces[string[i]].meant])

Quoted(bytes) == <<Quote>> \o bytes \o <<Quote>>

ValueBytes(value) == IF value.kind = "string" THEN Quoted(Written(value.string)) ELSE value.bytes

Object(fields, gap) ==
  LET Pair(f) == Quoted(f.key) \o gap \o <<":">> \o gap \o ValueBytes(f.value)
  IN <<"{">> \o FlattenSeq([i \in DOMAIN fields |->
                              (IF i = 1 THEN <<>> ELSE <<",">> \o gap) \o Pair(fields[i])])
     \o gap \o <<"}">>

Raw(bytes) == [kind |-> "raw", bytes |-> bytes]

LineBytes(d) ==
  Object(<<[key |-> <<"seq">>, value |-> Raw(<<"7">>)],
           [key |-> <<"event">>, value |-> Raw(Object(d.fields, d.gap))]>> \o d.after, d.gap)

(* JSON escapes a newline: a line has none in it. *)
LinesAssumption ==
  \A d \in Documents : LineBytes(d) \in Seq(Range(LineBytes(d)) \ {Newline})

NextLine == <<"{">>

-----------------------------------------------------------------------------
(* read_bounded_line *)

EmptyLine == [inline |-> <<>>, external |-> FALSE, file |-> <<>>]

\* Mutant: the bytes read so far stay behind when the line moves to a file.
ReceivedAfresh(l, data) ==
  IF l.external THEN [l EXCEPT !.file = @ \o data]
  ELSE IF Len(l.inline) + Len(data) > ParseLimit
  THEN [inline |-> <<>>, external |-> TRUE, file |-> data]
  ELSE [l EXCEPT !.inline = @ \o data]

(* The buffer holds the next n bytes. *)
Received(l, data) ==
  IF l.external THEN [l EXCEPT !.file = @ \o data]
  ELSE IF Len(l.inline) + Len(data) > ParseLimit
  THEN [inline |-> <<>>, external |-> TRUE, file |-> l.inline \o data]
  ELSE [l EXCEPT !.inline = @ \o data]

ReadChunk(n) ==
  LET available == SubSeq(unread, 1, n)
      ends == Newline \in Range(available)
      data == IF ends THEN SubSeq(available, 1, SelectInSeq(available, LAMBDA b : b = Newline) - 1)
              ELSE available
  IN /\ pass = "line"
     /\ line' = Received(line, data)
     /\ unread' = SubSeq(unread, Len(data) + (IF ends THEN 2 ELSE 1), Len(unread))
     /\ pass' = IF ~ends THEN "line" ELSE IF line'.external THEN "metadata" ELSE "parsed"
     /\ UNCHANGED <<document, offset, scan, search>>

-----------------------------------------------------------------------------
(* JsonMetadataScanner: what the next byte is to it depends on what it      *)
(* expects.                                                                 *)

NewScan == [expects |-> "object", within |-> "envelope", key |-> <<>>, token |-> <<>>,
            closers |-> <<>>, quoted |-> FALSE, escaped |-> FALSE, kept |-> {}]

Fails(m) == [m EXCEPT !.expects = "failed"]
Expect(m, what) == [m EXCEPT !.expects = what, !.token = <<>>, !.escaped = FALSE]

Closer(byte) == IF byte = "{" THEN "}" ELSE "]"

(* The object is closed. *)
Leave(m) ==
  IF m.within = "envelope" THEN Expect(m, "done")
  ELSE Expect([m EXCEPT !.within = "envelope"], "comma")

AfterValue(m, byte) ==
  CASE byte = Space -> m
    [] byte = "," -> Expect(m, "key")
    [] byte = "}" -> Leave(m)
    [] OTHER -> Fails(m)

(* string and skip_string, skip_value *)
Skip(m, byte) ==
  CASE byte = Quote -> Expect(m, "skipped string")
    [] byte \in {"{", "["} -> [Expect(m, "nested") EXCEPT !.closers = <<Closer(byte)>>, !.quoted = FALSE]
    [] OTHER -> [Expect(m, "scalar") EXCEPT !.token = <<byte>>]

(* scan_envelope and scan_event: which values are kept. *)
Value(m, byte) ==
  CASE byte = Space -> m
    [] m.within = "envelope" /\ m.key = <<"event">> /\ byte = "{" ->
         Expect([m EXCEPT !.within = "event"], "key")
    [] m.within = "event" /\ m.key \in Identity /\ byte = Quote -> Expect(m, "string")
    [] m.within = "event" /\ m.key = Attachments /\ byte = "[" ->
         [Expect(m, "list") EXCEPT !.token = <<byte>>, !.closers = <<Closer(byte)>>, !.quoted = FALSE]
    [] OTHER -> Skip(m, byte)

Quoting(m, byte, next) ==
  LET more == [m EXCEPT !.token = Append(@, byte)]
  IN CASE m.escaped -> [more EXCEPT !.escaped = FALSE]
       [] ~m.escaped /\ byte = Escape -> [more EXCEPT !.escaped = TRUE]
       [] ~m.escaped /\ byte = Quote -> next
       [] OTHER -> more

(* The bytes of a string are bounded, quotes included. *)
Bounded(m) == IF Len(m.token) + 1 > ScalarLimit THEN Fails(m) ELSE m

\* Mutant: an escaped quote ends a string of a nested value.
NestedUnescaped(m, byte) ==
  CASE m.quoted -> [m EXCEPT !.quoted = (byte # Quote)]
    [] ~m.quoted /\ byte = Quote -> [m EXCEPT !.quoted = TRUE]
    [] ~m.quoted /\ byte \in {"{", "["} ->
         IF Len(m.closers) >= MaxNesting THEN Fails(m)
         ELSE [m EXCEPT !.closers = Append(@, Closer(byte))]
    [] ~m.quoted /\ byte \in {"}", "]"} ->
         IF Last(m.closers) # byte THEN Fails(m)
         ELSE IF Len(m.closers) = 1 THEN Expect([m EXCEPT !.closers = <<>>], "comma")
         ELSE [m EXCEPT !.closers = Front(@)]
    [] OTHER -> m

Nested(m, byte) ==
  CASE m.quoted /\ m.escaped -> [m EXCEPT !.escaped = FALSE]
    [] m.quoted /\ ~m.escaped -> [m EXCEPT !.escaped = (byte = Escape), !.quoted = (byte # Quote)]
    [] ~m.quoted /\ byte = Quote -> [m EXCEPT !.quoted = TRUE]
    [] ~m.quoted /\ byte \in {"{", "["} ->
         IF Len(m.closers) >= MaxNesting THEN Fails(m)
         ELSE [m EXCEPT !.closers = Append(@, Closer(byte))]
    [] ~m.quoted /\ byte \in {"}", "]"} ->
         IF Last(m.closers) # byte THEN Fails(m)
         ELSE IF Len(m.closers) = 1 THEN Expect([m EXCEPT !.closers = <<>>], "comma")
         ELSE [m EXCEPT !.closers = Front(@)]
    [] OTHER -> m

Keep(m) == m.kept \cup {[key |-> m.key, string |-> m.token]}

(* bounded_value *)
List(m, byte) ==
  LET more == [m EXCEPT !.token = Append(@, byte)]
      after == Nested(more, byte)
  IN IF Len(more.token) > EntryLimit THEN Fails(m)
     ELSE IF after.expects = "comma" THEN [after EXCEPT !.kept = Keep(more)] ELSE after

Scan(m, byte) ==
  CASE m.expects = "object" ->
         IF byte = Space THEN m ELSE IF byte = "{" THEN Expect(m, "key") ELSE Fails(m)
    [] m.expects = "key" ->
         (CASE byte = Space -> m
            [] byte = "}" -> Leave(m)
            [] byte = Quote -> Expect(m, "name")
            [] OTHER -> Fails(m))
    [] m.expects = "name" -> Bounded(Quoting(m, byte, Expect([m EXCEPT !.key = m.token], "colon")))
    [] m.expects = "colon" ->
         IF byte = Space THEN m ELSE IF byte = ":" THEN Expect(m, "value") ELSE Fails(m)
    [] m.expects = "value" -> Value(m, byte)
    [] m.expects = "string" ->
         Bounded(Quoting(m, byte, Expect([m EXCEPT !.kept = Keep(m)], "comma")))
    [] m.expects = "skipped string" -> Quoting(m, byte, Expect(m, "comma"))
    [] m.expects = "nested" -> Nested(m, byte)
    [] m.expects = "list" -> List(m, byte)
    [] m.expects = "scalar" ->
         IF byte \in {",", "}", "]"} THEN AfterValue(m, byte)
         ELSE Bounded([m EXCEPT !.token = Append(@, byte)])
    [] m.expects = "comma" -> AfterValue(m, byte)

-----------------------------------------------------------------------------
(* The spool of the copied value: bytes are flushed in chunks of whole      *)
(* characters.                                                              *)

\* Mutant: a chunk is written as it is.
FlushTorn(s, final) == [s EXCEPT !.spool = @ \o s.output, !.output = <<>>]

Flush(s, final) ==
  LET torn == s.output # <<>> /\ Last(s.output) = "1st"
      valid == IF torn THEN Front(s.output) ELSE s.output
  IN IF torn /\ final THEN [s EXCEPT !.mode = "failed"]
     ELSE [s EXCEPT !.spool = @ \o valid, !.output = IF torn THEN <<"1st">> ELSE <<>>]

Emit(s, byte) == [s EXCEPT !.output = Append(@, byte)]
FlushFull(s) ==
  IF s.mode \in {"string", "value"} /\ ~s.scalar /\ Len(s.output) >= Buffered
  THEN Flush(s, FALSE) ELSE s
Found(s) == LET all == Flush(s, TRUE) IN IF all.mode = "failed" THEN all ELSE [all EXCEPT !.mode = "found"]
Miss(s) == [s EXCEPT !.mode = "failed"]

NewSearch(wanted) ==
  [mode |-> "search", wanted |-> wanted, quoted |-> FALSE, escaped |-> FALSE, candidate |-> <<>>,
   closers |-> <<>>, scalar |-> FALSE, unit |-> "none", output |-> <<>>, spool |-> <<>>]

\* Mutant: one level too many is accepted.
LookDeeper(s, byte) ==
  CASE s.quoted /\ s.escaped -> [s EXCEPT !.escaped = FALSE, !.candidate = Append(@, byte)]
    [] s.quoted /\ ~s.escaped /\ byte = Escape -> [s EXCEPT !.escaped = TRUE]
    [] s.quoted /\ ~s.escaped /\ byte = Quote ->
         [s EXCEPT !.quoted = FALSE, !.candidate = <<>>,
                   !.mode = IF Len(s.closers) = 2 /\ s.candidate = Field THEN "separator" ELSE @]
    [] s.quoted /\ ~s.escaped /\ byte \notin {Escape, Quote} -> [s EXCEPT !.candidate = Append(@, byte)]
    [] ~s.quoted /\ byte = Quote -> [s EXCEPT !.quoted = TRUE, !.candidate = <<>>]
    [] ~s.quoted /\ byte \in {"{", "["} ->
         IF Len(s.closers) > MaxNesting THEN Miss(s) ELSE [s EXCEPT !.closers = Append(@, Closer(byte))]
    [] ~s.quoted /\ byte \in {"}", "]"} ->
         IF s.closers = <<>> \/ Last(s.closers) # byte THEN Miss(s) ELSE [s EXCEPT !.closers = Front(@)]
    [] OTHER -> s

(* The strings of the second level are candidates for the key; the escape   *)
(* of a character is not part of a candidate.                               *)
Look(s, byte) ==
  CASE s.quoted /\ s.escaped -> [s EXCEPT !.escaped = FALSE, !.candidate = Append(@, byte)]
    [] s.quoted /\ ~s.escaped /\ byte = Escape -> [s EXCEPT !.escaped = TRUE]
    [] s.quoted /\ ~s.escaped /\ byte = Quote ->
         [s EXCEPT !.quoted = FALSE, !.candidate = <<>>,
                   !.mode = IF Len(s.closers) = 2 /\ s.candidate = Field THEN "separator" ELSE @]
    [] s.quoted /\ ~s.escaped /\ byte \notin {Escape, Quote} -> [s EXCEPT !.candidate = Append(@, byte)]
    [] ~s.quoted /\ byte = Quote -> [s EXCEPT !.quoted = TRUE, !.candidate = <<>>]
    [] ~s.quoted /\ byte \in {"{", "["} ->
         IF Len(s.closers) >= MaxNesting THEN Miss(s) ELSE [s EXCEPT !.closers = Append(@, Closer(byte))]
    [] ~s.quoted /\ byte \in {"}", "]"} ->
         IF s.closers = <<>> \/ Last(s.closers) # byte THEN Miss(s) ELSE [s EXCEPT !.closers = Front(@)]
    [] OTHER -> s

(* The byte after a candidate; when it is not a colon it is gone. *)
\* Mutant: a string that is a value is taken for the key before it.
SeparatorAnything(s, byte) ==
  CASE byte = Space -> s
    [] byte \in {":", ",", "}"} -> [s EXCEPT !.mode = "first"]
    [] byte = Quote /\ s.wanted = "string" -> [s EXCEPT !.mode = "string", !.closers = <<>>]
    [] OTHER -> [s EXCEPT !.mode = "search"]

Separator(s, byte) ==
  CASE byte = Space -> s
    [] byte = ":" -> [s EXCEPT !.mode = "first"]
    [] byte = Quote /\ s.wanted = "string" -> [s EXCEPT !.mode = "string", !.closers = <<>>]
    [] OTHER -> [s EXCEPT !.mode = "search"]

(* capture_json_value begins with the first byte of the value. *)
Capture(s, byte) ==
  [Emit([s EXCEPT !.mode = "value", !.quoted = (byte = Quote),
                  !.closers = IF byte \in {"{", "["} THEN <<Closer(byte)>> ELSE <<>>,
                  !.scalar = byte \notin {"{", "[", Quote}], byte) EXCEPT !.escaped = FALSE]

First(s, byte) ==
  CASE byte = Space -> s
    [] s.wanted = "value" /\ byte # Space -> Capture(s, byte)
    [] s.wanted = "string" /\ byte = Quote -> [s EXCEPT !.mode = "string", !.closers = <<>>]
    [] OTHER -> [s EXCEPT !.mode = "search"]

Decoded(byte) == IF byte = "t" THEN "tab" ELSE byte

(* append_json_utf16_unit *)
Unit(s, half) ==
  CASE half = "high" -> IF s.unit = "high, then u" THEN Miss(s) ELSE [s EXCEPT !.unit = "high"]
    [] half = "low" -> IF s.unit = "high, then u" THEN Emit([s EXCEPT !.unit = "none"], "pair") ELSE Miss(s)
    [] OTHER -> IF s.unit = "high, then u" THEN Miss(s) ELSE Emit([s EXCEPT !.unit = "none"], half)

(* capture_json_string; unit says whether a \u escape, or the second half   *)
(* of a pair, is awaited.                                                   *)
StringByte(s, byte) ==
  CASE s.unit \in {"u", "high, then u"} -> [Unit(s, byte) EXCEPT !.escaped = FALSE]
    [] s.unit \in {"none", "high"} /\ s.escaped ->
         (CASE byte = "u" -> [s EXCEPT !.unit = IF @ = "high" THEN "high, then u" ELSE "u"]
            [] byte \in {Quote, Escape, "t"} /\ s.unit = "none" ->
                 Emit([s EXCEPT !.escaped = FALSE], Decoded(byte))
            [] OTHER -> Miss(s))
    [] s.unit \in {"none", "high"} /\ ~s.escaped /\ byte = Escape -> [s EXCEPT !.escaped = TRUE]
    [] s.unit = "high" /\ ~s.escaped /\ byte # Escape -> Miss(s)
    [] s.unit = "none" /\ ~s.escaped /\ byte = Quote -> Found(s)
    [] OTHER -> Emit(s, byte)

Trimmed(bytes) ==
  SubSeq(bytes, 1, SelectLastInSeq(bytes, LAMBDA b : b # Space))

(* capture_json_value *)
ValueByte(s, byte) ==
  CASE s.quoted /\ s.escaped -> Emit([s EXCEPT !.escaped = FALSE], byte)
    [] s.quoted /\ ~s.escaped /\ byte = Quote ->
         LET closed == Emit([s EXCEPT !.quoted = FALSE], byte)
         IN IF s.closers = <<>> THEN Found(closed) ELSE closed
    [] s.quoted /\ ~s.escaped /\ byte # Quote -> Emit([s EXCEPT !.escaped = (byte = Escape)], byte)
    [] ~s.quoted /\ byte = Quote -> Emit([s EXCEPT !.quoted = TRUE], byte)
    [] ~s.quoted /\ byte \in {"{", "["} ->
         IF Len(s.closers) >= MaxNesting THEN Miss(s)
         ELSE Emit([s EXCEPT !.closers = Append(@, Closer(byte))], byte)
    [] ~s.quoted /\ byte \in {"}", "]"} ->
         IF s.closers = <<>> THEN IF s.scalar THEN Found(s) ELSE Miss(s)
         ELSE IF Last(s.closers) # byte THEN Miss(s)
         ELSE LET closed == Emit([s EXCEPT !.closers = Front(@)], byte)
              IN IF closed.closers = <<>> THEN Found(closed) ELSE closed
    [] s.scalar /\ byte = "," -> Found([s EXCEPT !.output = Trimmed(@)])
    [] OTHER -> Emit(s, byte)

Search(s, byte) ==
  CASE s.mode = "search" -> Look(s, byte)
    [] s.mode = "separator" -> Separator(s, byte)
    [] s.mode = "first" -> First(s, byte)
    [] s.mode = "string" -> FlushFull(StringByte(s, byte))
    [] s.mode = "value" -> FlushFull(ValueByte(s, byte))

-----------------------------------------------------------------------------
Init ==
  /\ document \in Documents
  /\ unread = LineBytes(document) \o <<Newline>> \o NextLine
  /\ line = EmptyLine
  /\ pass = "line"
  /\ offset = 0
  /\ scan = NewScan
  /\ \E wanted \in document.wanted : search = NewSearch(wanted)

(* oversized_metadata reads the file from its first byte. *)
ScanByte ==
  /\ pass = "metadata" /\ scan.expects \notin {"done", "failed"}
  /\ offset < Len(line.file)
  /\ scan' = Scan(scan, line.file[offset + 1])
  /\ offset' = offset + 1
  /\ UNCHANGED <<document, unread, line, pass, search>>

(* With the identity known, the value is looked for in a second reading. *)
StartSearch ==
  /\ pass = "metadata" /\ scan.expects = "done"
  /\ pass' = "extract"
  /\ offset' = 0
  /\ UNCHANGED <<document, unread, line, scan, search>>

SearchByte ==
  /\ pass = "extract" /\ search.mode \notin {"found", "failed"}
  /\ offset < Len(line.file)
  /\ search' = Search(search, line.file[offset + 1])
  /\ offset' = offset + 1
  /\ UNCHANGED <<document, unread, line, pass, scan>>

Next ==
  \/ \E n \in DOMAIN unread : ReadChunk(n)
  \/ ScanByte
  \/ StartSearch
  \/ SearchByte

Spec == Init /\ [][Next]_vars

-----------------------------------------------------------------------------
(* Properties *)

TypeOK ==
  /\ pass \in {"line", "parsed", "metadata", "extract"}
  /\ offset \in 0..Len(line.file)
  /\ line.external \in BOOLEAN /\ (line.external => line.inline = <<>>)
  /\ scan.within \in {"envelope", "event"}
  /\ Len(scan.closers) <= MaxNesting /\ Len(search.closers) <= MaxNesting
  /\ search.mode \in {"search", "separator", "first", "string", "value", "found", "failed"}

(* However the buffer cuts it, a line is read whole, the next line is left  *)
(* to be read, and it is in a file just when it is longer than the limit.   *)
LineWhole ==
  pass # "line" =>
    /\ line.inline \o line.file = LineBytes(document)
    /\ unread = NextLine
    /\ line.external <=> Len(LineBytes(document)) > ParseLimit

FieldsOf(key) == {i \in DOMAIN document.fields : document.fields[i].key = key}
FirstOf(key) == document.fields[CHOOSE i \in FieldsOf(key) : \A j \in FieldsOf(key) : i <= j].value

Identities ==
  {[key |-> f.key, string |-> Written(f.value.string)] :
     f \in {g \in Range(document.fields) : g.key \in Identity /\ g.value.kind = "string"}}
  \cup {[key |-> f.key, string |-> f.value.bytes] :
     f \in {g \in Range(document.fields) : g.key = Attachments}}

TooLarge == \E f \in Range(document.fields) : f.key = Attachments /\ Len(f.value.bytes) > EntryLimit

(* The identity that the first pass finds is that of the event: nothing in  *)
(* a skipped value, a nested object or a string with quotes and braces in   *)
(* it is taken for a field of the event.  An event is refused only for a    *)
(* list of attachments that is too large.                                   *)
IdentityTrue ==
  /\ scan.expects = "failed" => TooLarge
  /\ scan.kept \subseteq Identities
  /\ scan.expects = "done" => scan.kept = Identities /\ ~TooLarge
  /\ pass = "metadata" /\ offset = Len(line.file) => scan.expects \in {"done", "failed"}

Deep == document.depth > MaxNesting

(* What the second pass copies is the value of the field: a string as it is *)
(* meant, another value as it is written.  It is missed only when the event *)
(* lacks it or nests too deeply.                                            *)
ValueTrue ==
  /\ search.mode = "found" =>
       /\ FieldsOf(Field) # {}
       /\ IF search.wanted = "string" THEN search.spool = Meant(FirstOf(Field).string)
          ELSE Trimmed(search.spool) = ValueBytes(FirstOf(Field))
  /\ search.mode = "failed" => Deep
  /\ pass = "extract" /\ offset = Len(line.file) => search.mode = "found" \/ FieldsOf(Field) = {} \/ Deep

(* The spool, which is read back as text, never ends within a character.    *)
SpoolWhole == search.spool # <<>> => Last(search.spool) # "1st"

=============================================================================
