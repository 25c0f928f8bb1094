------------------------------ MODULE MCReading ------------------------------
(***************************************************************************)
(* The instance of the modules about how a log is read: the usage that its  *)
(* lines report, the pages its history is split into, the lines that are   *)
(* too long to be parsed.  As in MCStorage the initial state chooses one   *)
(* part, whose actions alone are taken then.                               *)
(***************************************************************************)
EXTENDS RunUsage, TLC

CONSTANTS Main, Agents, Tools, Home, Messages, MaxSubs, PageEntries, PageBytes, EntryBytes,
          Weight, Inline, MaxOpen, Events, MaxEvents
CONSTANTS Documents, Pieces, Identity, Attachments, Field, ParseLimit, ScalarLimit,
          EntryLimit, MaxNesting, Buffered
CONSTANTS A1, A2, T, M     \* two sub-agents, a tool and a message

VARIABLES
  part,
  length, builder, stage, reader, projected, lengthy,
  document, unread, line, pass, offset, scan, search

pageVars == <<length, builder, stage, reader, projected, lengthy>>
lineVars == <<document, unread, line, pass, offset, scan, search>>
allVars == <<part, vars, pageVars, lineVars>>

Pages == INSTANCE HistoryPages
Lines == INSTANCE LongLines

ASSUME ReadingAssumption ==
  Pages!LimitsAssumption /\ Lines!LimitsAssumption /\ Lines!LinesAssumption

-----------------------------------------------------------------------------
(* Pages: a main timeline and two sub-agents, of which one finds room.      *)

HomeOf == (A1 :> Main) @@ (A2 :> A1) @@ (T :> A1)
Weights == [inline |-> 1, spooled |-> 2, wide |-> 3, line |-> 2]

Of(what, scope, id, form) == [kind |-> what, scope |-> scope, id |-> id, form |-> form]

none == "no id"

PageEvents ==
  {Of("user", Main, none, form) : form \in {"inline", "spooled", "wide", "line"}}
  \cup {Of("user", s, none, form) : s \in {A1, A2}, form \in {"inline", "line"}}
  \cup {Of("user", A1, none, "wide"), Of("output", Main, none, "line"), Of("state", Main, none, "inline"),
        Of("legacy", Main, none, "spooled"), Of("invalid", Main, none, "inline")}
  \cup {Of("delta", s, none, "inline") : s \in {Main, A1}}
  \cup {Of(what, Main, none, "line") : what \in {"delta", "invalid"}}
  \cup {Of("complete", s, M, form) : s \in {Main, A1}, form \in {"none", "inline", "line"}}
  \cup {Of("complete", Main, none, "none")}
  \cup {Of("start", HomeOf[t], t, form) : t \in {A1, T}, form \in {"inline", "line"}}
  \cup {Of("progress", HomeOf[t], t, "inline") : t \in {A1, T}}
  \cup {Of("end", HomeOf[t], t, form) : t \in {A1, T}, form \in {"none", "line"}}
  \cup {Of("end", Main, T, "spooled")}

-----------------------------------------------------------------------------
(* Long lines: events with an identity, another field that looks like       *)
(* anything, and the field to extract, in several orders.                   *)

(* The bytes and values of LongLines: constants cannot be defined by a       *)
(* module that takes them.                                                  *)
Escape == "\\"
Quote == "\""
Space == " "
Quoted(bytes) == <<Quote>> \o bytes \o <<Quote>>
Raw(bytes) == [kind |-> "raw", bytes |-> bytes]

Piece(written, meant) == [written |-> written, meant |-> meant]

PieceTable ==
  ("t" :> Piece(<<"t">>, <<"t">>)) @@ ("brace" :> Piece(<<"}">>, <<"}">>))
  @@ ("quote" :> Piece(<<Escape, Quote>>, <<Quote>>)) @@ ("escape" :> Piece(<<Escape, Escape>>, <<Escape>>))
  @@ ("tab" :> Piece(<<Escape, "t">>, <<"tab">>)) @@ ("two" :> Piece(<<"1st", "2nd">>, <<"1st", "2nd">>))
  @@ ("unit" :> Piece(<<Escape, "u", "c">>, <<"c">>))
  @@ ("pair" :> Piece(<<Escape, "u", "high", Escape, "u", "low">>, <<"pair">>))

Text(string) == [kind |-> "string", string |-> string]
FieldOf(key, value) == [key |-> <<key>>, value |-> value]

Strings == {<<>>} \cup {<<p>> : p \in DOMAIN PieceTable} \cup {<<p, q>> : p, q \in DOMAIN PieceTable}

InnerObject == <<"{">> \o Quoted(<<"t">>) \o <<":">> \o Quoted(<<"}", Escape, Quote>>) \o <<"}">>
Others ==
  {Text(<<>>), Text(<<"t">>), Text(<<"tab">>), Text(<<"escape">>), Raw(<<"n", "n">>),
   Raw(InnerObject), Raw(<<"[">> \o Quoted(<<"t">>) \o <<"]">>), Raw(<<"[">> \o InnerObject \o <<"]">>)}

TooDeep == Raw(<<"[">> \o <<"[">> \o InnerObject \o <<"]", "]">>)

(* A text is a string; a tool's value may be anything. *)
Doc(fields, gap, after, depth) ==
  [fields |-> fields, gap |-> gap, after |-> after, depth |-> depth,
   wanted |-> IF \E i \in DOMAIN fields : fields[i].key = <<"t">> /\ fields[i].value.kind = "raw" THEN {"value"}
              ELSE {"string", "value"}]

Id == FieldOf("id", Text(<<"quote">>))
Orders(other, values) ==
  UNION {{<<Id, other, FieldOf("t", v)>>, <<FieldOf("t", v), Id, other>>, <<other, FieldOf("t", v), Id>>} : v \in values}

ListOf(inner) == FieldOf("list", Raw(<<"[">> \o inner \o <<"]">>))

LongDocuments ==
  {Doc(fields, gap, <<>>, 4) :
     fields \in UNION {Orders(FieldOf("x", o), {Text(<<"t", "two">>), Raw(<<"1", "2">>), Raw(InnerObject)}) : o \in Others},
     gap \in {<<>>, <<Space>>}}
  \cup {Doc(<<Id, FieldOf("x", o)>>, gap, after, 4) :
          o \in Others, gap \in {<<>>, <<Space>>}, after \in {<<>>, <<FieldOf("z", Text(<<"t">>))>>}}
  \cup {Doc(<<Id, FieldOf("t", Text(s))>>, gap, <<>>, 2) : s \in Strings, gap \in {<<>>, <<Space>>}}
  \cup {Doc(<<ListOf(inner), FieldOf("t", Text(<<"t">>)), Id>>, <<>>, <<>>, 4) :
          inner \in {<<>>, InnerObject, InnerObject \o <<",">> \o InnerObject}}
  \cup {Doc(<<Id, FieldOf("x", TooDeep), FieldOf("t", Text(<<"t">>))>>, <<>>, <<>>, 5)}

IdentityKeys == {<<"id">>}
AttachmentsKey == <<"list">>
FieldKey == <<"t">>

-----------------------------------------------------------------------------
(* One part is chosen; the variables of the others are off. *)
Off == "off"
UsageOff ==
  /\ kind = Off /\ process = Off /\ starts = Off /\ next = Off /\ queue = Off /\ active = Off
  /\ messages = Off /\ indexes = Off /\ afresh = Off /\ spent = Off /\ hidden = Off
  /\ extracted = Off /\ listed = Off
PagesOff ==
  length = Off /\ builder = Off /\ stage = Off /\ reader = Off /\ projected = Off /\ lengthy = Off
LinesOff ==
  /\ document = Off /\ unread = Off /\ line = Off /\ pass = Off /\ offset = Off
  /\ scan = Off /\ search = Off

ReadingInit ==
  \/ part = "usage" /\ Init /\ PagesOff /\ LinesOff
  \/ part = "pages" /\ Pages!Init /\ UsageOff /\ LinesOff
  \/ part = "lines" /\ Lines!Init /\ UsageOff /\ PagesOff

ReadingNext ==
  /\ UNCHANGED part
  /\ \/ part = "usage" /\ Next /\ UNCHANGED <<pageVars, lineVars>>
     \/ part = "pages" /\ Pages!Next /\ UNCHANGED <<vars, lineVars>>
     \/ part = "lines" /\ Lines!Next /\ UNCHANGED <<vars, pageVars>>

ReadingSpec == ReadingInit /\ [][ReadingNext]_allVars

-----------------------------------------------------------------------------
(* The properties of the parts. *)

(* Every variable of the chosen part has its type. *)
TypesOK ==
  CASE part = "usage" -> TypeOK
    [] part = "pages" -> Pages!TypeOK
    [] part = "lines" -> Lines!TypeOK

(* What a run is shown to have cost was spent, all of it unless a process    *)
(* went unseen, the list of runs shows the same, and each turn reports      *)
(* under an index of its own.                                               *)
UsageTrue == part = "usage" => NeverOver /\ NothingLost /\ ListedAlike /\ TurnsApart

(* The pages of a history are its projection, a client that pages through   *)
(* them has every entry with its own text, and lines that can be parsed     *)
(* never fail a build.                                                      *)
PagesTrue ==
  part = "pages" =>
    Pages!PagesProject /\ Pages!ReadsAll /\ Pages!OwnText /\ Pages!OrdinaryLogsBuild

(* However the buffer cuts it, a line is read whole and the next is left.   *)
LineWhole == part = "lines" => Lines!LineWhole

(* What is scanned from a long line is its identity and the value of its     *)
(* field, and no character is torn.                                         *)
ScansTrue == part = "lines" => Lines!IdentityTrue /\ Lines!ValueTrue /\ Lines!SpoolWhole

-----------------------------------------------------------------------------
(* What the repository's comments say and the code does not do, see README:  *)
(* no invariants of this instance, no more than the last four properties of *)
(* RunUsage.                                                                *)

(* The page in memory is never larger than a page may be (history.rs:62).   *)
PageInMemoryBounded == part = "pages" => Pages!PageInMemoryBounded

(* That there is no room for a sub-history never fails a build              *)
(* (history.rs:2724).                                                       *)
SubsNeverFail == part = "pages" => Pages!SubsNeverFail

=============================================================================
