-------------------------- MODULE StoredFilesProofs --------------------------
(***************************************************************************)
(* Unbroken, NotTakenForEmpty and KeysKept of ConfigFiles, for any number   *)
(* of writers, keys, commands and faults; and HandedStays, PointerValid and  *)
(* EndedRunWhole of HistoryGenerations, for any number of generations,       *)
(* requests, events and crashes; AnsweredOnce and StillOffered of           *)
(* InteractionResponses, for any number of pages, failures and restarts;   *)
(* KeptIsCurrent and AnswerCurrent of ScanCaches, and KeptIsCurrent of       *)
(* RunIndex, for any number of files, runs, calls, writes and faults.      *)
(*                                                                         *)
(* The configuration files.  A writer with a temporary file of its own       *)
(* shares its inode with nobody; a writer that writes in place has opened    *)
(* the file itself; a single writer of the favourites has their temporary   *)
(* file to itself (Owners).  And what a writer has read differs from what   *)
(* the file ought to hold only by the keys that others have changed since,   *)
(* which is what its write undoes (Bases).                                 *)
(*                                                                         *)
(* The generations.  What this process retains is complete and no clean-up  *)
(* touches it, and a client is only handed what is retained (Retention).  A *)
(* request that builds holds GLOBAL_BUILD_LOCK, and as long as no summary    *)
(* was unreadable it holds the run's lock as well: the pointer that its     *)
(* clean-up has read is still the pointer when it sweeps, and nobody sweeps *)
(* away what it is about to point to (Locks, Pointer).  And a run that had   *)
(* ended when the request began, and has not changed since, is as long as   *)
(* the request's snapshot of it (Snapshots).                               *)
(*                                                                         *)
(* The answers to prompts.  A response is written at most once, after its   *)
(* begin is in the log (ResponseShape); a page that has processed the begin  *)
(* does not offer the request (NotOffered); while the CLI waits and nobody   *)
(* has begun, there is nothing but the prompt in the log (StillWaiting).    *)
(*                                                                         *)
(* The caches and the index.  What is kept of a file is at least as new as  *)
(* the fingerprint it is kept under (Matches, Covers).                     *)
(***************************************************************************)
EXTENDS ConfigFiles, Sequences, FiniteSetTheorems, SequenceTheorems, WellFoundedInduction, TLAPS

\* What the proof needs of the constants: the commands under way are finitely
\* many.
WritersFinite == IsFiniteSet(Writers)

\* A command under way; what its "how" is allowed to be.
Commands ==
  [step : {"read", "open", "fill", "rename"}, do : {"set", "clear", "nothing"}, key : Keys,
   how : {"lax", "exact", "strict", "firm", "careless"}, base : SUBSET Keys,
   stale : SUBSET Keys, inode : Inodes \cup {NoFile}, defaults : BOOLEAN]

Fits(o) ==
  /\ o.how = "lax" => kind \in {"settings", "cliSettings"}
  /\ o.how = "careless" => kind = "codexToml"
  /\ o.do = "nothing" => kind = "settings" /\ (o.step = "read" \/ o.defaults)
  /\ o.defaults => kind = "settings" /\ o.base = {} /\ o.step # "read"
  /\ o.step = "read" => o.stale = {} /\ o.base = {}
  /\ o.step \in {"read", "open"} => o.inode = NoFile
  /\ o.step \in {"fill", "rename"} => o.inode \in Inodes
  /\ o.step = "rename" => Target # "place"

Shape ==
  /\ kind \in Kinds
  /\ place \in Inodes \cup {NoFile} /\ tmp \in Inodes \cup {NoFile}
  /\ content \in [Inodes -> Texts]
  /\ op \in [Writers -> Commands \cup {Idle}]
  /\ \A w \in Busy : Fits(op[w])
  /\ owed \subseteq Keys /\ raced \subseteq Keys
  /\ hollow \in BOOLEAN /\ together \in BOOLEAN
  /\ faults \in Nat

\* Only an overlap lets two commands be under way.
Alone == ~together => \A w, v \in Busy : w = v

\* Whose inode is whose.
Owners ==
  /\ tmp # NoFile => Target = "tmp" /\ tmp # place
  /\ Target = "own" =>
       \A w \in Busy : op[w].inode # NoFile =>
         /\ op[w].inode # place
         /\ \A v \in Busy : op[v].inode = op[w].inode => v = w
         /\ content[op[w].inode] = IF op[w].step = "fill" THEN Empty ELSE Whole(Text(op[w]))
  /\ Target = "tmp" /\ ~together =>
       \A w \in Busy : op[w].inode # NoFile =>
         /\ op[w].inode = tmp
         /\ content[tmp] = IF op[w].step = "fill" THEN Empty ELSE Whole(Text(op[w]))
  /\ Target = "place" =>
       \A w \in Busy : op[w].inode # NoFile => op[w].inode = place

\* In place, alone and without failures, the file is whole or being filled.
Filled ==
  /\ Target = "own" => IsWhole
  /\ Target = "tmp" /\ ~together => IsWhole
  /\ Target = "place" /\ ~together /\ faults = 0 =>
       \/ IsWhole /\ \A w \in Busy : op[w].step # "fill"
       \/ content[place] = Empty /\ \E w \in Busy : op[w].step = "fill"

\* The keys the file holds are those it ought to hold, and so are those a
\* writer has read, but for the ones changed behind its back.
FileKeys == IF place = NoFile THEN {} ELSE content[place].keys
Agree(keys, but) == \A k \in Keys \ but : k \in keys <=> k \in owed

Bases ==
  ~hollow /\ ~(kind = "favorites" /\ together) =>
    /\ IsWhole => Agree(FileKeys, raced)
    /\ \A w \in Busy : op[w].step # "read" => Agree(op[w].base, raced \cup op[w].stale)

ConfigInv == Shape /\ Alone /\ Owners /\ Filled /\ NotTakenForEmpty /\ Bases

-----------------------------------------------------------------------------

\* The fifteen commands differ in their file, and in what they may do to it.
Allowed(which, does, how) ==
  /\ which \in Kinds /\ does \subseteq {"set", "clear", "nothing"}
  /\ how \in {"lax", "exact", "strict", "firm", "careless"}
  /\ how = "lax" => which \in {"settings", "cliSettings"}
  /\ how = "careless" => which = "codexToml"
  /\ "nothing" \in does => which = "settings"

SomeCall(w) == \E which, does, how : Allowed(which, does, how) /\ Call(w, which, does, how)

LEMMA CommandsAreCalls ==
  ASSUME NEW w \in Writers,
         \/ UpdateUserSettings(w) \/ UpdateAgentSettings(w) \/ SaveWebServerConfig(w)
         \/ GetUserSettings(w)
         \/ AddFavorite(w) \/ RemoveFavorite(w)
         \/ ToggleServerConfig(w) \/ UpdateCliConfig(w)
         \/ UpdateCodexHooks(w) \/ SetCodexFeature(w) \/ UpdateCodexConfig(w)
         \/ AddCodexServer(w) \/ RemoveCodexServer(w) \/ ToggleCodexSkill(w)
         \/ ToggleCodexPlugin(w)
  PROVE  SomeCall(w)
BY DEF UpdateUserSettings, UpdateAgentSettings, SaveWebServerConfig, GetUserSettings, AddFavorite,
       RemoveFavorite, ToggleServerConfig, UpdateCliConfig, UpdateCodexHooks, SetCodexFeature,
       UpdateCodexConfig, AddCodexServer, RemoveCodexServer, ToggleCodexSkill, ToggleCodexPlugin,
       SomeCall, Allowed, Kinds

\* Open finds an inode that nobody uses.
LEMMA FreshIsUnused ==
  ASSUME WritersFinite, Shape
  PROVE  /\ Fresh \in Inodes /\ Fresh # place /\ Fresh # tmp
         /\ \A w \in Busy : op[w].inode # Fresh
<1> DEFINE Used == {op[w].inode : w \in Busy}
           f == [w \in Busy |-> op[w].inode]
<1>1. IsFiniteSet(Writers) /\ Cardinality(Writers) \in Nat
  BY FS_CardinalityType DEF WritersFinite
<1>2. IsFiniteSet(Busy) /\ Cardinality(Busy) <= Cardinality(Writers) /\ Cardinality(Busy) \in Nat
  <2>1. Busy \in SUBSET Writers
    BY DEF Busy
  <2> QED
    BY <1>1, <2>1, FS_Subset, FS_CardinalityType
<1>3. IsFiniteSet(Used) /\ Cardinality(Used) <= Cardinality(Busy)
  <2>1. f \in Surjection(Busy, Used)
    BY DEF Surjection
  <2> QED
    BY <1>2, <2>1, FS_Surjection
<1> HIDE DEF Used
<1>4. /\ IsFiniteSet(Used \cup {place}) /\ Cardinality(Used \cup {place}) <= Cardinality(Used) + 1
      /\ Cardinality(Used) \in Nat /\ Cardinality(Used \cup {place}) \in Nat
  <2>1. Cardinality(Used) \in Nat
    BY <1>3, FS_CardinalityType
  <2>2. /\ IsFiniteSet(Used \cup {place})
        /\ Cardinality(Used \cup {place}) =
             IF place \in Used THEN Cardinality(Used) ELSE Cardinality(Used) + 1
    BY <1>3, FS_AddElement
  <2> QED
    BY <2>1, <2>2
<1> DEFINE More == Used \cup {place}
<1> HIDE DEF More
<1>5. /\ IsFiniteSet(More \cup {tmp})
      /\ Cardinality(More \cup {tmp}) <= Cardinality(Used) + 2
      /\ Cardinality(More \cup {tmp}) \in Nat
  <2>1. /\ IsFiniteSet(More \cup {tmp})
        /\ Cardinality(More \cup {tmp}) =
             IF tmp \in More THEN Cardinality(More) ELSE Cardinality(More) + 1
    BY <1>4, FS_AddElement DEF More
  <2> QED
    BY <1>4, <2>1 DEF More
<1>6. IsFiniteSet(Inodes) /\ Cardinality(Inodes) = Cardinality(Writers) + 3
  BY <1>1, FS_Interval DEF Inodes
<1>7. ~(Inodes \subseteq More \cup {tmp})
  <2>1. SUFFICES ASSUME Inodes \in SUBSET (More \cup {tmp}) PROVE FALSE
    OBVIOUS
  <2>2. Cardinality(Inodes) <= Cardinality(More \cup {tmp})
    BY <1>5, <2>1, FS_Subset
  <2> QED
    BY <1>1, <1>2, <1>3, <1>4, <1>5, <1>6, <2>2
<1>8. Unused = Inodes \ ({place, tmp} \cup Used)
  BY DEF Unused, Used
<1>9. Fresh \in Unused
  BY <1>7, <1>8 DEF Fresh, More
<1> QED
  BY <1>8, <1>9 DEF Used

-----------------------------------------------------------------------------

\* What a command that reads makes of the keys it has found: it ends, goes on
\* to its change, or first saves the defaults.
Opened(w, keys, first) == [op[w] EXCEPT !.step = "open", !.base = keys, !.defaults = first]
Outcome(w, keys) ==
  \/ op' = [op EXCEPT ![w] = Idle]
  \/ op[w].do # "nothing" /\ op' = [op EXCEPT ![w] = Opened(w, keys, FALSE)]
  \/ keys = {} /\ kind = "settings" /\ op' = [op EXCEPT ![w] = Opened(w, {}, TRUE)]

\* It has found what is there, or takes the file for empty.
Reads(w) ==
  /\ op[w].step = "read"
  /\ \E keys \in SUBSET Keys :
       /\ Outcome(w, keys)
       /\ \/ hollow' = hollow /\ (op'[w] = Idle \/ (IsWhole /\ keys = FileKeys))
          \/ /\ hollow' = TRUE
             /\ kind \in {"settings", "cliSettings", "codexToml"}
             /\ faults' > 0 \/ ~IsWhole
  /\ faults' \in Nat /\ faults' >= faults
  /\ UNCHANGED <<kind, place, tmp, content, owed, raced, together>>

LEMMA FoundOutcome ==
  ASSUME Shape, NEW w \in Writers, op[w].step = "read", NEW keys \in SUBSET Keys
  PROVE  /\ Found(w, keys) => Outcome(w, keys)
         /\ FoundNothing(w) => Outcome(w, {})
<1>1. op[w] \in Commands /\ Fits(op[w])
  BY DEF Shape, Busy, Commands, Idle
<1>2. op[w].defaults = FALSE
  BY <1>1 DEF Fits, Commands
<1>3. ASSUME NEW ks \in SUBSET Keys
      PROVE  [op[w] EXCEPT !.step = "open", !.base = ks] = Opened(w, ks, FALSE)
  BY <1>1, <1>2 DEF Opened, Commands
<1>4. op \in [Writers -> Commands \cup {Idle}]
  BY DEF Shape
<1>5. ASSUME NEW ks \in SUBSET Keys, Found(w, ks) PROVE Outcome(w, ks)
  <2>1. CASE Return(w)
    BY <2>1 DEF Return, Outcome
  <2>2. CASE /\ op[w].do # "nothing"
             /\ op' = [op EXCEPT ![w].step = "open", ![w].base = ks]
    <3>1. op' = [op EXCEPT ![w] = [op[w] EXCEPT !.step = "open", !.base = ks]]
      BY <1>1, <1>4, <2>2
    <3> QED
      BY <1>3, <2>2, <3>1 DEF Outcome
  <2> QED
    BY <1>5, <2>1, <2>2 DEF Found
<1>6. ASSUME FoundNothing(w) PROVE Outcome(w, {})
  <2>1. CASE kind = "settings"
    <3>1. op' = [op EXCEPT ![w].step = "open", ![w].defaults = TRUE]
      BY <1>6, <2>1 DEF FoundNothing
    <3>2. op[w].base = {}
      BY <1>1 DEF Fits
    <3>3. op' = [op EXCEPT ![w] = [op[w] EXCEPT !.step = "open", !.defaults = TRUE]]
      BY <1>1, <1>4, <3>1
    <3>4. [op[w] EXCEPT !.step = "open", !.defaults = TRUE] = Opened(w, {}, TRUE)
      BY <1>1, <3>2 DEF Opened, Commands
    <3> QED
      BY <2>1, <3>3, <3>4 DEF Outcome
  <2>2. CASE kind # "settings"
    BY <1>5, <1>6, <2>2 DEF FoundNothing
  <2> QED
    BY <2>1, <2>2
<1> QED
  BY <1>5, <1>6

LEMMA ReadingReads ==
  ASSUME Shape, NEW w \in Writers, ReadMissing(w) \/ ReadFile(w) \/ ReadError(w)
  PROVE  Reads(w)
<1>1. op[w] \in Commands /\ Fits(op[w])
  BY DEF Shape, Busy, Commands, Idle, ReadMissing, ReadFile, ReadError
<1>2. FileKeys \in SUBSET Keys /\ {} \in SUBSET Keys /\ faults \in Nat
  BY DEF Shape, FileKeys, Texts
<1> DEFINE Meets(keys) ==
      \/ hollow' = hollow /\ (op'[w] = Idle \/ (IsWhole /\ keys = FileKeys))
      \/ /\ hollow' = TRUE
         /\ kind \in {"settings", "cliSettings", "codexToml"}
         /\ faults' > 0 \/ ~IsWhole
<1>7. ASSUME op[w].step = "read", NEW keys \in SUBSET Keys, Outcome(w, keys), Meets(keys),
             UNCHANGED <<kind, place, tmp, content, owed, raced, together>>,
             faults' = faults \/ faults' = faults + 1
      PROVE  Reads(w)
  <2>1. faults' \in Nat /\ faults' >= faults
    BY <1>2, <1>7
  <2> HIDE DEF Meets
  <2>2. \E ks \in SUBSET Keys : Outcome(w, ks) /\ Meets(ks)
    BY <1>7
  <2> QED
    BY <1>7, <2>1, <2>2 DEF Reads, Meets
<1>3. ASSUME Return(w) PROVE Outcome(w, {}) /\ op'[w] = Idle
  BY <1>3 DEF Return, Outcome, Shape
<1>4. CASE ReadMissing(w)
  <2>1. Outcome(w, {}) \/ (op[w].how = "strict" /\ Return(w))
    BY <1>2, <1>4, FoundOutcome DEF ReadMissing
  <2>2. Outcome(w, {}) /\ hollow' = hollow /\ IsWhole /\ FileKeys = {}
    BY <1>3, <1>4, <2>1 DEF ReadMissing, IsWhole, FileKeys
  <2> QED
    BY <1>2, <1>4, <1>7, <2>2 DEF ReadMissing, counters
<1>5. CASE ReadFile(w)
  <2>1. PICK seen \in Parse(content[place]) :
          IF seen.ok THEN Found(w, seen.keys) /\ hollow' = (hollow \/ content[place].text # "whole")
          ELSE IF op[w].how = "lax" THEN FoundNothing(w) /\ hollow' = TRUE
          ELSE Return(w) /\ UNCHANGED hollow
    BY <1>5 DEF ReadFile
  <2>2. content[place] \in Texts
    BY <1>5 DEF ReadFile, Shape
  <2>3. /\ IsWhole => seen = [ok |-> TRUE, keys |-> FileKeys]
        /\ ~IsWhole => \/ kind = "codexToml" /\ seen = [ok |-> TRUE, keys |-> {}]
                       \/ seen = Unparsed
    <3>1. CASE IsWhole
      <4>1. content[place].text = "whole" /\ FileKeys = content[place].keys
        BY <1>5, <3>1 DEF ReadFile, IsWhole, FileKeys
      <4>2. Parse(content[place]) = {[ok |-> TRUE, keys |-> FileKeys]}
        BY <4>1 DEF Parse
      <4> QED
        BY <2>1, <3>1, <4>2
    <3>2. CASE ~IsWhole
      <4>1. content[place].text \in {"empty", "torn"}
        BY <2>2, <3>2 DEF IsWhole, Texts
      <4>2. CASE kind # "codexToml"
        <5>1. Parse(content[place]) = {Unparsed}
          BY <4>1, <4>2 DEF Parse
        <5> QED
          BY <2>1, <3>2, <5>1
      <4>3. CASE kind = "codexToml"
        <5>1. Parse(content[place]) \subseteq {[ok |-> TRUE, keys |-> {}], Unparsed}
          BY <4>1, <4>3 DEF Parse
        <5> QED
          BY <2>1, <3>2, <4>3, <5>1
      <4> QED
        BY <4>2, <4>3
    <3> QED
      BY <3>1, <3>2
  <2>4. /\ op[w].step = "read"
        /\ UNCHANGED <<kind, place, tmp, content, owed, raced, together, faults>>
    BY <1>5 DEF ReadFile, counters
  <2>5. CASE IsWhole
    <3>1. Found(w, FileKeys) /\ hollow' = hollow
      BY <1>5, <2>1, <2>3, <2>5 DEF IsWhole, ReadFile, Shape
    <3> QED
      BY <1>2, <1>7, <2>4, <2>5, <3>1, FoundOutcome
  <2>6. CASE ~IsWhole
    <3>1. content[place].text # "whole"
      BY <2>6 DEF IsWhole
    <3>2. CASE kind = "codexToml" /\ seen = [ok |-> TRUE, keys |-> {}]
      <4>1. Found(w, {}) /\ hollow' = TRUE
        BY <2>1, <3>1, <3>2 DEF Shape
      <4>2. Outcome(w, {})
        BY <1>2, <2>4, <4>1, FoundOutcome
      <4> QED
        BY <1>2, <1>7, <2>4, <2>6, <3>2, <4>1, <4>2
    <3>3. CASE seen = Unparsed
      <4>1. \/ op[w].how = "lax" /\ FoundNothing(w) /\ hollow' = TRUE
            \/ Return(w) /\ hollow' = hollow
        BY <2>1, <3>3 DEF Unparsed
      <4>2. CASE op[w].how = "lax" /\ FoundNothing(w) /\ hollow' = TRUE
        <5>1. kind \in {"settings", "cliSettings", "codexToml"}
          BY <1>1, <4>2 DEF Fits
        <5>2. Outcome(w, {})
          BY <1>2, <2>4, <4>2, FoundOutcome
        <5> QED
          BY <1>2, <1>7, <2>4, <2>6, <4>2, <5>1, <5>2
      <4>3. CASE Return(w) /\ hollow' = hollow
        BY <1>2, <1>3, <1>7, <2>4, <4>3
      <4> QED
        BY <4>1, <4>2, <4>3
    <3> QED
      BY <2>3, <2>6, <3>2, <3>3
  <2> QED
    BY <2>5, <2>6
<1>6. CASE ReadError(w)
  <2>1. /\ op[w].step = "read" /\ UNCHANGED <<kind, place, tmp, content, owed, raced, together>>
        /\ faults' = faults + 1 /\ faults' > 0 /\ faults' \in Nat
    BY <1>2, <1>6 DEF ReadError
  <2>2. \/ op[w].how \in {"lax", "careless"} /\ FoundNothing(w) /\ hollow' = TRUE
        \/ Return(w) /\ hollow' = hollow
    BY <1>6 DEF ReadError
  <2>3. CASE op[w].how \in {"lax", "careless"} /\ FoundNothing(w) /\ hollow' = TRUE
    <3>1. kind \in {"settings", "cliSettings", "codexToml"}
      BY <1>1, <2>3 DEF Fits
    <3>2. Outcome(w, {})
      BY <1>2, <2>1, <2>3, FoundOutcome
    <3> QED
      BY <1>2, <1>7, <2>1, <2>3, <3>1, <3>2
  <2>4. CASE Return(w) /\ hollow' = hollow
    BY <1>2, <1>3, <1>7, <2>1, <2>4
  <2> QED
    BY <2>2, <2>3, <2>4
<1> QED
  BY <1>4, <1>5, <1>6

\* The keys whose change a write puts in force.
Changed(w) == IF op[w].defaults THEN {} ELSE {op[w].key}

\* What InForce makes of the commands: w ends or goes on, the others learn
\* nothing, but what has changed behind their backs is known.
LEMMA InForceOps ==
  ASSUME Shape, NEW w \in Busy, op[w].step \in {"fill", "rename"}, InForce(w)
  PROVE  /\ owed' = IF op[w].do = "set" THEN owed \cup Changed(w) ELSE owed \ Changed(w)
         /\ raced' = (raced \cup op[w].stale) \ Changed(w)
         /\ owed' \subseteq Keys /\ raced' \subseteq Keys
         /\ op' \in [Writers -> Commands \cup {Idle}]
         /\ \A v \in Writers : op'[v] # Idle => v \in Busy /\ Fits(op'[v])
         /\ op'[w] = Idle \/
              /\ op[w].defaults
              /\ op'[w] = [op[w] EXCEPT !.step = "open", !.defaults = FALSE, !.inode = NoFile]
         /\ \A v \in Busy \ {w} :
              op'[v] = IF op[v].step = "read" THEN op[v]
                       ELSE [op[v] EXCEPT !.stale = @ \cup Changed(w)]
<1>1. op[w] \in Commands /\ Fits(op[w]) /\ Changed(w) \subseteq Keys
  BY DEF Shape, Busy, Commands, Idle, Changed
<1>2. /\ owed' = IF op[w].do = "set" THEN owed \cup Changed(w) ELSE owed \ Changed(w)
      /\ raced' = (raced \cup op[w].stale) \ Changed(w)
  BY DEF InForce, Changed
<1>3. owed' \subseteq Keys /\ raced' \subseteq Keys
  BY <1>1, <1>2 DEF Shape, Commands
<1>4. ASSUME NEW v \in Writers
      PROVE  op'[v] = CASE v = w -> Written(w)
                        [] v # w /\ op[v] # Idle /\ op[v].step # "read" ->
                             [op[v] EXCEPT !.stale = @ \cup Changed(w)]
                        [] OTHER -> op[v]
  BY DEF InForce, Changed, Shape
<1>5. \/ op'[w] = Idle
      \/ /\ op[w].defaults /\ op[w].do # "nothing"
         /\ op'[w] = [op[w] EXCEPT !.step = "open", !.defaults = FALSE, !.inode = NoFile]
  BY <1>1, <1>4 DEF Written, Busy
<1>6. \A v \in Busy \ {w} :
         op'[v] = IF op[v].step = "read" THEN op[v]
                  ELSE [op[v] EXCEPT !.stale = @ \cup Changed(w)]
  BY <1>4 DEF Busy
<1>7. \A v \in Writers \ Busy : op'[v] = Idle
  BY <1>4 DEF Busy
<1>8. op'[w] \in Commands \cup {Idle} /\ (op'[w] # Idle => Fits(op'[w]))
  BY <1>1, <1>5 DEF Commands, Fits, Idle
<1>9. ASSUME NEW v \in Busy \ {w} PROVE op'[v] \in Commands /\ Fits(op'[v])
  <2>1. op[v] \in Commands /\ Fits(op[v])
    BY DEF Shape, Busy
  <2>2. CASE op[v].step = "read"
    BY <1>6, <2>1, <2>2
  <2>3. CASE op[v].step # "read"
    <3> DEFINE o == [op[v] EXCEPT !.stale = @ \cup Changed(w)]
    <3>1. op'[v] = o
      BY <1>6, <2>3
    <3>2. /\ o \in Commands
          /\ o.step = op[v].step /\ o.do = op[v].do /\ o.how = op[v].how /\ o.base = op[v].base
          /\ o.inode = op[v].inode /\ o.defaults = op[v].defaults
      BY <1>1, <2>1 DEF Commands
    <3> HIDE DEF o
    <3>3. Fits(o)
      BY <2>1, <2>3, <3>2 DEF Fits
    <3> QED
      BY <3>1, <3>2, <3>3
  <2> QED
    BY <2>2, <2>3
<1>10. DOMAIN op' = Writers /\ op' = [v \in Writers |-> op'[v]]
  BY DEF InForce
<1>11. op' \in [Writers -> Commands \cup {Idle}]
  BY <1>7, <1>8, <1>9, <1>10 DEF Busy
<1> QED
  BY <1>2, <1>3, <1>5, <1>6, <1>7, <1>8, <1>9, <1>11 DEF Busy

\* The same, seen from what each command is about.
LEMMA InForceViews ==
  ASSUME Shape, NEW w \in Busy, op[w].step \in {"fill", "rename"}, InForce(w)
  PROVE  /\ Busy' \subseteq Busy
         /\ w \in Busy' =>
              /\ op[w].defaults /\ op'[w].step = "open" /\ op'[w].inode = NoFile
              /\ op'[w].base = op[w].base /\ op'[w].stale = op[w].stale
         /\ \A v \in Busy \ {w} :
              /\ v \in Busy'
              /\ op'[v].step = op[v].step /\ op'[v].inode = op[v].inode
              /\ op'[v].base = op[v].base /\ Text(op'[v]) = Text(op[v])
              /\ op'[v].stale = op[v].stale \cup (IF op[v].step = "read" THEN {} ELSE Changed(w))
<1>1. \A v \in Busy : op[v] \in Commands
  BY DEF Shape, Busy
<1>2. /\ \A v \in Writers : op'[v] # Idle => v \in Busy
      /\ op'[w] = Idle \/
           /\ op[w].defaults
           /\ op'[w] = [op[w] EXCEPT !.step = "open", !.defaults = FALSE, !.inode = NoFile]
      /\ \A v \in Busy \ {w} :
           op'[v] = IF op[v].step = "read" THEN op[v]
                    ELSE [op[v] EXCEPT !.stale = @ \cup Changed(w)]
  BY InForceOps
<1>3. Busy' \subseteq Busy
  BY <1>2 DEF Busy
<1>4. ASSUME w \in Busy'
      PROVE  /\ op[w].defaults /\ op'[w].step = "open" /\ op'[w].inode = NoFile
             /\ op'[w].base = op[w].base /\ op'[w].stale = op[w].stale
  BY <1>1, <1>2, <1>4 DEF Busy, Commands
<1>5. ASSUME NEW v \in Busy \ {w}
      PROVE  /\ v \in Busy'
             /\ op'[v].step = op[v].step /\ op'[v].inode = op[v].inode
             /\ op'[v].base = op[v].base /\ Text(op'[v]) = Text(op[v])
             /\ op'[v].stale = op[v].stale \cup (IF op[v].step = "read" THEN {} ELSE Changed(w))
  <2>1. op[v] \in Commands /\ v \in Writers
    BY <1>1 DEF Busy
  <2>2. CASE op[v].step = "read"
    BY <1>2, <2>2 DEF Busy
  <2>3. CASE op[v].step # "read"
    <3> DEFINE o == [op[v] EXCEPT !.stale = @ \cup Changed(w)]
    <3>1. op'[v] = o
      BY <1>2, <2>3
    <3>2. /\ o.step = op[v].step /\ o.do = op[v].do /\ o.key = op[v].key /\ o.base = op[v].base
          /\ o.inode = op[v].inode /\ o.defaults = op[v].defaults
          /\ o.stale = op[v].stale \cup Changed(w)
      BY <2>1 DEF Commands
    <3>3. o # Idle
      BY <2>1, <3>2 DEF Commands, Idle
    <3> HIDE DEF o
    <3> QED
      BY <2>1, <2>3, <3>1, <3>2, <3>3 DEF Busy, Text
  <2> QED
    BY <2>2, <2>3
<1> QED
  BY <1>3, <1>4, <1>5

\* What a reading command becomes.
LEMMA ReadOps ==
  ASSUME Shape, NEW w \in Writers, Reads(w)
  PROVE  /\ op' \in [Writers -> Commands \cup {Idle}]
         /\ \A v \in Writers \ {w} : op'[v] = op[v]
         /\ w \in Busy /\ Busy' \subseteq Busy
         /\ op'[w] # Idle =>
              Fits(op'[w]) /\ op'[w].step = "open" /\ op'[w].inode = NoFile /\ op'[w].stale = {}
         /\ hollow' = FALSE =>
               hollow = FALSE /\ (op'[w] # Idle => IsWhole /\ op'[w].base = FileKeys)
         /\ hollow' \in BOOLEAN
<1>1. op[w] \in Commands /\ Fits(op[w]) /\ w \in Busy /\ op \in [Writers -> Commands \cup {Idle}]
      /\ op[w].step = "read"
  BY DEF Shape, Reads, Busy, Commands, Idle
<1>2. PICK keys \in SUBSET Keys :
        /\ Outcome(w, keys)
        /\ \/ hollow' = hollow /\ (op'[w] = Idle \/ (IsWhole /\ keys = FileKeys))
           \/ /\ hollow' = TRUE
              /\ kind \in {"settings", "cliSettings", "codexToml"}
              /\ faults' > 0 \/ ~IsWhole
  BY DEF Reads
<1>3. ASSUME NEW first \in BOOLEAN, first => keys = {} /\ kind = "settings",
             op[w].do = "nothing" => first
      PROVE  LET o == Opened(w, keys, first)
             IN /\ o \in Commands /\ Fits(o) /\ o.step = "open" /\ o.inode = NoFile
                /\ o.stale = {} /\ o.base = keys
  <2> DEFINE o == Opened(w, keys, first)
  <2>1. /\ o \in Commands /\ o.step = "open" /\ o.inode = op[w].inode /\ o.stale = op[w].stale
        /\ o.base = keys /\ o.how = op[w].how /\ o.do = op[w].do /\ o.defaults = first
    BY <1>1, <1>3 DEF Opened, Commands
  <2> HIDE DEF o
  <2>2. o.inode = NoFile /\ o.stale = {}
    BY <1>1, <2>1 DEF Fits
  <2>3. Fits(o)
    BY <1>1, <1>3, <2>1, <2>2 DEF Fits
  <2> QED
    BY <2>1, <2>2, <2>3 DEF o
<1>4. \/ op' = [op EXCEPT ![w] = Idle]
      \/ op[w].do # "nothing" /\ op' = [op EXCEPT ![w] = Opened(w, keys, FALSE)]
      \/ keys = {} /\ kind = "settings" /\ op' = [op EXCEPT ![w] = Opened(w, keys, TRUE)]
  BY <1>2 DEF Outcome
<1>5. ASSUME NEW o \in Commands \cup {Idle}, op' = [op EXCEPT ![w] = o]
      PROVE  /\ op' \in [Writers -> Commands \cup {Idle}] /\ op'[w] = o
             /\ \A v \in Writers \ {w} : op'[v] = op[v]
             /\ Busy' \subseteq Busy
  BY <1>1, <1>5 DEF Busy
<1>6. CASE op' = [op EXCEPT ![w] = Idle]
  BY <1>1, <1>2, <1>5, <1>6 DEF Shape
<1>7. CASE op[w].do # "nothing" /\ op' = [op EXCEPT ![w] = Opened(w, keys, FALSE)]
  <2> DEFINE o == Opened(w, keys, FALSE)
  <2>1. /\ o \in Commands /\ Fits(o) /\ o.step = "open" /\ o.inode = NoFile
        /\ o.stale = {} /\ o.base = keys
    BY <1>3, <1>7
  <2> HIDE DEF o
  <2> QED
    BY <1>1, <1>2, <1>5, <1>7, <2>1 DEF Shape, o, Idle, Commands
<1>8. CASE keys = {} /\ kind = "settings" /\ op' = [op EXCEPT ![w] = Opened(w, keys, TRUE)]
  <2> DEFINE o == Opened(w, keys, TRUE)
  <2>1. /\ o \in Commands /\ Fits(o) /\ o.step = "open" /\ o.inode = NoFile
        /\ o.stale = {} /\ o.base = keys
    BY <1>3, <1>8
  <2> HIDE DEF o
  <2> QED
    BY <1>1, <1>2, <1>5, <1>8, <2>1 DEF Shape, o, Idle, Commands
<1> QED
  BY <1>4, <1>6, <1>7, <1>8

LEMMA FitsStays == ASSUME kind' = kind PROVE \A o : Fits(o) => Fits(o)'
BY DEF Fits, Target

\* A text that is written is a text.
LEMMA TextIsKeys == ASSUME Shape, NEW w \in Busy PROVE Text(op[w]) \in SUBSET Keys
<1>1. op[w] \in Commands
  BY DEF Shape, Busy
<1> QED
  BY <1>1 DEF Text, Commands

\* A command that fills its file: what becomes of the inode and of the command.
LEMMA FillViews ==
  ASSUME Shape, NEW w \in Writers, Fill(w)
  PROVE  /\ w \in Busy /\ op[w].inode \in Inodes /\ op[w].inode # NoFile
         /\ \E text \in {Whole(Text(op[w])), Torn} :
              /\ text = Torn => content[op[w].inode] # Empty
              /\ content' = [content EXCEPT ![op[w].inode] = text]
              /\ content' \in [Inodes -> Texts]
         /\ Target = "place" => InForce(w)
         /\ Target # "place" =>
              /\ op' = [op EXCEPT ![w].step = "rename"]
              /\ Busy' = Busy /\ op' \in [Writers -> Commands \cup {Idle}]
              /\ \A v \in Writers \ {w} : op'[v] = op[v]
              /\ op'[w].step = "rename" /\ op'[w].inode = op[w].inode /\ Fits(op'[w])
              /\ Text(op'[w]) = Text(op[w]) /\ op'[w].base = op[w].base
              /\ op'[w].stale = op[w].stale
              /\ owed' = owed /\ raced' = raced
         /\ UNCHANGED <<kind, place, tmp, hollow, together, faults>>
<1>1. w \in Busy /\ op[w] \in Commands /\ Fits(op[w]) /\ op[w].step = "fill"
  BY DEF Fill, Shape, Busy, Idle
<1>2. op[w].inode \in Inodes /\ op[w].inode # NoFile
  BY <1>1 DEF Fits, Inodes, NoFile
<1>3. PICK text \in {Whole(Text(op[w]))} \cup
                      (IF content[op[w].inode] = Empty THEN {} ELSE {Torn}) :
        content' = [content EXCEPT ![op[w].inode] = text]
  BY DEF Fill
<1>4. text \in Texts
  BY <1>1, <1>3, TextIsKeys DEF Whole, Torn, Texts
<1>5. content' \in [Inodes -> Texts]
  BY <1>2, <1>3, <1>4 DEF Shape
<1>6. Target = "place" => InForce(w)
  BY DEF Fill
<1>7. ASSUME Target # "place"
      PROVE  /\ op' = [op EXCEPT ![w].step = "rename"]
             /\ Busy' = Busy /\ op' \in [Writers -> Commands \cup {Idle}]
             /\ \A v \in Writers \ {w} : op'[v] = op[v]
             /\ op'[w].step = "rename" /\ op'[w].inode = op[w].inode /\ Fits(op'[w])
             /\ Text(op'[w]) = Text(op[w]) /\ op'[w].base = op[w].base
             /\ op'[w].stale = op[w].stale
             /\ owed' = owed /\ raced' = raced
  <2> DEFINE o == [op[w] EXCEPT !.step = "rename"]
  <2>1. op' = [op EXCEPT ![w].step = "rename"] /\ owed' = owed /\ raced' = raced
    BY <1>7 DEF Fill
  <2>2. op' = [op EXCEPT ![w] = o]
    BY <2>1
  <2>3. /\ o \in Commands /\ o.step = "rename" /\ o.do = op[w].do /\ o.key = op[w].key
        /\ o.how = op[w].how /\ o.base = op[w].base /\ o.stale = op[w].stale
        /\ o.inode = op[w].inode /\ o.defaults = op[w].defaults
    BY <1>1 DEF Commands
  <2>4. o # Idle
    BY <2>3 DEF Idle
  <2> HIDE DEF o
  <2>5. Fits(o) /\ Text(o) = Text(op[w])
    BY <1>1, <1>2, <1>7, <2>3 DEF Fits, Text
  <2>6. /\ op' \in [Writers -> Commands \cup {Idle}] /\ op'[w] = o
        /\ \A v \in Writers \ {w} : op'[v] = op[v]
    BY <2>2, <2>3 DEF Shape
  <2>7. Busy' = Busy
    BY <1>1, <2>4, <2>6 DEF Busy
  <2> QED
    BY <2>1, <2>3, <2>5, <2>6, <2>7
<1>8. UNCHANGED <<kind, place, tmp, hollow, together, faults>>
  BY DEF Fill, counters
<1>9. /\ text \in {Whole(Text(op[w])), Torn}
      /\ text = Torn => content[op[w].inode] # Empty
  BY <1>3 DEF Torn, Whole
<1> QED
  BY <1>1, <1>2, <1>3, <1>5, <1>6, <1>7, <1>8, <1>9

\* A command that renames its file: either its text is in force, or another
\* has taken the temporary file away.
LEMMA RenameViews ==
  ASSUME Shape, NEW w \in Writers, Rename(w)
  PROVE  /\ w \in Busy /\ op[w].inode \in Inodes /\ op[w].inode # NoFile
         /\ Target \in {"own", "tmp"} /\ content' = content
         /\ UNCHANGED <<kind, hollow, together, faults>>
         /\ \/ Target = "own" /\ place' = op[w].inode /\ tmp' = tmp /\ InForce(w)
            \/ Target = "tmp" /\ tmp # NoFile /\ place' = tmp /\ tmp' = NoFile /\ InForce(w)
            \/ /\ Target = "tmp" /\ tmp = NoFile
               /\ op' = [op EXCEPT ![w] = Idle]
               /\ UNCHANGED <<place, tmp, owed, raced>>
<1>1. w \in Busy /\ op[w] \in Commands /\ Fits(op[w]) /\ op[w].step = "rename"
  BY DEF Rename, Shape, Busy, Idle
<1>2. op[w].inode \in Inodes /\ op[w].inode # NoFile /\ Target # "place"
  BY <1>1 DEF Fits, Inodes, NoFile
<1>3. Target \in {"own", "tmp"}
  BY <1>2 DEF Target
<1>4. content' = content /\ UNCHANGED <<kind, hollow, together, faults>>
  BY DEF Rename, counters
<1>5. \/ Target = "own" /\ place' = op[w].inode /\ tmp' = tmp /\ InForce(w)
      \/ Target = "tmp" /\ tmp # NoFile /\ place' = tmp /\ tmp' = NoFile /\ InForce(w)
      \/ /\ Target = "tmp" /\ tmp = NoFile
         /\ op' = [op EXCEPT ![w] = Idle]
         /\ UNCHANGED <<place, tmp, owed, raced>>
  BY <1>3 DEF Rename, Return
<1> QED
  BY <1>1, <1>2, <1>3, <1>4, <1>5

-----------------------------------------------------------------------------
(* The conjuncts of ConfigInv, one by one.                                  *)

LEMMA ShapeKept == WritersFinite /\ ConfigInv /\ [Next]_vars => Shape'
<1> SUFFICES ASSUME WritersFinite, Shape, [Next]_vars PROVE Shape'
  BY DEF ConfigInv
<1>1. ASSUME NEW w \in Writers, SomeCall(w) PROVE Shape'
  BY <1>1 DEF SomeCall, Call, Allowed, Shape, Busy, Idle, Fits, Commands, Kinds, Target
<1>2. ASSUME NEW w \in Writers, Reads(w) PROVE Shape'
  <2>1. UNCHANGED <<kind, place, tmp, content, owed, raced, together>> /\ faults' \in Nat
    BY <1>2 DEF Reads
  <2>2. /\ op' \in [Writers -> Commands \cup {Idle}] /\ hollow' \in BOOLEAN
        /\ \A v \in Writers \ {w} : op'[v] = op[v]
        /\ Busy' \subseteq Busy /\ (op'[w] # Idle => Fits(op'[w]))
    BY <1>2, ReadOps
  <2>3. \A v \in Busy' : Fits(op'[v])
    BY <2>2 DEF Shape, Busy
  <2>4. \A v \in Busy' : Fits(op[v])'
    BY <2>1, <2>3, FitsStays DEF Busy
  <2> QED
    BY <2>1, <2>2, <2>4 DEF Shape
<1>3. ASSUME NEW w \in Writers, Open(w) PROVE Shape'
  BY <1>3, FreshIsUnused
     DEF Open, Shape, Busy, Idle, Fits, Commands, Kinds, Target, Texts, Empty, counters
<1>4. ASSUME NEW w \in Writers, Fill(w) PROVE Shape'
  <2>1. /\ w \in Busy /\ content' \in [Inodes -> Texts]
        /\ UNCHANGED <<kind, place, tmp, hollow, together, faults>>
        /\ op[w].step \in {"fill", "rename"}
    BY <1>4, FillViews DEF Fill
  <2>2. /\ op' \in [Writers -> Commands \cup {Idle}]
        /\ owed' \subseteq Keys /\ raced' \subseteq Keys
        /\ \A v \in Busy' : Fits(op'[v])
    <3>1. CASE Target = "place"
      BY <1>4, <2>1, <3>1, FillViews, InForceOps DEF Busy
    <3>2. CASE Target # "place"
      BY <1>4, <3>2, FillViews DEF Shape, Busy
    <3> QED
      BY <3>1, <3>2
  <2>3. \A v \in Busy' : Fits(op[v])'
    BY <2>1, <2>2, FitsStays DEF Busy
  <2> QED
    BY <2>1, <2>2, <2>3 DEF Shape
<1>5. ASSUME NEW w \in Writers, Rename(w) PROVE Shape'
  <2>1. /\ w \in Busy /\ op[w].inode \in Inodes /\ op[w].step \in {"fill", "rename"}
        /\ content' = content /\ UNCHANGED <<kind, hollow, together, faults>>
        /\ place' \in Inodes \cup {NoFile} /\ tmp' \in Inodes \cup {NoFile}
    BY <1>5, RenameViews DEF Rename, Shape
  <2>2. /\ op' \in [Writers -> Commands \cup {Idle}]
        /\ owed' \subseteq Keys /\ raced' \subseteq Keys
        /\ \A v \in Busy' : Fits(op'[v])
    <3>1. CASE InForce(w)
      BY <2>1, <3>1, InForceOps DEF Busy
    <3>2. CASE op' = [op EXCEPT ![w] = Idle] /\ UNCHANGED <<place, tmp, owed, raced>>
      BY <3>2 DEF Shape, Busy
    <3> QED
      BY <1>5, <3>1, <3>2, RenameViews
  <2>3. \A v \in Busy' : Fits(op[v])'
    BY <2>1, <2>2, FitsStays DEF Busy
  <2> QED
    BY <2>1, <2>2, <2>3 DEF Shape
<1>6. ASSUME NEW w \in Writers, WriteFails(w) PROVE Shape'
  BY <1>6 DEF WriteFails, Return, Shape, Busy, Idle, Fits, Commands, Target, Texts, Torn
<1>7. CASE Crash
  BY <1>7 DEF Crash, Shape, Busy, Idle
<1>8. CASE UNCHANGED vars
  BY <1>8 DEF vars, Shape, Busy, Fits, Target, counters
<1> QED
  BY <1>1, <1>2, <1>3, <1>4, <1>5, <1>6, <1>7, <1>8, CommandsAreCalls, ReadingReads DEF Next

\* Only Call makes a command busy, and it sees whether there are others.
LEMMA AloneKept == WritersFinite /\ ConfigInv /\ [Next]_vars => Alone'
<1> SUFFICES ASSUME WritersFinite, Shape, Alone, [Next]_vars PROVE Alone'
  BY DEF ConfigInv
<1>1. ASSUME NEW w \in Writers, SomeCall(w) PROVE Alone'
  <2>1. together' = (together \/ Busy # {}) /\ Busy' \subseteq Busy \cup {w}
    BY <1>1 DEF SomeCall, Call, Busy, Shape
  <2>2. together \in BOOLEAN
    BY DEF Shape
  <2> QED
    BY <2>1, <2>2 DEF Alone
<1>2. ASSUME Busy' \subseteq Busy, together' = together PROVE Alone'
  BY <1>2 DEF Alone
<1>3. ASSUME NEW w \in Writers, Reads(w) PROVE Alone'
  BY <1>2, <1>3, ReadOps DEF Reads
<1>4. ASSUME NEW w \in Writers, Open(w) PROVE Alone'
  BY <1>2, <1>4 DEF Open, Busy, Shape, Idle
<1>5. ASSUME NEW w \in Writers, Fill(w) PROVE Alone'
  BY <1>2, <1>5, FillViews, InForceViews DEF Fill
<1>6. ASSUME NEW w \in Writers, Rename(w) PROVE Alone'
  <2>1. CASE InForce(w)
    BY <1>2, <1>6, <2>1, RenameViews, InForceViews DEF Rename
  <2>2. CASE op' = [op EXCEPT ![w] = Idle]
    BY <1>2, <1>6, <2>2, RenameViews DEF Busy, Shape
  <2> QED
    BY <1>6, <2>1, <2>2, RenameViews
<1>7. ASSUME NEW w \in Writers, WriteFails(w) PROVE Alone'
  BY <1>2, <1>7 DEF WriteFails, Return, Busy, Shape
<1>8. CASE Crash
  BY <1>2, <1>8 DEF Crash, Busy
<1>9. CASE UNCHANGED vars
  BY <1>9 DEF vars, Alone, Busy
<1> QED
  BY <1>1, <1>3, <1>4, <1>5, <1>6, <1>7, <1>8, <1>9, CommandsAreCalls, ReadingReads DEF Next

LEMMA OwnersKept == WritersFinite /\ ConfigInv /\ [Next]_vars => Owners'
<1> SUFFICES ASSUME WritersFinite, Shape, Alone, Owners, [Next]_vars PROVE Owners'
  BY DEF ConfigInv
<1>1. ASSUME NEW w \in Writers, SomeCall(w) PROVE Owners'
  <2>1. /\ Busy' \subseteq Busy \cup {w} /\ \A v \in Writers \ {w} : op'[v] = op[v]
        /\ op'[w].inode = NoFile
        /\ UNCHANGED <<kind, place, tmp, content>> /\ Target' = Target
        /\ ~together' => ~together
    BY <1>1 DEF SomeCall, Call, Shape, Busy, Target
  <2>2. \A v \in Busy' : op'[v].inode # NoFile => v \in Busy /\ op'[v] = op[v]
    BY <2>1 DEF Busy
  <2>3. \A v \in Busy' : op'[v].inode # NoFile => Text(op'[v]) = Text(op[v])
    BY <2>2
  <2> QED
    BY <2>1, <2>2, <2>3 DEF Owners
<1>2. ASSUME NEW w \in Writers, Reads(w) PROVE Owners'
  <2>1. /\ Busy' \subseteq Busy /\ \A v \in Writers \ {w} : op'[v] = op[v]
        /\ op'[w] # Idle => op'[w].inode = NoFile
    BY <1>2, ReadOps
  <2> QED
    BY <1>2, <2>1 DEF Reads, Owners, Busy, Target
<1>3. ASSUME NEW w \in Writers, Open(w) PROVE Owners'
  BY <1>3, FreshIsUnused
     DEF Open, Shape, Alone, Owners, Busy, Idle, Fits, Commands, Kinds, Target, Texts, Empty,
         Text, counters
<1>4. ASSUME NEW w \in Writers, Fill(w) PROVE Owners'
  <2> DEFINE i == op[w].inode
  <2>1. PICK text \in {Whole(Text(op[w])), Torn} :
          /\ text = Torn => content[i] # Empty
          /\ content' = [content EXCEPT ![i] = text]
    BY <1>4, FillViews
  <2>2. /\ w \in Busy /\ i \in Inodes /\ i # NoFile /\ op[w].step = "fill"
        /\ UNCHANGED <<kind, place, tmp, together>> /\ Target' = Target
    BY <1>4, FillViews DEF Fill, Target
  <2>3. content'[i] = text /\ \A j \in Inodes \ {i} : content'[j] = content[j]
    BY <2>1, <2>2 DEF Shape
  <2>4. \A v \in Busy : op[v].inode # NoFile => op[v].inode \in Inodes
    BY DEF Shape, Busy, Commands
  <2> HIDE DEF i
  <2>5. CASE Target = "place"
    <3>1. \A v \in Busy' : v \in Busy /\ (op'[v].inode # NoFile => op'[v].inode = op[v].inode)
      BY <1>4, <2>2, <2>5, FillViews, InForceViews
    <3> QED
      BY <2>2, <2>5, <3>1 DEF Owners
  <2>6. CASE Target # "place"
    <3>1. /\ Busy' = Busy /\ \A v \in Writers \ {w} : op'[v] = op[v]
          /\ op'[w].step = "rename" /\ op'[w].inode = i /\ Text(op'[w]) = Text(op[w])
      BY <1>4, <2>6, FillViews DEF i
    <3>2. tmp' # NoFile => Target' = "tmp" /\ tmp' # place'
      BY <2>2 DEF Owners
    <3>3. CASE Target = "own"
      <4>1. content[i] = Empty /\ i # place /\ \A v \in Busy \ {w} : op[v].inode # i
        BY <2>2, <3>3 DEF Owners, i
      <4>2. content'[i] = Whole(Text(op[w]))
        BY <2>1, <2>3, <4>1
      <4> QED
        BY <2>2, <2>3, <2>4, <3>1, <3>2, <3>3, <4>1, <4>2 DEF Owners, Busy, i
    <3>4. CASE Target = "tmp"
      <4>1. ASSUME ~together, NEW v \in Busy'
            PROVE  op'[v].inode = tmp' /\ op'[v].step = "rename"
                   /\ content'[tmp'] = Whole(Text(op'[v]))
        <5>1. v = w
          BY <2>2, <3>1, <4>1 DEF Alone
        <5>2. i = tmp /\ content[i] = Empty
          BY <2>2, <3>4, <4>1 DEF Owners, i
        <5> QED
          BY <2>1, <2>2, <2>3, <3>1, <5>1, <5>2
      <4> QED
        BY <2>2, <3>2, <3>4, <4>1 DEF Owners
    <3> QED
      BY <2>6, <3>3, <3>4 DEF Target
  <2> QED
    BY <2>5, <2>6
<1>5. ASSUME NEW w \in Writers, Rename(w) PROVE Owners'
  <2>1. /\ w \in Busy /\ op[w].inode \in Inodes /\ op[w].inode # NoFile /\ op[w].step = "rename"
        /\ content' = content /\ UNCHANGED <<kind, together>> /\ Target' = Target
    BY <1>5, RenameViews DEF Rename, Target
  <2>2. CASE Target = "own" /\ place' = op[w].inode /\ tmp' = tmp /\ InForce(w)
    <3>1. /\ Busy' \subseteq Busy /\ (w \in Busy' => op'[w].inode = NoFile)
          /\ \A v \in Busy \ {w} :
               /\ op'[v].step = op[v].step /\ op'[v].inode = op[v].inode
               /\ Text(op'[v]) = Text(op[v])
      BY <2>1, <2>2, InForceViews
    <3> QED
      BY <2>1, <2>2, <3>1 DEF Owners
  <2>3. CASE Target = "tmp" /\ tmp # NoFile /\ place' = tmp /\ tmp' = NoFile /\ InForce(w)
    <3>1. Busy' \subseteq Busy /\ (w \in Busy' => op'[w].inode = NoFile)
      BY <2>1, <2>3, InForceViews
    <3>2. ~together => \A v \in Busy' : op'[v].inode = NoFile
      BY <2>1, <3>1 DEF Alone
    <3> QED
      BY <2>1, <2>3, <3>2 DEF Owners
  <2>4. CASE /\ Target = "tmp" /\ tmp = NoFile
             /\ op' = [op EXCEPT ![w] = Idle]
             /\ UNCHANGED <<place, tmp, owed, raced>>
    <3>1. ~together => Busy' = {}
      BY <2>1, <2>4 DEF Alone, Busy, Shape
    <3> QED
      BY <2>1, <2>4, <3>1 DEF Owners
  <2> QED
    BY <1>5, <2>2, <2>3, <2>4, RenameViews
<1>6. ASSUME NEW w \in Writers, WriteFails(w) PROVE Owners'
  <2> DEFINE i == op[w].inode
  <2>1. /\ w \in Busy /\ i \in Inodes /\ i # NoFile
        /\ content' = [content EXCEPT ![i] = Torn]
        /\ UNCHANGED <<kind, place, tmp, together>> /\ Target' = Target
        /\ Busy' = Busy \ {w} /\ \A v \in Busy' : op'[v] = op[v]
    BY <1>6 DEF WriteFails, Return, Shape, Busy, Idle, Fits, Target, Inodes, NoFile
  <2>2. \A j \in Inodes \ {i} : content'[j] = content[j]
    BY <2>1 DEF Shape
  <2>3. /\ \A v \in Busy' : Text(op'[v]) = Text(op[v])
        /\ \A v \in Busy : op[v].inode # NoFile => op[v].inode \in Inodes
    BY <2>1 DEF Shape, Busy, Commands
  <2>4. ~together => Busy' = {}
    BY <2>1 DEF Alone
  <2> HIDE DEF i
  <2>5. Target = "own" => \A v \in Busy' : op[v].inode # i
    BY <2>1 DEF Owners, i
  <2> QED
    BY <2>1, <2>2, <2>3, <2>4, <2>5 DEF Owners
<1>7. CASE Crash
  BY <1>7 DEF Crash, Owners, Busy, Target
<1>8. CASE UNCHANGED vars
  BY <1>8 DEF vars, Owners, Busy, Target, Text
<1> QED
  BY <1>1, <1>2, <1>3, <1>4, <1>5, <1>6, <1>7, <1>8, CommandsAreCalls, ReadingReads DEF Next

LEMMA FilledKept == WritersFinite /\ ConfigInv /\ [Next]_vars => Filled'
<1> SUFFICES ASSUME WritersFinite, Shape, Alone, Owners, Filled, [Next]_vars PROVE Filled'
  BY DEF ConfigInv
<1>1. ASSUME NEW w \in Writers, SomeCall(w) PROVE Filled'
  BY <1>1 DEF SomeCall, Call, Shape, Filled, IsWhole, Busy, Idle, Target
<1>2. ASSUME NEW w \in Writers, Reads(w) PROVE Filled'
  <2>1. UNCHANGED <<kind, place, content, together>> /\ Target' = Target /\ IsWhole' = IsWhole
        /\ op[w].step = "read" /\ (faults' = 0 => faults = 0)
    BY <1>2 DEF Reads, Target, IsWhole, Shape
  <2>2. /\ w \in Busy /\ Busy' \subseteq Busy /\ (op'[w] # Idle => op'[w].step = "open")
        /\ \A v \in Writers \ {w} : op'[v] = op[v]
    BY <1>2, ReadOps
  <2>3. ASSUME NEW v \in Busy' PROVE op'[v].step = "fill" => v # w /\ op[v].step = "fill"
    BY <2>2 DEF Busy
  <2>4. ASSUME NEW v \in Busy, op[v].step = "fill" PROVE v \in Busy' /\ op'[v].step = "fill"
    BY <2>1, <2>2, <2>4 DEF Busy
  <2> QED
    BY <2>1, <2>2, <2>3, <2>4 DEF Filled
<1>3. ASSUME NEW w \in Writers, Open(w) PROVE Filled'
  BY <1>3, FreshIsUnused
     DEF Open, Shape, Alone, Owners, Filled, IsWhole, Busy, Idle, Fits, Commands, Kinds, Target,
         Texts, Empty, counters
<1>4. ASSUME NEW w \in Writers, Fill(w) PROVE Filled'
  <2> DEFINE i == op[w].inode
  <2>1. PICK text \in {Whole(Text(op[w])), Torn} :
          /\ text = Torn => content[i] # Empty
          /\ content' = [content EXCEPT ![i] = text]
    BY <1>4, FillViews
  <2>2. /\ w \in Busy /\ i \in Inodes /\ i # NoFile /\ op[w].step = "fill"
        /\ UNCHANGED <<kind, place, tmp, together, faults>> /\ Target' = Target
    BY <1>4, FillViews DEF Fill, Target
  <2>3. content'[i] = text /\ \A j \in Inodes \ {i} : content'[j] = content[j]
    BY <2>1, <2>2 DEF Shape
  <2>4. place # NoFile => place \in Inodes
    BY DEF Shape
  <2>5. i # place => IsWhole' = IsWhole
    BY <2>2, <2>3, <2>4 DEF IsWhole
  <2>6. CASE Target = "own"
    BY <2>2, <2>5, <2>6 DEF Filled, Owners
  <2>7. CASE Target = "tmp"
    <3>1. ~together => i # place
      BY <2>2, <2>7 DEF Owners
    <3> QED
      BY <2>2, <2>5, <2>7, <3>1 DEF Filled
  <2>8. ASSUME Target = "place", ~together, faults = 0
        PROVE  IsWhole' /\ \A v \in Busy' : op'[v].step # "fill"
    <3>1. i = place
      BY <2>2, <2>8 DEF Owners
    <3>2. content[place] = Empty
      BY <2>2, <2>8 DEF Filled
    <3>3. text = Whole(Text(op[w]))
      BY <2>1, <3>1, <3>2
    <3>4. IsWhole'
      BY <2>2, <2>3, <3>1, <3>3 DEF IsWhole, Whole
    <3>5. Busy' \subseteq Busy /\ (w \in Busy' => op'[w].step = "open")
      BY <1>4, <2>2, <2>8, FillViews, InForceViews
    <3> QED
      BY <2>2, <2>8, <3>4, <3>5 DEF Alone
  <2> QED
    BY <2>2, <2>6, <2>7, <2>8 DEF Filled, Target
<1>5. ASSUME NEW w \in Writers, Rename(w) PROVE Filled'
  <2>1. /\ w \in Busy /\ op[w].inode # NoFile /\ op[w].step = "rename"
        /\ content' = content /\ UNCHANGED <<kind, together>> /\ Target' = Target
        /\ Target \in {"own", "tmp"}
    BY <1>5, RenameViews DEF Rename, Target
  <2>2. CASE Target = "own" /\ place' = op[w].inode
    <3>1. content[op[w].inode] = Whole(Text(op[w]))
      BY <2>1, <2>2 DEF Owners
    <3> QED
      BY <2>1, <2>2, <3>1 DEF Filled, IsWhole, Whole
  <2>3. CASE Target = "tmp" /\ place' = tmp
    <3>1. ~together => content[tmp] = Whole(Text(op[w]))
      BY <2>1, <2>3 DEF Owners
    <3> QED
      BY <2>1, <2>3, <3>1 DEF Filled, IsWhole, Whole
  <2>4. CASE Target = "tmp" /\ place' = place
    BY <2>1, <2>4 DEF Filled, IsWhole
  <2> QED
    BY <1>5, <2>2, <2>3, <2>4, RenameViews
<1>6. ASSUME NEW w \in Writers, WriteFails(w) PROVE Filled'
  <2> DEFINE i == op[w].inode
  <2>1. /\ op[w].step = "fill" /\ w \in Busy /\ i \in Inodes /\ i # NoFile
        /\ content' = [content EXCEPT ![i] = Torn] /\ faults' # 0
        /\ UNCHANGED <<kind, place, together>> /\ Target' = Target
    BY <1>6 DEF WriteFails, Shape, Busy, Idle, Fits, Target, Inodes, NoFile
  <2>2. \A j \in Inodes \ {i} : content'[j] = content[j]
    BY <2>1 DEF Shape
  <2>3. i # place => IsWhole' = IsWhole
    BY <2>1, <2>2 DEF IsWhole, Shape
  <2>4. Target = "own" \/ (Target = "tmp" /\ ~together) => i # place
    BY <2>1 DEF Owners
  <2> QED
    BY <2>1, <2>3, <2>4 DEF Filled
<1>7. CASE Crash
  BY <1>7 DEF Crash, Shape, Filled, IsWhole, Target
<1>8. CASE UNCHANGED vars
  BY <1>8 DEF vars, Filled, IsWhole, Busy, Target, counters
<1> QED
  BY <1>1, <1>2, <1>3, <1>4, <1>5, <1>6, <1>7, <1>8, CommandsAreCalls, ReadingReads DEF Next

LEMMA NotTakenKept == WritersFinite /\ ConfigInv /\ [Next]_vars => NotTakenForEmpty'
<1> SUFFICES ASSUME WritersFinite, Shape, Alone, Filled, NotTakenForEmpty, [Next]_vars
             PROVE  NotTakenForEmpty'
  BY DEF ConfigInv
<1>1. ASSUME hollow' = hollow, kind' = kind, together => together', faults > 0 => faults' > 0
      PROVE  NotTakenForEmpty'
  BY <1>1 DEF NotTakenForEmpty
<1>2. ASSUME NEW w \in Writers, Reads(w) PROVE NotTakenForEmpty'
  <2>1. /\ UNCHANGED <<kind, together>> /\ faults' \in Nat /\ faults \in Nat /\ faults' >= faults
        /\ \/ hollow' = hollow
           \/ hollow' = TRUE /\ kind \in {"settings", "cliSettings", "codexToml"}
                             /\ (faults' > 0 \/ ~IsWhole)
        /\ op[w].step = "read"
    BY <1>2 DEF Reads, Shape
  <2>2. ASSUME ~IsWhole, faults = 0, kind \in {"settings", "cliSettings", "codexToml"}
        PROVE  together /\ kind # "settings"
    <3>1. Target = "place" /\ kind # "settings"
      BY <2>2 DEF Filled, Target
    <3>2. ~together => \E v \in Busy : op[v].step = "fill"
      BY <2>2, <3>1 DEF Filled
    <3>3. w \in Busy
      BY <1>2, ReadOps
    <3> QED
      BY <2>1, <3>1, <3>2, <3>3 DEF Alone
  <2>3. CASE hollow' = hollow
    <3>1. faults > 0 => faults' > 0
      BY <2>1
    <3> QED
      BY <1>1, <2>1, <2>3, <3>1
  <2>4. CASE /\ hollow' = TRUE /\ kind \in {"settings", "cliSettings", "codexToml"}
             /\ (faults' > 0 \/ ~IsWhole)
    <3>1. faults' > 0 \/ faults = 0
      BY <2>1
    <3>2. faults' > 0 \/ (together /\ kind # "settings")
      BY <2>2, <2>4, <3>1
    <3> QED
      BY <2>1, <2>4, <3>2 DEF NotTakenForEmpty
  <2> QED
    BY <2>1, <2>3, <2>4
<1>3. ASSUME NEW w \in Writers,
             SomeCall(w) \/ Open(w) \/ Fill(w) \/ Rename(w) \/ WriteFails(w)
      PROVE  NotTakenForEmpty'
  BY <1>1, <1>3 DEF SomeCall, Call, Open, Fill, Rename, WriteFails, Shape, counters
<1>4. CASE Crash
  BY <1>1, <1>4 DEF Crash, Shape
<1>5. CASE UNCHANGED vars
  BY <1>1, <1>5 DEF vars, counters
<1> QED
  BY <1>2, <1>3, <1>4, <1>5, CommandsAreCalls, ReadingReads DEF Next

\* What a write in force makes of the agreements: its own text agrees with
\* what the file ought to hold, and so does, still, what others have read.
LEMMA WriteAgrees ==
  ASSUME Shape, NEW w \in Busy, op[w].step \in {"fill", "rename"}, InForce(w),
         \A v \in Busy : op[v].step # "read" => Agree(op[v].base, raced \cup op[v].stale)
  PROVE  /\ \A k \in Keys \ raced' : k \in Text(op[w]) <=> k \in owed'
         /\ \A v \in Busy' : op'[v].step # "read" =>
              \A k \in Keys \ (raced' \cup op'[v].stale) : k \in op'[v].base <=> k \in owed'
<1>1. op[w] \in Commands /\ Fits(op[w]) /\ Agree(op[w].base, raced \cup op[w].stale)
  BY DEF Shape, Busy
<1>2. /\ owed' = IF op[w].do = "set" THEN owed \cup Changed(w) ELSE owed \ Changed(w)
      /\ raced' = (raced \cup op[w].stale) \ Changed(w)
  BY InForceOps
<1>3. ASSUME NEW k \in Keys, k \notin Changed(w) PROVE k \in owed' <=> k \in owed
  BY <1>2, <1>3
<1>4. ASSUME NEW k \in Keys \ raced' PROVE k \in Text(op[w]) <=> k \in owed'
  <2>1. CASE op[w].defaults
    <3>1. Text(op[w]) = op[w].base /\ Changed(w) = {}
      BY <1>1, <2>1 DEF Text, Fits, Changed
    <3> QED
      BY <1>1, <1>2, <1>3, <3>1 DEF Agree
  <2>2. CASE ~op[w].defaults
    <3>1. Changed(w) = {op[w].key} /\ op[w].do \in {"set", "clear"}
      BY <1>1, <2>2 DEF Changed, Fits, Commands
    <3>2. CASE k = op[w].key
      BY <1>2, <2>2, <3>1, <3>2 DEF Text
    <3>3. CASE k # op[w].key
      <4>1. k \notin raced \cup op[w].stale
        BY <1>2, <3>1, <3>3
      <4>2. k \in op[w].base <=> k \in owed
        BY <1>1, <4>1 DEF Agree
      <4>3. k \in Text(op[w]) <=> k \in op[w].base
        BY <2>2, <3>3 DEF Text
      <4> QED
        BY <1>3, <3>1, <3>3, <4>2, <4>3
    <3> QED
      BY <3>2, <3>3
  <2> QED
    BY <2>1, <2>2
<1>5. ASSUME NEW v \in Busy', op'[v].step # "read",
             NEW k \in Keys \ (raced' \cup op'[v].stale)
      PROVE  k \in op'[v].base <=> k \in owed'
  <2>1. v \in Busy
    BY InForceViews
  <2>2. CASE v = w
    <3>1. op[w].defaults /\ op'[w].base = op[w].base /\ op'[w].stale = op[w].stale
      BY <1>5, <2>2, InForceViews
    <3>2. Changed(w) = {}
      BY <3>1 DEF Changed
    <3>3. k \notin raced \cup op[w].stale
      BY <1>2, <1>5, <2>2, <3>1, <3>2
    <3> QED
      BY <1>1, <1>3, <2>2, <3>1, <3>2, <3>3 DEF Agree
  <2>3. CASE v # w
    <3>1. /\ op'[v].step = op[v].step /\ op'[v].base = op[v].base
          /\ op'[v].stale = op[v].stale \cup Changed(w)
      BY <1>5, <2>1, <2>3, InForceViews
    <3>2. k \notin Changed(w) /\ k \notin raced \cup op[v].stale
      BY <1>2, <1>5, <3>1
    <3>3. Agree(op[v].base, raced \cup op[v].stale)
      BY <1>5, <2>1, <3>1
    <3> QED
      BY <1>3, <3>1, <3>2, <3>3 DEF Agree
  <2> QED
    BY <2>2, <2>3
<1> QED
  BY <1>4, <1>5

LEMMA BasesKept == WritersFinite /\ ConfigInv /\ [Next]_vars => Bases'
<1> SUFFICES ASSUME WritersFinite, Shape, Alone, Owners, Filled, Bases, [Next]_vars PROVE Bases'
  BY DEF ConfigInv
<1>1. ASSUME NEW w \in Writers, SomeCall(w) PROVE Bases'
  <2>1. /\ Busy' \subseteq Busy \cup {w} /\ \A v \in Writers \ {w} : op'[v] = op[v]
        /\ op'[w].step = "read"
        /\ UNCHANGED <<kind, place, content, owed, raced, hollow>>
        /\ together => together'
    BY <1>1 DEF SomeCall, Call, Shape, Busy
  <2>2. \A v \in Busy' : op'[v].step # "read" => v \in Busy /\ op'[v] = op[v]
    BY <2>1 DEF Busy
  <2> QED
    BY <2>1, <2>2 DEF Bases, IsWhole, FileKeys, Agree
<1>2. ASSUME NEW w \in Writers, Reads(w) PROVE Bases'
  <2>1. UNCHANGED <<kind, place, content, owed, raced, together>>
    BY <1>2 DEF Reads
  <2>2. /\ w \in Busy /\ Busy' \subseteq Busy /\ \A v \in Writers \ {w} : op'[v] = op[v]
        /\ op'[w] # Idle => op'[w].stale = {}
        /\ hollow' = FALSE =>

               hollow = FALSE /\ (op'[w] # Idle => IsWhole /\ op'[w].base = FileKeys)
        /\ hollow' \in BOOLEAN
    BY <1>2, ReadOps
  <2> SUFFICES ASSUME ~hollow', ~(kind = "favorites" /\ together)
               PROVE  /\ IsWhole' => Agree(FileKeys, raced)
                      /\ \A v \in Busy' : op'[v].step # "read" =>
                           \A k \in Keys \ (raced \cup op'[v].stale) :
                              k \in op'[v].base <=> k \in owed
    BY <2>1 DEF Bases, FileKeys, Agree
  <2>3. ~hollow /\ (IsWhole => Agree(FileKeys, raced))
    BY <2>2 DEF Bases
  <2>4. \A v \in Busy : op[v].step # "read" => Agree(op[v].base, raced \cup op[v].stale)
    BY <2>2 DEF Bases
  <2>5. IsWhole' = IsWhole
    BY <2>1 DEF IsWhole
  <2> QED
    BY <2>2, <2>3, <2>4, <2>5 DEF Agree, Busy
<1>3. ASSUME NEW w \in Writers, Open(w) PROVE Bases'
  BY <1>3, FreshIsUnused
     DEF Open, Shape, Alone, Owners, Filled, Bases, IsWhole, FileKeys, Agree, Busy, Idle, Fits,
         Commands, Kinds, Target, Texts, Empty, counters
<1>4. ASSUME NEW w \in Writers, Fill(w) PROVE Bases'
  <2> DEFINE i == op[w].inode
  <2>1. PICK text \in {Whole(Text(op[w])), Torn} :
          /\ text = Torn => content[i] # Empty
          /\ content' = [content EXCEPT ![i] = text]
    BY <1>4, FillViews
  <2>2. /\ w \in Busy /\ i \in Inodes /\ i # NoFile /\ op[w].step = "fill"
        /\ UNCHANGED <<kind, place, tmp, hollow, together, faults>>
    BY <1>4, FillViews DEF Fill
  <2>3. content'[i] = text /\ \A j \in Inodes \ {i} : content'[j] = content[j]
    BY <2>1, <2>2 DEF Shape
  <2> SUFFICES ASSUME ~hollow, ~(kind = "favorites" /\ together)
               PROVE  /\ IsWhole' => \A k \in Keys \ raced' : k \in FileKeys' <=> k \in owed'
                      /\ \A v \in Busy' : op'[v].step # "read" =>
                           \A k \in Keys \ (raced' \cup op'[v].stale) :
                              k \in op'[v].base <=> k \in owed'
    BY <2>2 DEF Bases, Agree
  <2>4. /\ IsWhole => Agree(FileKeys, raced)
        /\ \A v \in Busy : op[v].step # "read" => Agree(op[v].base, raced \cup op[v].stale)
    BY DEF Bases
  <2>5. CASE Target = "place"
    <3>1. InForce(w) /\ i = place
      BY <1>4, <2>2, <2>5, FillViews DEF Owners
    <3>2. IsWhole' => FileKeys' = Text(op[w])
      BY <2>2, <2>3, <3>1 DEF IsWhole, FileKeys, Whole, Torn
    <3> QED
      BY <2>2, <2>4, <3>1, <3>2, WriteAgrees
  <2>6. CASE Target # "place"
    <3>1. i # place
      BY <2>2, <2>6 DEF Owners, Target
    <3>2. IsWhole' = IsWhole /\ FileKeys' = FileKeys
      BY <2>2, <2>3, <3>1 DEF IsWhole, FileKeys, Shape
    <3>3. /\ Busy' = Busy /\ \A v \in Writers \ {w} : op'[v] = op[v]
          /\ op'[w].base = op[w].base /\ op'[w].stale = op[w].stale
          /\ owed' = owed /\ raced' = raced
      BY <1>4, <2>6, FillViews
    <3> QED
      BY <2>2, <2>4, <3>2, <3>3 DEF Agree, Busy
  <2> QED
    BY <2>5, <2>6
<1>5. ASSUME NEW w \in Writers, Rename(w) PROVE Bases'
  <2>1. /\ w \in Busy /\ op[w].inode # NoFile /\ op[w].step = "rename"
        /\ content' = content /\ UNCHANGED <<kind, hollow, together>>
    BY <1>5, RenameViews DEF Rename
  <2> SUFFICES ASSUME ~hollow, ~(kind = "favorites" /\ together)
               PROVE  /\ IsWhole' => \A k \in Keys \ raced' : k \in FileKeys' <=> k \in owed'
                      /\ \A v \in Busy' : op'[v].step # "read" =>
                           \A k \in Keys \ (raced' \cup op'[v].stale) :
                              k \in op'[v].base <=> k \in owed'
    BY <2>1 DEF Bases, Agree
  <2>2. /\ IsWhole => Agree(FileKeys, raced)
        /\ \A v \in Busy : op[v].step # "read" => Agree(op[v].base, raced \cup op[v].stale)
    BY DEF Bases
  <2>3. CASE InForce(w) /\ place' \in Inodes /\ content[place'] = Whole(Text(op[w]))
    <3>1. FileKeys' = Text(op[w])
      BY <2>1, <2>3 DEF FileKeys, Whole, Inodes, NoFile
    <3> QED
      BY <2>1, <2>2, <2>3, <3>1, WriteAgrees
  <2>4. CASE op' = [op EXCEPT ![w] = Idle] /\ UNCHANGED <<place, tmp, owed, raced>>
    <3>1. Busy' \subseteq Busy /\ \A v \in Busy' : op'[v] = op[v]
      BY <2>4 DEF Busy, Shape
    <3> QED
      BY <2>1, <2>2, <2>4, <3>1 DEF IsWhole, FileKeys, Agree
  <2>5. CASE Target = "own" /\ place' = op[w].inode /\ InForce(w)
    <3>1. op[w].inode \in Inodes /\ content[op[w].inode] = Whole(Text(op[w]))
      BY <1>5, <2>1, <2>5, RenameViews DEF Owners
    <3> QED
      BY <2>3, <2>5, <3>1
  <2>6. CASE Target = "tmp" /\ place' = tmp /\ InForce(w)
    <3>1. ~together
      BY <2>6 DEF Target
    <3>2. op[w].inode = tmp /\ op[w].inode \in Inodes /\ content[tmp] = Whole(Text(op[w]))
      BY <1>5, <2>1, <2>6, <3>1, RenameViews DEF Owners
    <3> QED
      BY <2>3, <2>6, <3>2
  <2> QED
    BY <1>5, <2>4, <2>5, <2>6, RenameViews
<1>6. ASSUME NEW w \in Writers, WriteFails(w) PROVE Bases'
  BY <1>6 DEF WriteFails, Return, Shape, Alone, Owners, Bases, IsWhole, FileKeys, Agree, Busy,
              Idle, Fits, Target, Texts, Torn
<1>7. CASE Crash
  BY <1>7 DEF Crash, Bases, IsWhole, FileKeys, Agree, Busy
<1>8. CASE UNCHANGED vars
  BY <1>8 DEF vars, Bases, IsWhole, FileKeys, Agree, Busy
<1> QED
  BY <1>1, <1>2, <1>3, <1>4, <1>5, <1>6, <1>7, <1>8, CommandsAreCalls, ReadingReads DEF Next

-----------------------------------------------------------------------------

(* ConfigInv is inductive, in the form in which StorageProofs uses it.       *)
LEMMA ConfigInvStarts == WritersFinite /\ Init => ConfigInv
<1> SUFFICES ASSUME WritersFinite, Init PROVE ConfigInv
  OBVIOUS
<1>1. Busy = {}
  BY DEF Init, Busy
<1>2. content \in [Inodes -> Texts]
  BY DEF Init, Texts, Whole, Empty
<1>3. NoFile # 0 /\ 0 \in Inodes
  BY FS_CardinalityType DEF WritersFinite, NoFile, Inodes
<1>4. Shape
  <2> QED
    BY <1>1, <1>2, <1>3 DEF Init, Shape, Kinds
<1>5. Alone /\ Owners /\ NotTakenForEmpty
  BY <1>1 DEF Init, Alone, Owners, NotTakenForEmpty
<1>6. IsWhole /\ FileKeys = owed
  <2>1. CASE place = NoFile
    BY <2>1 DEF Init, IsWhole, FileKeys
  <2>2. CASE place = 0
    <3>1. content[place] = Whole(owed)
      BY <1>3, <2>2 DEF Init
    <3> QED
      BY <1>3, <2>2, <3>1 DEF IsWhole, FileKeys, Whole
  <2> QED
    BY <2>1, <2>2 DEF Init
<1>7. Filled /\ Bases
  BY <1>1, <1>6 DEF Filled, Bases, Agree
<1> QED
  BY <1>4, <1>5, <1>7 DEF ConfigInv

LEMMA ConfigInvStays == WritersFinite /\ ConfigInv /\ [Next]_vars => ConfigInv'
BY ShapeKept, AloneKept, OwnersKept, FilledKept, NotTakenKept, BasesKept DEF ConfigInv

LEMMA ConfigInvSuffices == ConfigInv => Unbroken /\ NotTakenForEmpty /\ KeysKept
<1> SUFFICES ASSUME ConfigInv PROVE Unbroken /\ NotTakenForEmpty /\ KeysKept
  OBVIOUS
<1>1. Unbroken
  <2> SUFFICES ASSUME ~IsWhole
               PROVE  /\ kind \notin {"settings", "claudeJson"}
                      /\ kind = "favorites" => together
                      /\ \/ together \/ faults > 0
                         \/ \E w \in Busy : op[w].step = "fill" /\ op[w].inode = place
    BY DEF Unbroken
  <2>1. Target # "own" /\ (Target = "tmp" => together)
    BY DEF ConfigInv, Filled
  <2>2. kind \notin {"settings", "claudeJson"} /\ (kind = "favorites" => together)
    BY <2>1 DEF Target
  <2>3. ASSUME Target = "place", ~together, faults = 0
        PROVE  \E w \in Busy : op[w].step = "fill" /\ op[w].inode = place
    <3>1. PICK w \in Busy : op[w].step = "fill"
      BY <2>3 DEF ConfigInv, Filled
    <3>2. op[w].inode # NoFile
      BY <3>1 DEF ConfigInv, Shape, Fits, Inodes, NoFile
    <3> QED
      BY <2>3, <3>1, <3>2 DEF ConfigInv, Owners
  <2>4. faults \in Nat
    BY DEF ConfigInv, Shape
  <2> QED
    BY <2>1, <2>2, <2>3, <2>4 DEF Target
<1>2. KeysKept
  BY DEF ConfigInv, Bases, KeysKept, FileKeys, Agree
<1> QED
  BY <1>1, <1>2 DEF ConfigInv

(* The configuration files stay whole but for the overlaps and failures that *)
(* Unbroken names, are never taken for empty where that is refused, and     *)
(* keep every key that nobody has cleared or overwritten unawares: for any  *)
(* number of commands under way at once, with any faults.                  *)
THEOREM FilesAreKept ==
  ASSUME WritersFinite
  PROVE  Spec => [](Unbroken /\ NotTakenForEmpty /\ KeysKept)
<1>1. Init => ConfigInv
  BY ConfigInvStarts
<1>2. ConfigInv /\ [Next]_vars => ConfigInv'
  BY ConfigInvStays
<1>3. ConfigInv => Unbroken /\ NotTakenForEmpty /\ KeysKept
  BY ConfigInvSuffices
<1> QED
  BY <1>1, <1>2, <1>3, PTL DEF Spec

-----------------------------------------------------------------------------
(* The generations of history pages.  HistoryGenerations shares the names of *)
(* operators with ConfigFiles: here they are Generations!Init and so on.    *)

CONSTANTS Gens, Clients, MaxLog, MaxCatchup, MaxCrashes
VARIABLES safe, terminal, dir, size, damaged, current, retained, shard, global, stage, gen,
          prev, keep, handed, calm, crashes

Generations == INSTANCE HistoryGenerations

\* The marks for "none" are no generation and no request.
MarksDistinct == Generations!NoGen \notin Gens /\ Generations!Free \notin Clients

Building == {"snapshot", "publish", "point", "retain", "cleanAfter", "sweepAfter"}
Guarded == Generations!Places \ {"idle", "summary", "again"}

\* The part of TypeOK that the proof needs.
GenShape ==
  /\ DOMAIN dir = Gens /\ DOMAIN size = Gens
  /\ current \in Gens \cup {Generations!NoGen}
  /\ DOMAIN stage = Clients /\ DOMAIN gen = Clients /\ DOMAIN prev = Clients
  /\ DOMAIN keep = Clients /\ DOMAIN handed = Clients /\ DOMAIN calm = Clients
  /\ \A c \in Clients : stage[c] \in Generations!Places
  /\ \A c \in Clients : prev[c] \in Gens \cup {Generations!NoGen}
  /\ \A c \in Clients : stage[c] \in Building => gen[c] \in Gens

\* Who builds holds the lock of all builds; the run's lock too, unless a
\* summary could not be read.
Locks ==
  /\ \A c \in Clients : stage[c] \in Building => global = c
  /\ damaged = {} => \A c \in Clients : stage[c] \in Guarded => shard = c

\* What is retained is complete, and what a client has, or is about to get,
\* is retained.
Retention ==
  /\ retained \subseteq Gens
  /\ \A g \in retained : dir[g] = "done"
  /\ \A c \in Clients : handed[c] # Generations!NoGen => handed[c] \in retained
  /\ \A c \in Clients : stage[c] \in {"cleanAfter", "sweepAfter", "summary", "again"} =>
       gen[c] \in retained

\* Between the reading of the pointer and the sweep it stays, and so does a
\* generation between its publication and the pointer to it.
Pointer ==
  /\ \A c \in Clients : stage[c] \in {"snapshot", "publish"} => dir[gen[c]] \in {"build", "gone"}
  /\ damaged = {} =>
       /\ current # Generations!NoGen => dir[current] = "done"
       /\ \A c \in Clients : stage[c] \in {"sweep", "sweepAfter"} => keep[c] = current
       /\ \A c \in Clients : stage[c] = "point" => dir[gen[c]] = "done"

\* What a request has counted of a run that had ended is all of it.
Snapshots ==
  \A c \in Clients : calm[c] =>
    /\ terminal
    /\ stage[c] \in (Building \ {"snapshot"}) \cup {"summary", "again"} =>
         size[gen[c]] = Len(safe)

GenInv == GenShape /\ Locks /\ Retention /\ Pointer /\ Snapshots

LEMMA GenShapeKept == MarksDistinct /\ GenInv /\ [Generations!Next]_Generations!vars => GenShape'
<1> SUFFICES ASSUME MarksDistinct, GenShape, [Generations!Next]_Generations!vars PROVE GenShape'
  BY DEF GenInv
<1> USE DEF MarksDistinct, GenShape, Generations!Places, Building, Guarded
<1>1. CASE Generations!AppendEvent
  BY <1>1 DEF Generations!AppendEvent, Generations!Restless, Generations!logVars,
       Generations!diskVars, Generations!lockVars
<1>2. CASE Generations!SetStatus
  BY <1>2 DEF Generations!SetStatus, Generations!Restless, Generations!logVars,
       Generations!diskVars, Generations!lockVars
<1>3. CASE Generations!Damage
  BY <1>3 DEF Generations!Damage, Generations!logVars, Generations!diskVars,
       Generations!lockVars
<1>4. CASE Generations!Crash
  BY <1>4 DEF Generations!Crash, Generations!logVars, Generations!diskVars,
       Generations!lockVars
<1>5. ASSUME NEW c \in Clients, Generations!Ensure(c) PROVE GenShape'
  BY <1>5 DEF Generations!Ensure, Generations!Goto, Generations!logVars,
       Generations!diskVars, Generations!lockVars
<1>6. ASSUME NEW c \in Clients, Generations!CleanRead(c) PROVE GenShape'
  BY <1>6 DEF Generations!CleanRead, Generations!Goto, Generations!logVars,
       Generations!diskVars, Generations!lockVars
<1>7. ASSUME NEW c \in Clients, Generations!Sweep(c) PROVE GenShape'
  BY <1>7 DEF Generations!Sweep, Generations!ShouldRemove, Generations!Goto,
       Generations!Release, Generations!logVars, Generations!diskVars, Generations!lockVars
<1>8. ASSUME NEW c \in Clients, Generations!Hit(c) PROVE GenShape'
  BY <1>8 DEF Generations!Hit, Generations!Matches, Generations!Goto,
       Generations!Release, Generations!logVars, Generations!diskVars, Generations!lockVars
<1>9. ASSUME NEW c \in Clients, Generations!Miss(c) PROVE GenShape'
  BY <1>9 DEF Generations!Miss, Generations!Goto, Generations!logVars,
       Generations!diskVars, Generations!lockVars
<1>10. ASSUME NEW c \in Clients, NEW g \in Gens, Generations!BeginBuild(c, g) PROVE GenShape'
  BY <1>10 DEF Generations!BeginBuild, Generations!Goto, Generations!logVars,
       Generations!diskVars, Generations!lockVars
<1>11. ASSUME NEW c \in Clients, Generations!Snapshot(c) PROVE GenShape'
  BY <1>11 DEF Generations!Snapshot, Generations!Goto, Generations!logVars,
       Generations!diskVars, Generations!lockVars
<1>12. ASSUME NEW c \in Clients, Generations!Publish(c) PROVE GenShape'
  BY <1>12 DEF Generations!Publish, Generations!Goto, Generations!logVars,
       Generations!diskVars, Generations!lockVars
<1>13. ASSUME NEW c \in Clients, Generations!Point(c) PROVE GenShape'
  BY <1>13 DEF Generations!Point, Generations!Goto, Generations!logVars,
       Generations!diskVars, Generations!lockVars
<1>14. ASSUME NEW c \in Clients, Generations!Retain(c) PROVE GenShape'
  BY <1>14 DEF Generations!Retain, Generations!Goto, Generations!logVars,
       Generations!diskVars, Generations!lockVars
<1>15. ASSUME NEW c \in Clients, Generations!Fail(c) PROVE GenShape'
  BY <1>15 DEF Generations!Fail, Generations!Return, Generations!Goto,
       Generations!Release, Generations!logVars, Generations!diskVars, Generations!lockVars
<1>16. ASSUME NEW c \in Clients, Generations!Summary(c) PROVE GenShape'
  BY <1>16 DEF Generations!Summary, Generations!Return, Generations!Goto,
       Generations!Release, Generations!logVars, Generations!diskVars, Generations!lockVars
<1>17. CASE UNCHANGED Generations!vars
  BY <1>17 DEF Generations!vars, Generations!logVars, Generations!diskVars,
       Generations!lockVars
<1> QED
  BY <1>1, <1>2, <1>3, <1>4, <1>5, <1>6, <1>7, <1>8, <1>9, <1>10, <1>11,
     <1>12, <1>13, <1>14, <1>15, <1>16, <1>17 DEF Generations!Next, Generations!Request

LEMMA LocksKept == MarksDistinct /\ GenInv /\ [Generations!Next]_Generations!vars => Locks'
<1> SUFFICES ASSUME MarksDistinct, GenShape, Locks, Retention, [Generations!Next]_Generations!vars PROVE Locks'
  BY DEF GenInv
<1> USE DEF MarksDistinct, GenShape, Locks, Retention, Generations!Places, Building, Guarded
<1>1. CASE Generations!AppendEvent
  BY <1>1 DEF Generations!AppendEvent, Generations!Restless, Generations!logVars,
       Generations!diskVars, Generations!lockVars
<1>2. CASE Generations!SetStatus
  BY <1>2 DEF Generations!SetStatus, Generations!Restless, Generations!logVars,
       Generations!diskVars, Generations!lockVars
<1>3. CASE Generations!Damage
  BY <1>3 DEF Generations!Damage, Generations!logVars, Generations!diskVars,
       Generations!lockVars
<1>4. CASE Generations!Crash
  BY <1>4 DEF Generations!Crash, Generations!logVars, Generations!diskVars,
       Generations!lockVars
<1>5. ASSUME NEW c \in Clients, Generations!Ensure(c) PROVE Locks'
  BY <1>5 DEF Generations!Ensure, Generations!Goto, Generations!logVars,
       Generations!diskVars, Generations!lockVars
<1>6. ASSUME NEW c \in Clients, Generations!CleanRead(c) PROVE Locks'
  BY <1>6 DEF Generations!CleanRead, Generations!Goto, Generations!logVars,
       Generations!diskVars, Generations!lockVars
<1>7. ASSUME NEW c \in Clients, Generations!Sweep(c) PROVE Locks'
  BY <1>7 DEF Generations!Sweep, Generations!ShouldRemove, Generations!Goto,
       Generations!Release, Generations!logVars, Generations!diskVars, Generations!lockVars
<1>8. ASSUME NEW c \in Clients, Generations!Hit(c) PROVE Locks'
  BY <1>8 DEF Generations!Hit, Generations!Matches, Generations!Goto,
       Generations!Release, Generations!logVars, Generations!diskVars, Generations!lockVars
<1>9. ASSUME NEW c \in Clients, Generations!Miss(c) PROVE Locks'
  BY <1>9 DEF Generations!Miss, Generations!Goto, Generations!logVars,
       Generations!diskVars, Generations!lockVars
<1>10. ASSUME NEW c \in Clients, NEW g \in Gens, Generations!BeginBuild(c, g) PROVE Locks'
  BY <1>10 DEF Generations!BeginBuild, Generations!Goto, Generations!logVars,
       Generations!diskVars, Generations!lockVars
<1>11. ASSUME NEW c \in Clients, Generations!Snapshot(c) PROVE Locks'
  BY <1>11 DEF Generations!Snapshot, Generations!Goto, Generations!logVars,
       Generations!diskVars, Generations!lockVars
<1>12. ASSUME NEW c \in Clients, Generations!Publish(c) PROVE Locks'
  BY <1>12 DEF Generations!Publish, Generations!Goto, Generations!logVars,
       Generations!diskVars, Generations!lockVars
<1>13. ASSUME NEW c \in Clients, Generations!Point(c) PROVE Locks'
  BY <1>13 DEF Generations!Point, Generations!Goto, Generations!logVars,
       Generations!diskVars, Generations!lockVars
<1>14. ASSUME NEW c \in Clients, Generations!Retain(c) PROVE Locks'
  BY <1>14 DEF Generations!Retain, Generations!Goto, Generations!logVars,
       Generations!diskVars, Generations!lockVars
<1>15. ASSUME NEW c \in Clients, Generations!Fail(c) PROVE Locks'
  BY <1>15 DEF Generations!Fail, Generations!Return, Generations!Goto,
       Generations!Release, Generations!logVars, Generations!diskVars, Generations!lockVars
<1>16. ASSUME NEW c \in Clients, Generations!Summary(c) PROVE Locks'
  BY <1>16 DEF Generations!Summary, Generations!Return, Generations!Goto,
       Generations!Release, Generations!logVars, Generations!diskVars, Generations!lockVars
<1>17. CASE UNCHANGED Generations!vars
  BY <1>17 DEF Generations!vars, Generations!logVars, Generations!diskVars,
       Generations!lockVars
<1> QED
  BY <1>1, <1>2, <1>3, <1>4, <1>5, <1>6, <1>7, <1>8, <1>9, <1>10, <1>11,
     <1>12, <1>13, <1>14, <1>15, <1>16, <1>17 DEF Generations!Next, Generations!Request

LEMMA RetentionKept == MarksDistinct /\ GenInv /\ [Generations!Next]_Generations!vars => Retention'
<1> SUFFICES ASSUME MarksDistinct, GenShape, Retention, [Generations!Next]_Generations!vars PROVE Retention'
  BY DEF GenInv
<1> USE DEF MarksDistinct, GenShape, Retention, Generations!Places, Building, Guarded
<1>1. CASE Generations!AppendEvent
  BY <1>1 DEF Generations!AppendEvent, Generations!Restless, Generations!logVars,
       Generations!diskVars, Generations!lockVars
<1>2. CASE Generations!SetStatus
  BY <1>2 DEF Generations!SetStatus, Generations!Restless, Generations!logVars,
       Generations!diskVars, Generations!lockVars
<1>3. CASE Generations!Damage
  BY <1>3 DEF Generations!Damage, Generations!logVars, Generations!diskVars,
       Generations!lockVars
<1>4. CASE Generations!Crash
  BY <1>4 DEF Generations!Crash, Generations!logVars, Generations!diskVars,
       Generations!lockVars
<1>5. ASSUME NEW c \in Clients, Generations!Ensure(c) PROVE Retention'
  BY <1>5 DEF Generations!Ensure, Generations!Goto, Generations!logVars,
       Generations!diskVars, Generations!lockVars
<1>6. ASSUME NEW c \in Clients, Generations!CleanRead(c) PROVE Retention'
  BY <1>6 DEF Generations!CleanRead, Generations!Goto, Generations!logVars,
       Generations!diskVars, Generations!lockVars
<1>7. ASSUME NEW c \in Clients, Generations!Sweep(c) PROVE Retention'
  BY <1>7 DEF Generations!Sweep, Generations!ShouldRemove, Generations!Goto,
       Generations!Release, Generations!logVars, Generations!diskVars, Generations!lockVars
<1>8. ASSUME NEW c \in Clients, Generations!Hit(c) PROVE Retention'
  BY <1>8 DEF Generations!Hit, Generations!Matches, Generations!Goto,
       Generations!Release, Generations!logVars, Generations!diskVars, Generations!lockVars
<1>9. ASSUME NEW c \in Clients, Generations!Miss(c) PROVE Retention'
  BY <1>9 DEF Generations!Miss, Generations!Goto, Generations!logVars,
       Generations!diskVars, Generations!lockVars
<1>10. ASSUME NEW c \in Clients, NEW g \in Gens, Generations!BeginBuild(c, g) PROVE Retention'
  BY <1>10 DEF Generations!BeginBuild, Generations!Goto, Generations!logVars,
       Generations!diskVars, Generations!lockVars
<1>11. ASSUME NEW c \in Clients, Generations!Snapshot(c) PROVE Retention'
  BY <1>11 DEF Generations!Snapshot, Generations!Goto, Generations!logVars,
       Generations!diskVars, Generations!lockVars
<1>12. ASSUME NEW c \in Clients, Generations!Publish(c) PROVE Retention'
  BY <1>12 DEF Generations!Publish, Generations!Goto, Generations!logVars,
       Generations!diskVars, Generations!lockVars
<1>13. ASSUME NEW c \in Clients, Generations!Point(c) PROVE Retention'
  BY <1>13 DEF Generations!Point, Generations!Goto, Generations!logVars,
       Generations!diskVars, Generations!lockVars
<1>14. ASSUME NEW c \in Clients, Generations!Retain(c) PROVE Retention'
  BY <1>14 DEF Generations!Retain, Generations!Goto, Generations!logVars,
       Generations!diskVars, Generations!lockVars
<1>15. ASSUME NEW c \in Clients, Generations!Fail(c) PROVE Retention'
  BY <1>15 DEF Generations!Fail, Generations!Return, Generations!Goto,
       Generations!Release, Generations!logVars, Generations!diskVars, Generations!lockVars
<1>16. ASSUME NEW c \in Clients, Generations!Summary(c) PROVE Retention'
  BY <1>16 DEF Generations!Summary, Generations!Return, Generations!Goto,
       Generations!Release, Generations!logVars, Generations!diskVars, Generations!lockVars
<1>17. CASE UNCHANGED Generations!vars
  BY <1>17 DEF Generations!vars, Generations!logVars, Generations!diskVars,
       Generations!lockVars
<1> QED
  BY <1>1, <1>2, <1>3, <1>4, <1>5, <1>6, <1>7, <1>8, <1>9, <1>10, <1>11,
     <1>12, <1>13, <1>14, <1>15, <1>16, <1>17 DEF Generations!Next, Generations!Request

LEMMA PointerKept == MarksDistinct /\ GenInv /\ [Generations!Next]_Generations!vars => Pointer'
<1> SUFFICES ASSUME MarksDistinct, GenShape, Locks, Retention, Pointer,
                    [Generations!Next]_Generations!vars
             PROVE  Pointer'
  BY DEF GenInv
<1> USE DEF MarksDistinct, GenShape, Locks, Retention, Pointer, Generations!Places,
     Building, Guarded
<1>1. CASE Generations!AppendEvent
  BY <1>1 DEF Generations!AppendEvent, Generations!Restless, Generations!logVars,
       Generations!diskVars, Generations!lockVars
<1>2. CASE Generations!SetStatus
  BY <1>2 DEF Generations!SetStatus, Generations!Restless, Generations!logVars,
       Generations!diskVars, Generations!lockVars
<1>3. CASE Generations!Damage
  BY <1>3 DEF Generations!Damage, Generations!logVars, Generations!diskVars,
       Generations!lockVars
<1>4. CASE Generations!Crash
  BY <1>4 DEF Generations!Crash, Generations!logVars, Generations!diskVars,
       Generations!lockVars
<1>5. ASSUME NEW c \in Clients, Generations!Ensure(c) PROVE Pointer'
  BY <1>5 DEF Generations!Ensure, Generations!Goto, Generations!logVars,
       Generations!diskVars, Generations!lockVars
<1>6. ASSUME NEW c \in Clients, Generations!CleanRead(c) PROVE Pointer'
  BY <1>6 DEF Generations!CleanRead, Generations!Goto, Generations!logVars,
       Generations!diskVars, Generations!lockVars
<1>7. ASSUME NEW c \in Clients, Generations!Sweep(c) PROVE Pointer'
  BY <1>7 DEF Generations!Sweep, Generations!ShouldRemove, Generations!Goto,
       Generations!Release, Generations!logVars, Generations!diskVars, Generations!lockVars
<1>8. ASSUME NEW c \in Clients, Generations!Hit(c) PROVE Pointer'
  BY <1>8 DEF Generations!Hit, Generations!Matches, Generations!Goto,
       Generations!Release, Generations!logVars, Generations!diskVars, Generations!lockVars
<1>9. ASSUME NEW c \in Clients, Generations!Miss(c) PROVE Pointer'
  BY <1>9 DEF Generations!Miss, Generations!Goto, Generations!logVars,
       Generations!diskVars, Generations!lockVars
<1>10. ASSUME NEW c \in Clients, NEW g \in Gens, Generations!BeginBuild(c, g) PROVE Pointer'
  BY <1>10 DEF Generations!BeginBuild, Generations!Goto, Generations!logVars,
       Generations!diskVars, Generations!lockVars
<1>11. ASSUME NEW c \in Clients, Generations!Snapshot(c) PROVE Pointer'
  BY <1>11 DEF Generations!Snapshot, Generations!Goto, Generations!logVars,
       Generations!diskVars, Generations!lockVars
<1>12. ASSUME NEW c \in Clients, Generations!Publish(c) PROVE Pointer'
  BY <1>12 DEF Generations!Publish, Generations!Goto, Generations!logVars,
       Generations!diskVars, Generations!lockVars
<1>13. ASSUME NEW c \in Clients, Generations!Point(c) PROVE Pointer'
  BY <1>13 DEF Generations!Point, Generations!Goto, Generations!logVars,
       Generations!diskVars, Generations!lockVars
<1>14. ASSUME NEW c \in Clients, Generations!Retain(c) PROVE Pointer'
  BY <1>14 DEF Generations!Retain, Generations!Goto, Generations!logVars,
       Generations!diskVars, Generations!lockVars
<1>15. ASSUME NEW c \in Clients, Generations!Fail(c) PROVE Pointer'
  BY <1>15 DEF Generations!Fail, Generations!Return, Generations!Goto,
       Generations!Release, Generations!logVars, Generations!diskVars, Generations!lockVars
<1>16. ASSUME NEW c \in Clients, Generations!Summary(c) PROVE Pointer'
  BY <1>16 DEF Generations!Summary, Generations!Return, Generations!Goto,
       Generations!Release, Generations!logVars, Generations!diskVars, Generations!lockVars
<1>17. CASE UNCHANGED Generations!vars
  BY <1>17 DEF Generations!vars, Generations!logVars, Generations!diskVars,
       Generations!lockVars
<1> QED
  BY <1>1, <1>2, <1>3, <1>4, <1>5, <1>6, <1>7, <1>8, <1>9, <1>10, <1>11,
     <1>12, <1>13, <1>14, <1>15, <1>16, <1>17 DEF Generations!Next, Generations!Request

LEMMA SnapshotsKept == MarksDistinct /\ GenInv /\ [Generations!Next]_Generations!vars => Snapshots'
<1> SUFFICES ASSUME MarksDistinct, GenShape, Locks, Retention, Pointer, Snapshots,
                    [Generations!Next]_Generations!vars
             PROVE  Snapshots'
  BY DEF GenInv
<1> USE DEF MarksDistinct, GenShape, Locks, Retention, Pointer, Snapshots,
     Generations!Places, Building, Guarded
<1>1. CASE Generations!AppendEvent
  BY <1>1 DEF Generations!AppendEvent, Generations!Restless, Generations!logVars,
       Generations!diskVars, Generations!lockVars
<1>2. CASE Generations!SetStatus
  BY <1>2 DEF Generations!SetStatus, Generations!Restless, Generations!logVars,
       Generations!diskVars, Generations!lockVars
<1>3. CASE Generations!Damage
  BY <1>3 DEF Generations!Damage, Generations!logVars, Generations!diskVars,
       Generations!lockVars
<1>4. CASE Generations!Crash
  BY <1>4 DEF Generations!Crash, Generations!logVars, Generations!diskVars,
       Generations!lockVars
<1>5. ASSUME NEW c \in Clients, Generations!Ensure(c) PROVE Snapshots'
  BY <1>5 DEF Generations!Ensure, Generations!Goto, Generations!logVars,
       Generations!diskVars, Generations!lockVars
<1>6. ASSUME NEW c \in Clients, Generations!CleanRead(c) PROVE Snapshots'
  BY <1>6 DEF Generations!CleanRead, Generations!Goto, Generations!logVars,
       Generations!diskVars, Generations!lockVars
<1>7. ASSUME NEW c \in Clients, Generations!Sweep(c) PROVE Snapshots'
  BY <1>7 DEF Generations!Sweep, Generations!ShouldRemove, Generations!Goto,
       Generations!Release, Generations!logVars, Generations!diskVars, Generations!lockVars
<1>8. ASSUME NEW c \in Clients, Generations!Hit(c) PROVE Snapshots'
  BY <1>8 DEF Generations!Hit, Generations!Matches, Generations!Goto,
       Generations!Release, Generations!logVars, Generations!diskVars, Generations!lockVars
<1>9. ASSUME NEW c \in Clients, Generations!Miss(c) PROVE Snapshots'
  BY <1>9 DEF Generations!Miss, Generations!Goto, Generations!logVars,
       Generations!diskVars, Generations!lockVars
<1>10. ASSUME NEW c \in Clients, NEW g \in Gens, Generations!BeginBuild(c, g) PROVE Snapshots'
  BY <1>10 DEF Generations!BeginBuild, Generations!Goto, Generations!logVars,
       Generations!diskVars, Generations!lockVars
<1>11. ASSUME NEW c \in Clients, Generations!Snapshot(c) PROVE Snapshots'
  BY <1>11 DEF Generations!Snapshot, Generations!Goto, Generations!logVars,
       Generations!diskVars, Generations!lockVars
<1>12. ASSUME NEW c \in Clients, Generations!Publish(c) PROVE Snapshots'
  BY <1>12 DEF Generations!Publish, Generations!Goto, Generations!logVars,
       Generations!diskVars, Generations!lockVars
<1>13. ASSUME NEW c \in Clients, Generations!Point(c) PROVE Snapshots'
  BY <1>13 DEF Generations!Point, Generations!Goto, Generations!logVars,
       Generations!diskVars, Generations!lockVars
<1>14. ASSUME NEW c \in Clients, Generations!Retain(c) PROVE Snapshots'
  BY <1>14 DEF Generations!Retain, Generations!Goto, Generations!logVars,
       Generations!diskVars, Generations!lockVars
<1>15. ASSUME NEW c \in Clients, Generations!Fail(c) PROVE Snapshots'
  BY <1>15 DEF Generations!Fail, Generations!Return, Generations!Goto,
       Generations!Release, Generations!logVars, Generations!diskVars, Generations!lockVars
<1>16. ASSUME NEW c \in Clients, Generations!Summary(c) PROVE Snapshots'
  BY <1>16 DEF Generations!Summary, Generations!Return, Generations!Goto,
       Generations!Release, Generations!logVars, Generations!diskVars, Generations!lockVars
<1>17. CASE UNCHANGED Generations!vars
  BY <1>17 DEF Generations!vars, Generations!logVars, Generations!diskVars,
       Generations!lockVars
<1> QED
  BY <1>1, <1>2, <1>3, <1>4, <1>5, <1>6, <1>7, <1>8, <1>9, <1>10, <1>11,
     <1>12, <1>13, <1>14, <1>15, <1>16, <1>17 DEF Generations!Next, Generations!Request

-----------------------------------------------------------------------------

(* GenInv is inductive: the three facts, in the form in which StorageProofs  *)
(* uses them.                                                              *)
LEMMA GenInvStarts == MarksDistinct /\ Generations!Init => GenInv
<1> SUFFICES ASSUME MarksDistinct, Generations!Init PROVE GenInv
  OBVIOUS
<1> USE DEF Generations!Init, Generations!Places, Building, Guarded
<1>1. GenShape
  BY DEF GenShape
<1>2. Locks /\ Pointer
  BY DEF Locks, Pointer
<1>3. Retention
  BY DEF Retention
<1>4. Snapshots
  BY DEF Snapshots
<1> QED
  BY <1>1, <1>2, <1>3, <1>4 DEF GenInv

LEMMA GenInvStays == MarksDistinct /\ GenInv /\ [Generations!Next]_Generations!vars => GenInv'
BY GenShapeKept, LocksKept, RetentionKept, PointerKept, SnapshotsKept DEF GenInv

LEMMA GenInvSuffices ==
  MarksDistinct /\ GenInv =>
    Generations!HandedStays /\ Generations!PointerValid /\ Generations!EndedRunWhole
<1> SUFFICES ASSUME MarksDistinct, GenInv
             PROVE  Generations!HandedStays /\ Generations!PointerValid /\ Generations!EndedRunWhole
  OBVIOUS
<1>1. Generations!HandedStays
  BY DEF GenInv, Retention, Generations!HandedStays
<1>2. Generations!PointerValid
  BY DEF GenInv, Pointer, Generations!PointerValid
<1>3. Generations!EndedRunWhole
  BY DEF GenInv, Snapshots, Generations!EndedRunWhole
<1> QED
  BY <1>1, <1>2, <1>3

(* Whatever is built, published, cleaned up, damaged or interrupted by a     *)
(* crash: what a client was handed stays on disk, current.json names a      *)
(* complete generation, and the history of a run that has ended is whole.  *)
THEOREM GenerationsStay ==
  ASSUME MarksDistinct
  PROVE  Generations!Spec =>
           [](Generations!HandedStays /\ Generations!PointerValid /\ Generations!EndedRunWhole)
<1>1. Generations!Init => GenInv
  BY GenInvStarts
<1>2. GenInv /\ [Generations!Next]_Generations!vars => GenInv'
  BY GenInvStays
<1>3. GenInv => Generations!HandedStays /\ Generations!PointerValid /\ Generations!EndedRunWhole
  BY GenInvSuffices
<1> QED
  BY <1>1, <1>2, <1>3, PTL DEF Generations!Spec

-----------------------------------------------------------------------------
(* The answers to prompts.  A page is loaded from the summary of any prefix  *)
(* of the log, which is a fold over its events; that the summary of a prefix *)
(* in which a response was begun does not offer the request is shown by     *)
(* induction over the prefix, as the absence of a least counterexample.     *)

CONSTANTS Pages, MaxEnds
VARIABLES log, session, answers, card, cursor, call, ghost, blind, ends

Responses == INSTANCE InteractionResponses

(* A set of numbers has a smallest one. *)
LEMMA Smallest ==
  ASSUME NEW T, T \subseteq Nat, T # {}
  PROVE  \E x \in T : \A y \in T : x <= y
<1> DEFINE R == {ss \in Nat \X Nat : ss[1] < ss[2]}
<1>1. IsWellFoundedOn(R, Nat)
  BY NatLessThanWellFounded DEF OpToRel
<1> HIDE DEF R
<1>2. PICK x \in T : \A y \in T : ~(<<y, x>> \in R)
  BY <1>1, WFMin
<1>3. \A y \in T : ~(y < x)
  <2> SUFFICES ASSUME NEW y \in T, y < x PROVE FALSE
    OBVIOUS
  <2>1. <<y, x>> \in R
    BY DEF R
  <2> QED  BY <1>2, <2>1
<1> QED  BY <1>3

LEMMA MaxOfPrefix ==
  ASSUME NEW n \in Nat \ {0}, NEW s \in SUBSET (1..n), n \in s
  PROVE  Responses!Max(s) = n
<1>1. \A y \in s : n >= y
  OBVIOUS
<1>2. \A x \in s : (\A y \in s : x >= y) => x = n
  OBVIOUS
<1> QED  BY <1>1, <1>2, Zenon DEF Responses!Max

(* The two functions that are folded over events. *)
Folded(what, before, event) ==
  IF what = "kept" THEN Responses!Keep(before, event) ELSE Responses!Reduce(before, event)

IsFold(f, what, base, events, S) ==
  f = [s \in SUBSET S |->
         IF s = {} THEN base
         ELSE Folded(what, f[s \ {Responses!Max(s)}], events[Responses!Max(s)])]

(* The recursive function of a fold exists, *)
LEMMA FoldExists ==
  ASSUME NEW what, NEW base, NEW S, NEW events \in Seq(S)
  PROVE  \E f : IsFold(f, what, base, events, DOMAIN events)
<1> DEFINE T == {n \in 0..Len(events) : ~ \E f : IsFold(f, what, base, events, 1..n)}
<1>0. DOMAIN events = 1..Len(events) /\ Len(events) \in Nat
  BY LenProperties
<1>1. T = {}
  <2> SUFFICES ASSUME T # {} PROVE FALSE
    OBVIOUS
  <2>1. T \subseteq Nat
    BY <1>0
  <2>2. PICK n \in T : \A y \in T : n <= y
    <3> HIDE DEF T
    <3> QED  BY <2>1, Smallest
  <2>3. n # 0
    <3> SUFFICES ASSUME n = 0 PROVE FALSE
      OBVIOUS
    <3>1. IsFold([s \in {{}} |-> base], what, base, events, {})
      BY DEF IsFold
    <3>2. 1..0 = {}
      OBVIOUS
    <3> QED  BY <3>1, <3>2
  <2>n. n \in Nat \ {0} /\ n - 1 \in 0..Len(events) /\ ~(n <= n - 1)
    BY <1>0, <2>3
  <2>4. PICK f : IsFold(f, what, base, events, 1..n - 1)
    BY <2>2, <2>n
  <2> DEFINE g == [s \in SUBSET (1..n) |->
                     IF n \in s THEN Folded(what, f[s \ {n}], events[n]) ELSE f[s]]
  <2>5. ASSUME NEW s \in SUBSET (1..n)
        PROVE  g[s] = IF s = {} THEN base
                      ELSE Folded(what, g[s \ {Responses!Max(s)}], events[Responses!Max(s)])
    <3>1. CASE n \in s
      <4>1. Responses!Max(s) = n
        <5> HIDE DEF T
        <5> QED  BY <2>n, <3>1, MaxOfPrefix
      <4>2. s \ {n} \in SUBSET (1..n) /\ n \notin s \ {n} /\ s # {}
        BY <3>1
      <4>3. g[s \ {n}] = f[s \ {n}] /\ g[s] = Folded(what, f[s \ {n}], events[n])
        BY <3>1, <4>2
      <4> QED  BY <4>1, <4>2, <4>3
    <3>2. CASE n \notin s
      <4>1. s \in SUBSET (1..n - 1)
        <5> HIDE DEF T
        <5> QED  BY <2>n, <3>2
      <4>2. CASE s = {}
        BY <2>4, <4>1, <4>2 DEF IsFold
      <4>3. CASE s # {}
        <5> DEFINE rest == s \ {Responses!Max(s)}
        <5>1. n \notin rest /\ rest \in SUBSET (1..n) /\ rest \in SUBSET (1..n - 1)
          BY <3>2, <4>1
        <5>2. f[s] = Folded(what, f[rest], events[Responses!Max(s)])
          BY <2>4, <4>1, <4>3, Zenon DEF IsFold
        <5>3. g[rest] = f[rest] /\ g[s] = f[s]
          BY <3>2, <5>1, Zenon
        <5> QED  BY <4>3, <5>2, <5>3, Zenon
      <4> QED  BY <4>2, <4>3
    <3> QED  BY <3>1, <3>2
  <2>6. IsFold(g, what, base, events, 1..n)
    <3>1. g = [s \in SUBSET (1..n) |-> g[s]]
      OBVIOUS
    <3> HIDE DEF g
    <3>2. [s \in SUBSET (1..n) |-> g[s]]
            = [s \in SUBSET (1..n) |-> IF s = {} THEN base
                  ELSE Folded(what, g[s \ {Responses!Max(s)}], events[Responses!Max(s)])]
      BY <2>5, Zenon
    <3> QED  BY <3>1, <3>2, Zenon DEF IsFold
  <2> QED  BY <2>2, <2>6
<1>2. ~(Len(events) \in T)
  BY <1>1
<1>3. \E f : IsFold(f, what, base, events, 1..Len(events))
  BY <1>0, <1>2
<1> QED  BY <1>0, <1>3

(* and the folds of the module are values of it. *)
LEMMA FoldsAreValues ==
  ASSUME NEW S, NEW events \in Seq(S)
  PROVE  /\ \E f : /\ IsFold(f, "kept", <<>>, events, DOMAIN events)
                   /\ Responses!FoldLeft(Responses!Keep, <<>>, events) = f[DOMAIN events]
         /\ \E f : /\ IsFold(f, "card", "running", events, DOMAIN events)
                   /\ Responses!FoldLeft(Responses!Reduce, "running", events) = f[DOMAIN events]
<1> DEFINE KeptFold(f) ==
             f = [s \in SUBSET DOMAIN events |->
                    IF s = {} THEN <<>>
                    ELSE Responses!Keep(f[s \ {Responses!Max(s)}], events[Responses!Max(s)])]
           CardFold(f) ==
             f = [s \in SUBSET DOMAIN events |->
                    IF s = {} THEN "running"
                    ELSE Responses!Reduce(f[s \ {Responses!Max(s)}], events[Responses!Max(s)])]
<1>1. \A f : IsFold(f, "kept", <<>>, events, DOMAIN events) <=> KeptFold(f)
  BY Zenon DEF IsFold, Folded
<1>2. \A f : IsFold(f, "card", "running", events, DOMAIN events) <=> CardFold(f)
  <2>1. "card" # "kept"
    OBVIOUS
  <2> QED  BY <2>1, Zenon DEF IsFold, Folded
<1>3. Responses!FoldLeft(Responses!Keep, <<>>, events) = (CHOOSE f : KeptFold(f))[DOMAIN events]
  BY Zenon DEF Responses!FoldLeft, Responses!MapThenFoldSet
<1>4. Responses!FoldLeft(Responses!Reduce, "running", events) = (CHOOSE f : CardFold(f))[DOMAIN events]
  BY Zenon DEF Responses!FoldLeft, Responses!MapThenFoldSet
<1> HIDE DEF KeptFold, CardFold
<1>5. KeptFold(CHOOSE f : KeptFold(f)) /\ CardFold(CHOOSE f : CardFold(f))
  <2>1. (\E f : KeptFold(f)) /\ \E f : CardFold(f)
    BY <1>1, <1>2, FoldExists
  <2> QED  BY <2>1, Zenon
<1> QED  BY <1>1, <1>2, <1>3, <1>4, <1>5

(* One step of a fold. *)
LEMMA FoldSteps ==
  ASSUME NEW what, NEW base, NEW events, NEW n \in Nat, NEW f, IsFold(f, what, base, events, 1..n)
  PROVE  /\ f[1..0] = base
         /\ \A k \in 1..n, j \in 0..n : k = j + 1 => f[1..k] = Folded(what, f[1..j], events[k])
<1>1. 1..0 = {} /\ {} \in SUBSET (1..n)
  OBVIOUS
<1>2. f[1..0] = base
  BY <1>1 DEF IsFold
<1>3. ASSUME NEW k \in 1..n, NEW j \in 0..n, k = j + 1
      PROVE  f[1..k] = Folded(what, f[1..j], events[k])
  <2>1. /\ 1..k \in SUBSET (1..n) /\ 1..k # {} /\ (1..k) \ {k} = 1..j
        /\ k \in Nat \ {0} /\ k \in 1..k /\ 1..k \in SUBSET (1..k)
    BY <1>3
  <2>2. Responses!Max(1..k) = k
    BY <2>1, MaxOfPrefix
  <2> QED  BY <2>1, <2>2, Zenon DEF IsFold
<1> QED  BY <1>2, <1>3

(* A log of the request: it begins with the prompt, which is not repeated. *)
OfRequest(events) ==
  /\ events \in Seq(Responses!Steps) /\ Len(events) > 0 /\ events[1] = "prompt"
  /\ \A i \in 2..Len(events) : events[i] # "prompt"

(* A response was begun before the n-th event. *)
BegunIn(events, n) == \E i \in 2..n : events[i] = "started"

Kept == {<<>>, <<"prompt">>, <<"prompt", "started">>, <<"prompt", "failed">>}

(* What is kept of a log: the prompt alone only if no response was begun. *)
LEMMA KeptOfLog ==
  ASSUME NEW events, OfRequest(events)
  PROVE  LET kept == Responses!FoldLeft(Responses!Keep, <<>>, events)
         IN /\ kept \in Kept
            /\ BegunIn(events, Len(events)) => kept # <<"prompt">>
            /\ Len(events) = 1 => kept = <<"prompt">>
<1> DEFINE len == Len(events)
<1>0. /\ DOMAIN events = 1..len /\ len \in Nat \ {0} /\ events \in Seq(Responses!Steps)
      /\ \A i \in 1..len : events[i] \in Responses!Steps
  BY LenProperties, ElementOfSeq DEF OfRequest
<1>1. PICK f : /\ IsFold(f, "kept", <<>>, events, 1..len)
               /\ Responses!FoldLeft(Responses!Keep, <<>>, events) = f[1..len]
  BY <1>0, FoldsAreValues
<1>2. /\ f[1..0] = <<>>
      /\ \A k \in 1..len, j \in 0..len : k = j + 1 => f[1..k] = Responses!Keep(f[1..j], events[k])
  BY <1>0, <1>1, FoldSteps DEF Folded
<1>3. f[1..1] = <<"prompt">>
  <2>1. f[1..1] = Responses!Keep(f[1..0], events[1])
    <3>1. 1 \in 1..len /\ 0 \in 0..len /\ 1 = 0 + 1
      BY <1>0
    <3> QED  BY <1>2, <3>1
  <2> QED  BY <1>2, <2>1 DEF Responses!Keep, OfRequest
<1> DEFINE Good(k) == f[1..k] \in Kept /\ (BegunIn(events, k) => f[1..k] # <<"prompt">>)
           T == {k \in 1..len : ~Good(k)}
<1>4. T = {}
  <2> SUFFICES ASSUME T # {} PROVE FALSE
    OBVIOUS
  <2>1. T \subseteq Nat
    BY <1>0
  <2>2. PICK k \in T : \A y \in T : k <= y
    <3> HIDE DEF T
    <3> QED  BY <2>1, Smallest
  <2>3. k # 1
    <3>1. Good(1)
      BY <1>3 DEF Kept, BegunIn
    <3> QED  BY <2>2, <3>1
  <2>4. k \in 2..len /\ k - 1 \in 1..len /\ ~(k <= k - 1)
    BY <1>0, <2>2, <2>3
  <2>5. Good(k - 1)
    BY <2>2, <2>4
  <2> DEFINE before == f[1..k - 1]
             event == events[k]
  <2>6. /\ f[1..k] = Responses!Keep(before, event)
        /\ before \in Kept /\ event \in Responses!Steps /\ event # "prompt"
    <3>1. k \in 1..len /\ k - 1 \in 0..len /\ k = (k - 1) + 1
      BY <1>0, <2>4
    <3>2. f[1..k] = Responses!Keep(f[1..k - 1], events[k])
      BY <1>2, <3>1
    <3> QED  BY <1>0, <2>4, <2>5, <3>1, <3>2 DEF OfRequest
  <2>7. BegunIn(events, k) => BegunIn(events, k - 1) \/ event = "started"
    BY <2>4 DEF BegunIn
  <2>8. BegunIn(events, k - 1) => before # <<"prompt">>
    BY <2>5
  <2> HIDE DEF before, event, T
  <2>9. f[1..k] \in Kept /\ (BegunIn(events, k) => f[1..k] # <<"prompt">>)
    <3>1. CASE event \in {"started", "failed"}
      <4>1. f[1..k] = IF before # <<>> THEN <<"prompt", event>> ELSE before
        BY <2>6, <3>1 DEF Responses!Keep
      <4>2. <<"prompt", "started">> # <<"prompt">> /\ <<"prompt", "failed">> # <<"prompt">> /\ <<>> # <<"prompt">>
        OBVIOUS
      <4> QED  BY <2>6, <3>1, <4>1, <4>2 DEF Kept
    <3>2. CASE event \in {"resolved", "withdrawn"}
      <4>1. f[1..k] = <<>>
        BY <2>6, <3>2 DEF Responses!Keep
      <4> QED  BY <4>1 DEF Kept
    <3>3. CASE event \notin {"started", "failed", "resolved", "withdrawn"}
      <4>1. f[1..k] = before
        BY <2>6, <3>3 DEF Responses!Keep
      <4> QED  BY <2>6, <2>7, <2>8, <3>3, <4>1
    <3> QED  BY <3>1, <3>2, <3>3
  <2> QED  BY <2>2, <2>9 DEF T
<1>5. Good(len)
  BY <1>0, <1>4
<1>6. len = 1 => f[1..len] = <<"prompt">>
  BY <1>3
<1> QED  BY <1>1, <1>5, <1>6

(* The last state of the run in a log is one of three, or there is none. *)
LEMMA LastStateOf ==
  ASSUME NEW events, OfRequest(events)
  PROVE  /\ Responses!LastState(events) \in {<<>>, <<"spawning">>, <<"running">>, <<"idle">>}
         /\ Len(events) = 1 => Responses!LastState(events) = <<>>
<1> DEFINE back == Responses!Reverse(events)
           Running(e) == e \in {"spawning", "running", "idle"}
           I == {i \in 1..Len(back) : Running(back[i])}
           states == IF I # {} THEN Responses!Min(I) ELSE 0
<1>1. Responses!LastState(events) = IF states = 0 THEN <<>> ELSE <<back[states]>>
  BY Zenon DEF Responses!LastState, Responses!SelectInSeq
<1>2. I # {} => Responses!Min(I) \in I
  <2> SUFFICES ASSUME I # {} PROVE Responses!Min(I) \in I
    OBVIOUS
  <2>1. I \subseteq Nat
    OBVIOUS
  <2> HIDE DEF I
  <2>2. \E x \in I : \A y \in I : x <= y
    BY <2>1, Smallest
  <2> QED  BY <2>2, Zenon DEF Responses!Min
<1>3. states # 0 => Running(back[states])
  BY <1>2
<1>4. Len(events) = 1 => I = {}
  <2> SUFFICES ASSUME Len(events) = 1 PROVE I = {}
    OBVIOUS
  <2>1. Len(back) = 1 /\ back[1] = "prompt"
    BY DEF Responses!Reverse, OfRequest
  <2> QED  BY <2>1
<1> QED  BY <1>1, <1>3, <1>4

Cards == {"none", "prompt", "pending", "running", "failed", "error"}

(* The card a page is loaded with: it offers the request only if no response *)
(* was begun, and if nothing else has happened it does.                     *)
LEMMA CardOfSummary ==
  ASSUME NEW events, OfRequest(events)
  PROVE  /\ Responses!SummaryCard(events) \in Cards
         /\ BegunIn(events, Len(events)) => Responses!SummaryCard(events) # "prompt"
         /\ Len(events) = 1 => Responses!SummaryCard(events) = "prompt"
<1> DEFINE kept == Responses!FoldLeft(Responses!Keep, <<>>, events)
           state == Responses!LastState(events)
           replay == kept \o state
<1>1. Responses!SummaryCard(events) = Responses!FoldLeft(Responses!Reduce, "running", replay)
  <2>1. events # <<>>
    BY DEF OfRequest
  <2> QED  BY <2>1, Zenon DEF Responses!SummaryCard
<1>2. /\ kept \in Kept /\ (BegunIn(events, Len(events)) => kept # <<"prompt">>)
      /\ Len(events) = 1 => kept = <<"prompt">>
  BY KeptOfLog
<1>3. /\ state \in {<<>>, <<"spawning">>, <<"running">>, <<"idle">>}
      /\ Len(events) = 1 => state = <<>>
  BY LastStateOf
<1> HIDE DEF kept, state
<1>s. kept \in Seq(Responses!Steps) /\ state \in Seq(Responses!Steps)
  <2>0. \A e \in Responses!Steps : <<>> \in Seq(Responses!Steps) /\ <<e>> \in Seq(Responses!Steps)
    OBVIOUS
  <2>1. \A e \in Responses!Steps, d \in Responses!Steps : <<d, e>> \in Seq(Responses!Steps)
    OBVIOUS
  <2>2. {"prompt", "started", "failed", "spawning", "running", "idle"} \subseteq Responses!Steps
    BY DEF Responses!Steps
  <2>3. /\ <<>> \in Seq(Responses!Steps)
        /\ <<"prompt">> \in Seq(Responses!Steps) /\ <<"spawning">> \in Seq(Responses!Steps)
        /\ <<"running">> \in Seq(Responses!Steps) /\ <<"idle">> \in Seq(Responses!Steps)
    BY <2>0, <2>2
  <2>4. /\ <<"prompt", "started">> \in Seq(Responses!Steps)
        /\ <<"prompt", "failed">> \in Seq(Responses!Steps)
    BY <2>1, <2>2
  <2>5. kept \in Seq(Responses!Steps)
    BY <1>2, <2>3, <2>4, Zenon DEF Kept
  <2>6. state \in Seq(Responses!Steps)
    BY <1>3, <2>3, Zenon
  <2> QED  BY <2>5, <2>6
<1>4. replay \in Seq(Responses!Steps)
  BY <1>s, ConcatProperties
<1>5. PICK f : /\ IsFold(f, "card", "running", replay, DOMAIN replay)
               /\ Responses!FoldLeft(Responses!Reduce, "running", replay) = f[DOMAIN replay]
  BY <1>4, FoldsAreValues
<1> DEFINE n == Len(replay)
<1>6. DOMAIN replay = 1..n /\ n \in Nat
  BY <1>4, LenProperties
<1>7. /\ f[1..0] = "running"
      /\ \A k \in 1..n, j \in 0..n : k = j + 1 => f[1..k] = Responses!Reduce(f[1..j], replay[k])
  <2>1. "card" # "kept"
    OBVIOUS
  <2> HIDE DEF replay, n
  <2>2. IsFold(f, "card", "running", replay, 1..n)
    BY <1>5, <1>6
  <2>3. \A k \in 1..n, j \in 0..n : k = j + 1 => f[1..k] = Folded("card", f[1..j], replay[k])
    BY <1>6, <2>2, FoldSteps
  <2>4. f[1..0] = "running"
    <3>1. 1..0 = {} /\ {} \in SUBSET (1..n)
      OBVIOUS
    <3> QED  BY <2>2, <3>1, Zenon DEF IsFold
  <2> QED  BY <2>1, <2>3, <2>4 DEF Folded
<1>8. /\ n = Len(kept) + Len(state)
      /\ \A k \in 1..n : replay[k] = IF k <= Len(kept) THEN kept[k] ELSE state[k - Len(kept)]
  BY <1>s, ConcatProperties
<1> DEFINE card1 == f[1..1]
           card2 == f[1..2]
           card3 == f[1..3]
<1>9. /\ n >= 1 => card1 = Responses!Reduce("running", replay[1])
      /\ n >= 2 => card2 = Responses!Reduce(card1, replay[2])
      /\ n >= 3 => card3 = Responses!Reduce(card2, replay[3])
  <2> HIDE DEF n, replay
  <2>1. n >= 1 => f[1..1] = Responses!Reduce(f[1..0], replay[1])
    <3>1. n >= 1 => 1 \in 1..n /\ 0 \in 0..n /\ 1 = 0 + 1
      BY <1>6
    <3> QED  BY <1>7, <3>1
  <2>2. n >= 2 => f[1..2] = Responses!Reduce(f[1..1], replay[2])
    <3>1. n >= 2 => 2 \in 1..n /\ 1 \in 0..n /\ 2 = 1 + 1
      BY <1>6
    <3> QED  BY <1>7, <3>1
  <2>3. n >= 3 => f[1..3] = Responses!Reduce(f[1..2], replay[3])
    <3>1. n >= 3 => 3 \in 1..n /\ 2 \in 0..n /\ 3 = 2 + 1
      BY <1>6
    <3> QED  BY <1>7, <3>1
  <2> QED  BY <1>7, <2>1, <2>2, <2>3
<1>10. Responses!SummaryCard(events)
         = IF n = 0 THEN "running" ELSE IF n = 1 THEN card1 ELSE IF n = 2 THEN card2 ELSE f[1..n]
  BY <1>1, <1>5, <1>6, <1>7
<1>11. n <= 3 /\ (n = 3 => f[1..n] = card3)
  <2>1. Len(kept) \in {0, 1, 2}
    BY <1>2 DEF Kept
  <2>2. Len(state) \in {0, 1}
    BY <1>3
  <2> HIDE DEF n, replay
  <2>3. n <= 3
    BY <1>8, <2>1, <2>2
  <2>4. n = 3 => f[1..n] = card3
    OBVIOUS
  <2> QED  BY <2>3, <2>4
<1> HIDE DEF n, replay, card1, card2, card3
<1>12. CASE kept = <<>>
  <2>1. n = Len(state) /\ (n = 1 => replay[1] = state[1]) /\ n <= 1
    BY <1>3, <1>8, <1>12
  <2>2. n = 1 => card1 \in {"running", "error"}
    <3>1. n = 1 => replay[1] \in {"spawning", "running", "idle"} /\ card1 = Responses!Reduce("running", replay[1])
      <4>1. Len(state) = 1 => state[1] \in {"spawning", "running", "idle"}
        BY <1>3
      <4> QED  BY <1>9, <2>1, <4>1
    <3> QED  BY <3>1 DEF Responses!Reduce
  <2>3. kept # <<"prompt">>
    BY <1>12
  <2> QED  BY <1>2, <1>10, <2>1, <2>2, <2>3 DEF Cards
<1>13. CASE kept = <<"prompt">>
  <2>1. /\ n = 1 + Len(state) /\ replay[1] = "prompt" /\ (n = 2 => replay[2] = state[1])
        /\ n \in {1, 2} /\ (n = 1 => state = <<>>) /\ (state = <<>> => n = 1)
    BY <1>3, <1>8, <1>13
  <2>2. card1 = "prompt"
    BY <1>9, <2>1 DEF Responses!Reduce
  <2>3. n = 2 => card2 \in {"prompt", "error"}
    BY <1>3, <1>9, <2>1, <2>2 DEF Responses!Reduce
  <2> QED  BY <1>2, <1>3, <1>10, <1>13, <2>1, <2>2, <2>3 DEF Cards
<1>14. CASE kept \in {<<"prompt", "started">>, <<"prompt", "failed">>}
  <2>1. /\ replay[1] = "prompt" /\ replay[2] \in {"started", "failed"}
        /\ n \in {2, 3} /\ (n = 3 => replay[3] \in {"spawning", "running", "idle"})
    <3>1. /\ Len(kept) = 2 /\ kept[1] = "prompt" /\ kept[2] \in {"started", "failed"}
      BY <1>14
    <3>2. Len(state) \in {0, 1} /\ (Len(state) = 1 => state[1] \in {"spawning", "running", "idle"})
      BY <1>3
    <3> QED  BY <1>8, <3>1, <3>2
  <2>2. card1 = "prompt"
    BY <1>9, <2>1 DEF Responses!Reduce
  <2>3. card2 \in {"pending", "failed"}
    BY <1>9, <2>1, <2>2 DEF Responses!Reduce
  <2>4. n = 3 => card3 = card2
    BY <1>9, <2>1, <2>3 DEF Responses!Reduce
  <2>5. kept # <<"prompt">>
    BY <1>14
  <2> QED  BY <1>2, <1>10, <1>11, <2>1, <2>3, <2>4, <2>5 DEF Cards
<1> QED  BY <1>2, <1>12, <1>13, <1>14 DEF Kept

(* What the actor of the session does, for whom. *)
Sessions ==
  [alive : BOOLEAN, pending : BOOLEAN, step : {"loop", "write", "failed", "resolved"},
   for : Pages \cup {Responses!Nobody}]

(* The shape of the state: a prompt that waits is not being answered, a      *)
(* response is written at most once and only after it was begun.            *)
ResponseShape ==
  /\ OfRequest(log)
  /\ session \in Sessions
  /\ answers \in {0, 1}
  /\ card \in [Pages -> Cards] /\ cursor \in [Pages -> 0..Len(log)]
  /\ call \in [Pages -> {"none", "sent", "ok", "notStarted", "uncertain"}]
  /\ ghost \in BOOLEAN /\ blind \subseteq Pages
  /\ session.pending => session.alive /\ session.step = "loop"
  /\ session.pending \/ session.step = "write" => answers = 0
  /\ session.step # "loop" \/ answers = 1 => BegunIn(log, Len(log))

\* A page that has processed the begin of a response does not offer the request.
NotOffered == \A p \in Pages : BegunIn(log, cursor[p]) => card[p] # "prompt"

\* While the CLI waits and nobody has begun to answer, nothing but the prompt
\* is in the log, and every page that has heard of its call's end offers it.
Waiting == session.pending /\ "withdrawn" \notin Responses!Range(log) /\ ~ghost

StillWaiting ==
  Waiting =>
    /\ Len(log) = 1
    /\ \A p \in Pages \ blind : /\ call[p] \in {"none", "sent", "notStarted"}
                                /\ cursor[p] = 1 => card[p] = "prompt"

ResponseInv == ResponseShape /\ NotOffered /\ StillWaiting

(* What an event appended to the log leaves as it is. *)
LEMMA LogGrows ==
  ASSUME OfRequest(log), NEW more \in Seq(Responses!Steps), log' = log \o more,
         \A i \in 1..Len(more) : more[i] # "prompt"
  PROVE  /\ OfRequest(log') /\ Len(log') = Len(log) + Len(more) /\ Len(log) \in Nat /\ Len(more) \in Nat
         /\ \A n \in 0..Len(log) : BegunIn(log', n) <=> BegunIn(log, n)
         /\ BegunIn(log, Len(log)) => BegunIn(log', Len(log'))
         /\ \A i \in 1..Len(more) : log'[Len(log) + i] = more[i]
         /\ Responses!Range(log) \subseteq Responses!Range(log')
         /\ \A i \in 1..Len(more) : more[i] \in Responses!Range(log')
<1>1. /\ log' \in Seq(Responses!Steps) /\ Len(log') = Len(log) + Len(more)
      /\ Len(log) \in Nat \ {0} /\ Len(more) \in Nat
      /\ \A i \in 1..Len(log) + Len(more) : log'[i] = IF i <= Len(log) THEN log[i] ELSE more[i - Len(log)]
      /\ DOMAIN log = 1..Len(log) /\ DOMAIN log' = 1..Len(log')
  <2>1. log \in Seq(Responses!Steps) /\ Len(log) > 0
    BY DEF OfRequest
  <2> QED  BY <2>1, ConcatProperties, LenProperties
<1>2. /\ \A i \in 1..Len(log) : log'[i] = log[i]
      /\ \A i \in 1..Len(more) : log'[Len(log) + i] = more[i]
  BY <1>1
<1>3. OfRequest(log')
  <2>1. log'[1] = "prompt"
    BY <1>1, <1>2 DEF OfRequest
  <2>2. ASSUME NEW i \in 2..Len(log') PROVE log'[i] # "prompt"
    <3>1. CASE i <= Len(log)
      BY <1>1, <1>2, <3>1 DEF OfRequest
    <3>2. CASE i > Len(log)
      <4>1. i - Len(log) \in 1..Len(more) /\ log'[i] = more[i - Len(log)]
        BY <1>1, <3>2
      <4> QED  BY <4>1
    <3> QED  BY <1>1, <3>1, <3>2
  <2> QED  BY <1>1, <2>1, <2>2 DEF OfRequest
<1>4. \A n \in 0..Len(log) : BegunIn(log', n) <=> BegunIn(log, n)
  BY <1>1, <1>2 DEF BegunIn
<1>5. BegunIn(log, Len(log)) => BegunIn(log', Len(log'))
  BY <1>1, <1>2 DEF BegunIn
<1>6. Responses!Range(log) \subseteq Responses!Range(log')
  BY <1>1, <1>2 DEF Responses!Range
<1>7. \A i \in 1..Len(more) : more[i] \in Responses!Range(log')
  <2> SUFFICES ASSUME NEW i \in 1..Len(more) PROVE more[i] \in Responses!Range(log')
    OBVIOUS
  <2>1. Len(log) + i \in DOMAIN log' /\ log'[Len(log) + i] = more[i]
    BY <1>1, <1>2
  <2> QED  BY <2>1 DEF Responses!Range
<1> QED  BY <1>1, <1>2, <1>3, <1>4, <1>5, <1>6, <1>7

(* persist_and_emit_durable: the log as it is, or one event longer. *)
LEMMA Persisted ==
  ASSUME OfRequest(log), ghost \in BOOLEAN, NEW event \in Responses!Steps \ {"prompt"}, NEW ok \in BOOLEAN,
         Responses!Persist(event, ok)
  PROVE  /\ OfRequest(log') /\ ghost' \in BOOLEAN /\ Len(log) <= Len(log')
         /\ \A n \in 0..Len(log) : BegunIn(log', n) <=> BegunIn(log, n)
         /\ BegunIn(log, Len(log)) => BegunIn(log', Len(log'))
         /\ ok /\ event = "started" => BegunIn(log', Len(log'))
         /\ ~ok /\ ~ghost' => log' = log /\ ~ghost
<1>1. CASE log' = Append(log, event)
  <2>1. log' = log \o <<event>> /\ <<event>> \in Seq(Responses!Steps) /\ Len(<<event>>) = 1 /\ <<event>>[1] = event
    BY <1>1, AppendIsConcat DEF OfRequest
  <2> DEFINE more == <<event>>
  <2>2. more \in Seq(Responses!Steps) /\ Len(more) = 1 /\ more[1] = event /\ log' = log \o more
    BY <2>1
  <2> HIDE DEF more
  <2>3. \A i \in 1..Len(more) : more[i] # "prompt"
    BY <2>2
  <2>4. /\ OfRequest(log') /\ Len(log') = Len(log) + Len(more) /\ Len(log) \in Nat
        /\ \A n \in 0..Len(log) : BegunIn(log', n) <=> BegunIn(log, n)
        /\ BegunIn(log, Len(log)) => BegunIn(log', Len(log'))
        /\ \A i \in 1..Len(more) : log'[Len(log) + i] = more[i]
    BY <2>2, <2>3, LogGrows
  <2>5. event = "started" => BegunIn(log', Len(log'))
    <3>1. Len(log) + 1 \in 2..Len(log') /\ log'[Len(log) + 1] = event
      BY <2>2, <2>4 DEF OfRequest
    <3> QED  BY <3>1 DEF BegunIn
  <2>6. ghost' \in BOOLEAN /\ (~ok => ghost')
    <3>1. Len(log') # Len(log)
      BY <2>2, <2>4
    <3> QED  BY <3>1 DEF Responses!Persist
  <2> QED  BY <2>2, <2>4, <2>5, <2>6
<1>2. CASE UNCHANGED <<log, ghost>> /\ ~ok
  <2>1. Len(log) \in Nat
    BY LenProperties DEF OfRequest
  <2> QED  BY <1>2, <2>1
<1> QED  BY <1>1, <1>2 DEF Responses!Persist

(* The session of a run that is resumed, and of one whose CLI asks. *)
LEMMA FreshSession ==
  ASSUME NEW s, s = [Responses!Silent EXCEPT !.alive = TRUE]
  PROVE  s \in Sessions /\ ~s.pending /\ s.step = "loop"
BY DEF Responses!Silent, Sessions

LEMMA AskingSession ==
  ASSUME NEW s, s = [Responses!Silent EXCEPT !.alive = TRUE, !.pending = TRUE]
  PROVE  s \in Sessions /\ s.alive /\ s.step = "loop"
BY DEF Responses!Silent, Sessions

LEMMA ResponseInvStarts == Responses!Init => ResponseInv
<1> SUFFICES ASSUME Responses!Init PROVE ResponseInv
  OBVIOUS
<1> USE DEF Responses!Init
<1>1. OfRequest(log) /\ Len(log) = 1 /\ ~BegunIn(log, 1) /\ ~BegunIn(log, 0)
  BY DEF OfRequest, BegunIn, Responses!Steps
<1>2. ResponseShape
  <2>1. session \in Sessions /\ session.alive /\ session.step = "loop"
    BY AskingSession
  <2>2. cursor \in [Pages -> 0..Len(log)]
    BY <1>1
  <2>3. /\ answers = 0 /\ card \in [Pages -> Cards] /\ ghost = FALSE /\ blind = {}
        /\ call \in [Pages -> {"none", "sent", "ok", "notStarted", "uncertain"}]
    BY DEF Cards
  <2> HIDE DEF Responses!Init
  <2>4. /\ session.pending => session.alive /\ session.step = "loop"
        /\ session.pending \/ session.step = "write" => answers = 0
        /\ session.step # "loop" \/ answers = 1 => BegunIn(log, Len(log))
    BY <2>1, <2>3
  <2>5. answers \in {0, 1} /\ ghost \in BOOLEAN /\ blind \subseteq Pages
    BY <2>3
  <2> QED  BY <1>1, <2>1, <2>2, <2>3, <2>4, <2>5, Zenon DEF ResponseShape
<1>3. NotOffered
  BY <1>1 DEF NotOffered
<1>4. StillWaiting
  BY <1>1 DEF StillWaiting
<1> QED  BY <1>2, <1>3, <1>4 DEF ResponseInv

(* A page is loaded from the summary of a prefix. *)
LEMMA LoadKeeps == ASSUME ResponseInv, NEW p \in Pages, Responses!Load(p) PROVE ResponseInv'
<1> USE DEF ResponseInv
<1>1. PICK n \in 0..Len(log) :
        /\ cursor' = [cursor EXCEPT ![p] = n]
        /\ card' = [card EXCEPT ![p] =
             IF ~session.alive /\ Responses!SummaryCard(SubSeq(log, 1, n)) \in {"prompt", "running"}
             THEN "error" ELSE Responses!SummaryCard(SubSeq(log, 1, n))]
  BY DEF Responses!Load
<1>2. /\ call[p] = "none" /\ blind' = blind \ {p}
      /\ UNCHANGED <<log, session, answers, call, ghost>>
  BY DEF Responses!Load
<1> DEFINE events == SubSeq(log, 1, n)
           shown == Responses!SummaryCard(events)
<1>3. /\ shown \in Cards /\ (BegunIn(log, n) => shown # "prompt")
      /\ Len(log) = 1 /\ n = 1 => shown = "prompt"
  <2>1. CASE n = 0
    <3>1. events = <<>>
      BY <2>1, SubSeqEmpty
    <3>2. shown = "none"
      BY <3>1, Zenon DEF Responses!SummaryCard
    <3>3. ~BegunIn(log, n)
      BY <2>1 DEF BegunIn
    <3> QED  BY <2>1, <3>2, <3>3 DEF Cards
  <2>2. CASE n # 0
    <3>0. /\ log \in Seq(Responses!Steps) /\ n \in 1..Len(log) /\ Len(log) \in Nat
          /\ \A i \in 1..n : log[i] \in Responses!Steps
      BY <2>2, LenProperties, ElementOfSeq DEF ResponseShape, OfRequest
    <3>1. /\ events \in Seq(Responses!Steps) /\ Len(events) = n
          /\ \A i \in 1..n : events[i] = log[i]
      BY <3>0, SubSeqProperties
    <3> HIDE DEF events
    <3>2. OfRequest(events)
      <4>1. Len(events) > 0 /\ events[1] = "prompt"
        BY <3>0, <3>1 DEF ResponseShape, OfRequest
      <4>2. \A i \in 2..n : log[i] # "prompt" /\ events[i] = log[i]
        BY <3>0, <3>1 DEF ResponseShape, OfRequest
      <4> QED  BY <3>1, <4>1, <4>2 DEF OfRequest
    <3>3. BegunIn(log, n) => BegunIn(events, Len(events))
      BY <3>0, <3>1 DEF BegunIn
    <3>4. n = 1 => Len(events) = 1
      BY <3>1
    <3> QED  BY <3>2, <3>3, <3>4, CardOfSummary
  <2> QED  BY <2>1, <2>2
<1> HIDE DEF shown
<1>4. card' = [card EXCEPT ![p] = IF ~session.alive /\ shown \in {"prompt", "running"} THEN "error" ELSE shown]
  BY <1>1 DEF shown
<1>5. ResponseShape'
  BY <1>1, <1>2, <1>3, <1>4 DEF ResponseShape, Cards
<1>6. NotOffered'
  <2> SUFFICES ASSUME NEW q \in Pages, BegunIn(log, cursor'[q]) PROVE card'[q] # "prompt"
    BY <1>2 DEF NotOffered
  <2>1. CASE q = p
    BY <1>1, <1>3, <1>4, <2>1 DEF ResponseShape
  <2>2. CASE q # p
    BY <1>1, <1>4, <2>2 DEF NotOffered, ResponseShape
  <2> QED  BY <2>1, <2>2
<1>7. StillWaiting'
  <2> SUFFICES ASSUME Waiting
               PROVE  /\ Len(log) = 1
                      /\ \A q \in Pages \ blind' : /\ call[q] \in {"none", "sent", "notStarted"}
                                                   /\ cursor'[q] = 1 => card'[q] = "prompt"
    BY <1>2 DEF StillWaiting, Waiting, Responses!Range
  <2>1. Len(log) = 1 /\ session.alive
    BY DEF Waiting, StillWaiting, ResponseShape
  <2>2. ASSUME NEW q \in Pages \ blind'
        PROVE  call[q] \in {"none", "sent", "notStarted"} /\ (cursor'[q] = 1 => card'[q] = "prompt")
    <3>1. CASE q = p
      BY <1>1, <1>2, <1>3, <1>4, <2>1, <3>1 DEF ResponseShape
    <3>2. CASE q # p
      BY <1>1, <1>2, <1>4, <2>2, <3>2 DEF StillWaiting, ResponseShape
    <3> QED  BY <3>1, <3>2
  <2> QED  BY <2>1, <2>2
<1> QED  BY <1>5, <1>6, <1>7

(* The next event reaches a page. *)
LEMMA DeliverKeeps == ASSUME ResponseInv, NEW p \in Pages, Responses!Deliver(p) PROVE ResponseInv'
<1> USE DEF ResponseInv
<1> DEFINE n == cursor[p] + 1
           shown == Responses!Reduce(card[p], log[n])
<1>1. /\ cursor' = [cursor EXCEPT ![p] = n] /\ card' = [card EXCEPT ![p] = shown]
      /\ n \in 1..Len(log) /\ cursor[p] \in Nat
      /\ UNCHANGED <<log, session, answers, call, ghost, blind>>
  BY DEF Responses!Deliver, ResponseShape
<1>2. log[n] \in Responses!Steps /\ card[p] \in Cards
  BY <1>1, ElementOfSeq DEF ResponseShape, OfRequest
<1>3. shown \in Cards
  BY <1>2 DEF Responses!Reduce, Cards
<1>4. BegunIn(log, n) => shown # "prompt"
  <2> SUFFICES ASSUME BegunIn(log, n) PROVE shown # "prompt"
    OBVIOUS
  <2>1. n >= 2 /\ log[n] # "prompt"
    BY <1>1 DEF BegunIn, ResponseShape, OfRequest
  <2>2. CASE log[n] = "started"
    BY <1>2, <2>2 DEF Responses!Reduce
  <2>3. CASE BegunIn(log, cursor[p])
    <3>1. card[p] # "prompt"
      BY <2>3 DEF NotOffered
    <3> QED  BY <1>2, <2>1, <3>1 DEF Responses!Reduce
  <2> QED  BY <1>1, <2>2, <2>3 DEF BegunIn
<1>5. n = 1 => shown = "prompt"
  BY DEF Responses!Reduce, ResponseShape, OfRequest
<1> HIDE DEF n, shown
<1>6. ResponseShape'
  BY <1>1, <1>3 DEF ResponseShape
<1>7. NotOffered'
  BY <1>1, <1>4 DEF NotOffered, ResponseShape
<1>8. StillWaiting'
  <2> SUFFICES ASSUME Waiting
               PROVE  /\ Len(log) = 1
                      /\ \A q \in Pages \ blind : /\ call[q] \in {"none", "sent", "notStarted"}
                                                  /\ cursor'[q] = 1 => card'[q] = "prompt"
    BY <1>1 DEF StillWaiting, Waiting, Responses!Range
  <2> QED  BY <1>1, <1>5 DEF StillWaiting, ResponseShape
<1> QED  BY <1>6, <1>7, <1>8

(* The steps that leave the log, and where the pages are in it, as they are. *)
LEMMA PageKeeps ==
  ASSUME ResponseInv, NEW p \in Pages,
         Responses!Click(p) \/ Responses!Return(p) \/ Responses!GiveUp(p) \/ Responses!NoSession(p)
  PROVE  ResponseInv'
<1> USE DEF ResponseInv
<1>1. UNCHANGED <<log, answers, cursor, ghost>>
  BY DEF Responses!Click, Responses!Return, Responses!GiveUp, Responses!NoSession
<1>2. session' = session \/ session' = [session EXCEPT !.for = Responses!Nobody]
  BY DEF Responses!Click, Responses!Return, Responses!GiveUp, Responses!NoSession
<1>3. /\ card' \in [Pages -> Cards] /\ \A q \in Pages : card'[q] = "prompt" => card[q] = "prompt"
      /\ call' \in [Pages -> {"none", "sent", "ok", "notStarted", "uncertain"}]
      /\ blind \subseteq blind' /\ blind' \subseteq Pages
  <2>1. CASE Responses!Return(p)
    <3>1. /\ card' = [card EXCEPT ![p] =
               CASE call[p] = "ok" -> IF card[p] = "prompt" THEN "running" ELSE card[p]
                 [] call[p] = "uncertain" -> Responses!Reduce(card[p], "failed")
                 [] OTHER -> card[p]]
          /\ call' = [call EXCEPT ![p] = "none"] /\ UNCHANGED blind
      BY <2>1 DEF Responses!Return
    <3>2. /\ Responses!Reduce(card[p], "failed") \in Cards
          /\ Responses!Reduce(card[p], "failed") # "prompt"
      BY DEF Responses!Reduce, Cards, ResponseShape
    <3> QED  BY <3>1, <3>2 DEF ResponseShape, Cards
  <2>2. CASE ~Responses!Return(p)
    BY <2>2 DEF Responses!Click, Responses!GiveUp, Responses!NoSession, ResponseShape
  <2> QED  BY <2>1, <2>2
<1>4. ResponseShape'
  BY <1>1, <1>2, <1>3 DEF ResponseShape, Sessions
<1>5. NotOffered'
  BY <1>1, <1>3 DEF NotOffered
<1>6. StillWaiting'
  <2> SUFFICES ASSUME Waiting
               PROVE  /\ Len(log) = 1
                      /\ \A q \in Pages \ blind' : /\ call'[q] \in {"none", "sent", "notStarted"}
                                                   /\ cursor[q] = 1 => card'[q] = "prompt"
    BY <1>1, <1>2 DEF StillWaiting, Waiting, Responses!Range, ResponseShape, Sessions
  <2>1. /\ Len(log) = 1 /\ session.alive
        /\ \A q \in Pages \ blind : /\ call[q] \in {"none", "sent", "notStarted"}
                                    /\ cursor[q] = 1 => card[q] = "prompt"
    BY DEF Waiting, StillWaiting, ResponseShape
  <2>2. CASE Responses!Click(p)
    BY <2>1, <2>2 DEF Responses!Click, ResponseShape
  <2>3. CASE Responses!Return(p)
    BY <2>1, <2>3 DEF Responses!Return, ResponseShape
  <2>4. CASE Responses!GiveUp(p)
    BY <2>1, <2>4 DEF Responses!GiveUp, ResponseShape
  <2>5. CASE Responses!NoSession(p)
    BY <2>1, <2>5 DEF Responses!NoSession
  <2> QED  BY <2>1, <2>2, <2>3, <2>4, <2>5
<1> QED  BY <1>4, <1>5, <1>6

(* A call reaches the actor. *)
LEMMA BeginKeeps == ASSUME ResponseInv, NEW p \in Pages, Responses!Begin(p) PROVE ResponseInv'
<1> USE DEF ResponseInv
<1>1. /\ session.alive /\ session.step = "loop" /\ call[p] = "sent"
      /\ UNCHANGED <<answers, card, cursor, blind>>
  BY DEF Responses!Begin
<1>n. p # Responses!Nobody => [call EXCEPT ![p] = "notStarted"]
        \in [Pages -> {"none", "sent", "ok", "notStarted", "uncertain"}]
  BY DEF ResponseShape
<1>r. ASSUME Responses!Reply(p, "notStarted")
      PROVE  /\ call' \in [Pages -> {"none", "sent", "ok", "notStarted", "uncertain"}]
             /\ \A q \in Pages : call'[q] = call[q] \/ call'[q] = "notStarted"
  BY <1>r DEF Responses!Reply, ResponseShape
<1>2. CASE ~session.pending /\ Responses!Reply(p, "notStarted") /\ UNCHANGED <<log, session, ghost>>
  <2>1. ResponseShape'
    BY <1>1, <1>2, <1>r DEF ResponseShape
  <2>2. NotOffered'
    BY <1>1, <1>2 DEF NotOffered
  <2>3. StillWaiting'
    BY <1>1, <1>2 DEF StillWaiting, Waiting
  <2> QED  BY <2>1, <2>2, <2>3
<1>3. CASE /\ session.pending /\ Responses!Persist("started", FALSE) /\ Responses!Reply(p, "notStarted")
           /\ UNCHANGED session
  <2>1. "started" \in Responses!Steps \ {"prompt"} /\ FALSE \in BOOLEAN
    BY DEF Responses!Steps
  <2>2. /\ OfRequest(log') /\ ghost' \in BOOLEAN /\ Len(log) <= Len(log')
        /\ \A n \in 0..Len(log) : BegunIn(log', n) <=> BegunIn(log, n)
        /\ BegunIn(log, Len(log)) => BegunIn(log', Len(log'))
        /\ ~ghost' => log' = log /\ ~ghost
    BY <1>3, <2>1, Persisted DEF ResponseShape
  <2>n. Len(log) \in Nat /\ Len(log') \in Nat
    BY <2>2, LenProperties DEF OfRequest, ResponseShape
  <2>3. cursor \in [Pages -> 0..Len(log')]
    BY <2>2, <2>n DEF ResponseShape
  <2>4. ResponseShape'
    BY <1>1, <1>3, <1>r, <2>2, <2>3 DEF ResponseShape
  <2>5. NotOffered'
    BY <1>1, <2>2 DEF NotOffered, ResponseShape
  <2>6. StillWaiting'
    <3> SUFFICES ASSUME Waiting'
                 PROVE  /\ Len(log') = 1
                        /\ \A q \in Pages \ blind : /\ call'[q] \in {"none", "sent", "notStarted"}
                                                    /\ cursor[q] = 1 => card[q] = "prompt"
      BY <1>1 DEF StillWaiting
    <3>1. log' = log /\ Waiting
      BY <1>3, <2>2 DEF Waiting
    <3> QED  BY <1>3, <1>r, <3>1 DEF StillWaiting
  <2> QED  BY <2>4, <2>5, <2>6
<1>4. CASE /\ session.pending /\ Responses!Persist("started", TRUE)
           /\ session' = [session EXCEPT !.pending = FALSE, !.step = "write", !.for = p]
           /\ UNCHANGED call
  <2>1. "started" \in Responses!Steps \ {"prompt"} /\ TRUE \in BOOLEAN
    BY DEF Responses!Steps
  <2>2. /\ OfRequest(log') /\ ghost' \in BOOLEAN /\ Len(log) <= Len(log')
        /\ \A n \in 0..Len(log) : BegunIn(log', n) <=> BegunIn(log, n)
        /\ BegunIn(log', Len(log'))
    BY <1>4, <2>1, Persisted DEF ResponseShape
  <2>n. Len(log) \in Nat /\ Len(log') \in Nat
    BY <2>2, LenProperties DEF OfRequest, ResponseShape
  <2>3. cursor \in [Pages -> 0..Len(log')]
    BY <2>2, <2>n DEF ResponseShape
  <2>4. /\ session' \in Sessions
        /\ ~session'.pending /\ answers = 0
    BY <1>4 DEF ResponseShape, Sessions
  <2>5. ResponseShape'
    BY <1>1, <1>4, <2>2, <2>3, <2>4 DEF ResponseShape
  <2>6. NotOffered'
    BY <1>1, <2>2 DEF NotOffered, ResponseShape
  <2>7. StillWaiting'
    BY <2>4 DEF StillWaiting, Waiting
  <2> QED  BY <2>5, <2>6, <2>7
<1> QED  BY <1>2, <1>3, <1>4 DEF Responses!Begin

(* The answer is written, and its outcome recorded. *)
LEMMA WriteKeeps == ASSUME ResponseInv, Responses!Write PROVE ResponseInv'
<1> USE DEF ResponseInv
<1>1. /\ session.step = "write" /\ UNCHANGED <<log, card, cursor, call, ghost, blind>>
      /\ answers' \in {0, 1} /\ answers = 0
      /\ \E step \in {"resolved", "failed"} : session' = [session EXCEPT !.step = step]
  BY DEF Responses!Write, ResponseShape
<1>2. /\ session' \in Sessions
      /\ ~session'.pending /\ session'.step \notin {"loop", "write"}
  BY <1>1 DEF ResponseShape, Sessions
<1>3. ResponseShape'
  BY <1>1, <1>2 DEF ResponseShape
<1>4. NotOffered'
  BY <1>1 DEF NotOffered
<1>5. StillWaiting'
  BY <1>2 DEF StillWaiting, Waiting
<1> QED  BY <1>3, <1>4, <1>5

LEMMA FinishKeeps == ASSUME ResponseInv, Responses!Finish PROVE ResponseInv'
<1> USE DEF ResponseInv
<1>1. PICK ok \in BOOLEAN :
        /\ Responses!Persist(session.step, ok)
        /\ Responses!Reply(session.for, IF ok /\ session.step = "resolved" THEN "ok" ELSE "uncertain")
  BY DEF Responses!Finish
<1>2. /\ session.step \in {"failed", "resolved"} /\ session.step \in Responses!Steps \ {"prompt"}
      /\ session' = [session EXCEPT !.step = "loop", !.for = Responses!Nobody]
      /\ UNCHANGED <<answers, card, cursor, blind>>
  BY DEF Responses!Finish, Responses!Steps
<1>3. /\ OfRequest(log') /\ ghost' \in BOOLEAN /\ Len(log) <= Len(log')
      /\ \A n \in 0..Len(log) : BegunIn(log', n) <=> BegunIn(log, n)
      /\ BegunIn(log', Len(log'))
  <2>1. BegunIn(log, Len(log))
    BY <1>2 DEF ResponseShape
  <2> QED  BY <1>1, <1>2, <2>1, Persisted DEF ResponseShape
<1>4. call' \in [Pages -> {"none", "sent", "ok", "notStarted", "uncertain"}]
  BY <1>1 DEF Responses!Reply, ResponseShape
<1>n. Len(log) \in Nat /\ Len(log') \in Nat
  BY <1>3, LenProperties DEF OfRequest, ResponseShape
<1>5. cursor \in [Pages -> 0..Len(log')]
  BY <1>3, <1>n DEF ResponseShape
<1>6. /\ session' \in Sessions
      /\ ~session'.pending /\ session'.step = "loop"
  BY <1>2 DEF ResponseShape, Sessions
<1>7. ResponseShape'
  BY <1>2, <1>3, <1>4, <1>5, <1>6 DEF ResponseShape
<1>8. NotOffered'
  BY <1>2, <1>3 DEF NotOffered, ResponseShape
<1>9. StillWaiting'
  BY <1>6 DEF StillWaiting, Waiting
<1> QED  BY <1>7, <1>8, <1>9

(* The request is withdrawn, the session ends or is resumed. *)
LEMMA SessionKeeps ==
  ASSUME ResponseInv, Responses!Withdraw \/ Responses!End \/ Responses!Resume PROVE ResponseInv'
<1> USE DEF ResponseInv
<1>1. CASE Responses!End
  <2>1. /\ UNCHANGED <<log, answers, card, cursor, ghost, blind>> /\ session' = Responses!Silent
        /\ call' \in [Pages -> {"none", "sent", "ok", "notStarted", "uncertain"}]
    BY <1>1 DEF Responses!End, ResponseShape
  <2>2. /\ session' \in Sessions
        /\ ~session'.pending /\ session'.step = "loop"
    BY <2>1 DEF Responses!Silent, Sessions
  <2>3. ResponseShape'
    BY <2>1, <2>2 DEF ResponseShape
  <2>4. NotOffered' /\ StillWaiting'
    BY <2>1, <2>2 DEF NotOffered, StillWaiting, Waiting
  <2> QED  BY <2>3, <2>4
<1>2. CASE Responses!Withdraw \/ Responses!Resume
  <2>1. PICK more \in {<<"withdrawn", "idle">>, <<"spawning", "running">>} :
          /\ log' = log \o more /\ UNCHANGED <<answers, card, cursor, call, ghost, blind>>
          /\ \/ more = <<"withdrawn", "idle">> /\ session' = session
             \/ session' = [Responses!Silent EXCEPT !.alive = TRUE]
    BY <1>2 DEF Responses!Withdraw, Responses!Resume
  <2>2. more \in Seq(Responses!Steps) /\ \A i \in 1..Len(more) : more[i] # "prompt"
    <3>1. \A d \in Responses!Steps, e \in Responses!Steps : <<d, e>> \in Seq(Responses!Steps)
      OBVIOUS
    <3>2. {"withdrawn", "idle", "spawning", "running"} \subseteq Responses!Steps
      BY DEF Responses!Steps
    <3>3. more \in Seq(Responses!Steps)
      BY <2>1, <3>1, <3>2
    <3>4. Len(more) = 2 /\ more[1] # "prompt" /\ more[2] # "prompt"
      BY <2>1
    <3> QED  BY <3>3, <3>4
  <2>3. /\ OfRequest(log') /\ Len(log') = Len(log) + Len(more) /\ Len(log) \in Nat /\ Len(more) \in Nat
        /\ \A n \in 0..Len(log) : BegunIn(log', n) <=> BegunIn(log, n)
        /\ BegunIn(log, Len(log)) => BegunIn(log', Len(log'))
        /\ \A i \in 1..Len(more) : more[i] \in Responses!Range(log')
    BY <2>1, <2>2, LogGrows DEF ResponseShape
  <2>4. cursor \in [Pages -> 0..Len(log')]
    BY <2>3 DEF ResponseShape
  <2>5. /\ session' \in Sessions
        /\ session' = session \/ (~session'.pending /\ session'.step = "loop")
    <3>1. CASE session' = session
      BY <3>1 DEF ResponseShape
    <3>2. CASE session' = [Responses!Silent EXCEPT !.alive = TRUE]
      BY <3>2, FreshSession DEF Sessions
    <3> QED  BY <2>1, <3>1, <3>2
  <2>6. ResponseShape'
    BY <2>1, <2>3, <2>4, <2>5 DEF ResponseShape
  <2>7. NotOffered'
    BY <2>1, <2>3 DEF NotOffered, ResponseShape
  <2>8. ~Waiting'
    <3>1. CASE more = <<"withdrawn", "idle">>
      <4>1. "withdrawn" \in Responses!Range(log')
        <5>1. 1 \in 1..Len(more) /\ more[1] = "withdrawn"
          BY <3>1
        <5> QED  BY <2>3, <5>1
      <4> QED  BY <4>1 DEF Waiting, Responses!Range
    <3>2. CASE session' = [Responses!Silent EXCEPT !.alive = TRUE]
      BY <3>2 DEF Waiting, Responses!Silent
    <3> QED  BY <2>1, <3>1, <3>2
  <2> QED  BY <2>6, <2>7, <2>8 DEF StillWaiting
<1> QED  BY <1>1, <1>2

LEMMA ResponseInvStays == ResponseInv /\ [Responses!Next]_Responses!vars => ResponseInv'
<1> SUFFICES ASSUME ResponseInv, [Responses!Next]_Responses!vars PROVE ResponseInv'
  OBVIOUS
<1>1. CASE UNCHANGED Responses!vars
  BY <1>1 DEF Responses!vars, ResponseInv, ResponseShape, NotOffered, StillWaiting, Waiting, Responses!Range
<1>2. CASE Responses!Next
  BY <1>2, LoadKeeps, DeliverKeeps, PageKeeps, BeginKeeps, WriteKeeps, FinishKeeps, SessionKeeps, Zenon
     DEF Responses!Next
<1> QED  BY <1>1, <1>2

LEMMA ResponseInvSuffices == ResponseInv => Responses!AnsweredOnce /\ Responses!StillOffered
<1> SUFFICES ASSUME ResponseInv PROVE Responses!AnsweredOnce /\ Responses!StillOffered
  OBVIOUS
<1>1. Responses!AnsweredOnce
  BY DEF ResponseInv, ResponseShape, NotOffered, Responses!AnsweredOnce
<1>2. Responses!StillOffered
  BY DEF ResponseInv, ResponseShape, StillWaiting, Waiting, Responses!StillOffered, Responses!Range
<1> QED  BY <1>1, <1>2

(* Whatever fails, times out or is restarted in between: the CLI gets one     *)
(* answer at most, a request that may have been answered is not offered     *)
(* again from any summary, and one that waits is offered on every page.     *)
THEOREM PromptsAreAnswered ==
  Responses!Spec => [](Responses!AnsweredOnce /\ Responses!StillOffered)
<1>1. Responses!Init => ResponseInv
  BY ResponseInvStarts
<1>2. ResponseInv /\ [Responses!Next]_Responses!vars => ResponseInv'
  BY ResponseInvStays
<1> QED  BY <1>1, <1>2, ResponseInvSuffices, PTL DEF Responses!Spec

-----------------------------------------------------------------------------
(* The caches of scans and the index of runs.  Both arguments are the same.  *)
(* A fingerprint is taken before the file is read, so what is kept of a     *)
(* file is at least as new as the fingerprint it is kept under: on disk, in *)
(* the temporary file, and in every call that is under way (Matches,        *)
(* Covers).  Nothing is newer than the file itself.  When the fingerprint   *)
(* is the one the file has now, what is kept must then be what the file     *)
(* holds now.  Where the two are written to separate files, the lock keeps  *)
(* the old fingerprints as they were when the call read them, and the new   *)
(* entries are newer than these as well.                                   *)

CONSTANTS Files, ScanCalls, MaxChanges
VARIABLES style, version, deleted, prints, stock, broken, draft, memory, scan, losses

Caches ==
  INSTANCE ScanCaches
  WITH Calls <- ScanCalls, kept <- stock, tmp <- draft, call <- scan, faults <- losses

CONSTANTS IndexRuns, MaxReports, MaxCost, MaxWrites
VARIABLES imported, journal, meta, index, manifest, young, build, slipped, kills

Indexing ==
  INSTANCE RunIndex
  WITH Runs <- IndexRuns, log <- journal, crashes <- kills

(* The caches of scans *)

Counts == [Files -> Nat]
Job == [at : {"idle", "locked", "scan", "write", "writing", "rename", "manifest", "keep"},
        asked : Counts, oldPrints : Counts, oldKept : Counts, seen : SUBSET Files,
        prints : Counts, read : SUBSET Files, result : Counts]

CacheShape ==
  /\ version \in Counts /\ prints \in Counts /\ stock \in Counts
  /\ broken \in BOOLEAN
  /\ \A t \in draft : t.whole \in BOOLEAN /\ t.prints \in Counts /\ t.kept \in Counts
  /\ scan \in [ScanCalls -> Job]

\* What is kept of a file is not older than its fingerprint; neither is newer
\* than the file.
Matches(p, k) ==
  \A f \in Files :
    /\ p[f] <= version[f] /\ k[f] <= version[f]
    /\ k[f] > 0 => k[f] >= p[f]

\* What a call has loaded and made.
JobFits(j) ==
  /\ Matches(j.oldPrints, j.oldKept) /\ Matches(j.prints, j.result)
  /\ j.read \subseteq j.seen
  /\ j.at \in {"idle", "locked"} => j.read = {}
  /\ \A f \in Files : j.asked[f] <= version[f]
  /\ \A f \in j.seen : j.prints[f] > 0 /\ j.prints[f] >= j.asked[f]
  /\ \A f \in Files \ j.read : j.result[f] = 0
  /\ \A f \in j.read : j.result[f] >= j.prints[f]
  /\ j.at \notin {"idle", "locked", "scan"} =>
       j.seen = j.read /\ \A f \in Files : j.asked[f] > 0 => f \in j.seen \cup deleted
  /\ j.at \in {"writing", "rename"} => style = "codex"
  /\ j.at = "manifest" => style = "prompt"

\* Between the reading and the writing of the two files of the prompt index
\* nobody else writes them.
PromptFits(j) ==
  /\ j.at \in {"scan", "write"} =>
       j.oldPrints = prints /\ \A f \in j.read : j.result[f] >= prints[f]
  /\ j.at = "manifest" => stock = j.result

OneCall == \A c, d \in ScanCalls : scan[c].at # "idle" /\ scan[d].at # "idle" => c = d

CacheInv ==
  /\ CacheShape
  /\ Matches(prints, stock)
  /\ \A t \in draft : Matches(t.prints, t.kept)
  /\ \A c \in ScanCalls : JobFits(scan[c])
  /\ style # "codex" => OneCall
  /\ style = "prompt" => ~broken /\ \A c \in ScanCalls : PromptFits(scan[c])

LEMMA CacheInvStarts == Caches!Init => CacheInv
<1> SUFFICES ASSUME Caches!Init PROVE CacheInv
  OBVIOUS
<1> USE DEF Caches!Init, Caches!Nothing, Caches!NoCall, Caches!Versions
<1>1. CacheShape
  BY DEF CacheShape, Counts, Job
<1>2. Matches(prints, stock) /\ \A c \in ScanCalls : JobFits(scan[c]) /\ PromptFits(scan[c])
  BY DEF Matches, JobFits, PromptFits
<1> QED
  BY <1>1, <1>2 DEF CacheInv, OneCall

LEMMA CacheInvSuffices == CacheInv => Caches!KeptIsCurrent /\ Caches!AnswerCurrent
<1> SUFFICES ASSUME CacheInv PROVE Caches!KeptIsCurrent /\ Caches!AnswerCurrent
  OBVIOUS
<1>1. Caches!KeptIsCurrent
  BY DEF CacheInv, CacheShape, Counts, Matches, Caches!KeptIsCurrent
<1>2. ASSUME NEW c \in ScanCalls, scan[c].at = "keep", NEW f \in Files \ deleted
      PROVE  scan[c].result[f] >= scan[c].asked[f]
  <2>1. scan[c] \in Job /\ JobFits(scan[c])
    BY DEF CacheInv, CacheShape
  <2>2. scan[c].result[f] \in Nat /\ scan[c].asked[f] \in Nat /\ scan[c].prints[f] \in Nat
    BY <2>1 DEF Job, Counts
  <2>3. scan[c].asked[f] > 0 => f \in scan[c].read
    BY <1>2, <2>1 DEF JobFits
  <2>4. f \in scan[c].read => scan[c].result[f] >= scan[c].prints[f]
                              /\ scan[c].prints[f] >= scan[c].asked[f]
    BY <2>1 DEF JobFits
  <2> QED
    BY <2>2, <2>3, <2>4
<1> QED
  BY <1>1, <1>2 DEF Caches!AnswerCurrent

-----------------------------------------------------------------------------
(* One call goes on, and the files stay as they are. *)

LEMMA CallGoesOn ==
    ASSUME CacheInv, NEW c \in ScanCalls, NEW j \in Job,
           scan' = [scan EXCEPT ![c] = j],
           UNCHANGED <<style, version, deleted, Caches!diskVars>>,
           JobFits(j), style = "prompt" => PromptFits(j),
           \/ j.at = "idle" \/ scan[c].at # "idle"
           \/ style # "codex" => \A d \in ScanCalls : scan[d].at = "idle"
    PROVE  CacheInv'
<1>1. /\ version' = version /\ style' = style /\ deleted' = deleted
      /\ prints' = prints /\ stock' = stock /\ broken' = broken /\ draft' = draft
  BY DEF Caches!diskVars
<1>2. scan \in [ScanCalls -> Job]
  BY DEF CacheInv, CacheShape
<1>3. scan' \in [ScanCalls -> Job]
  BY <1>2
<1>4. scan'[c] = j /\ \A d \in ScanCalls : d # c => scan'[d] = scan[d]
  BY <1>2
<1>5. CacheShape'
  BY <1>1, <1>3 DEF CacheInv, CacheShape
<1>6. Matches(prints, stock)' /\ \A t \in draft : Matches(t.prints, t.kept)'
  BY <1>1 DEF CacheInv, Matches
<1>7. \A d \in ScanCalls : JobFits(scan[d])'
  <2> SUFFICES ASSUME NEW d \in ScanCalls PROVE JobFits(scan[d])'
    OBVIOUS
  <2>1. JobFits(scan'[d])
    BY <1>4 DEF CacheInv
  <2> QED
    BY <2>1, <1>1 DEF JobFits, Matches
<1>8. (style # "codex" => OneCall)'
  BY <1>1, <1>4 DEF CacheInv, OneCall
<1>9. (style = "prompt" => ~broken /\ \A d \in ScanCalls : PromptFits(scan[d]))'
  <2> SUFFICES ASSUME style = "prompt" PROVE ~broken /\ \A d \in ScanCalls : PromptFits(scan[d])'
    BY <1>1
  <2>1. \A d \in ScanCalls : PromptFits(scan'[d])
    BY <1>4 DEF CacheInv
  <2> QED
    BY <2>1, <1>1 DEF PromptFits, CacheInv
<1> QED
  BY <1>1, <1>5, <1>6, <1>7, <1>8, <1>9 DEF CacheInv

\* What CacheInv says of one call.
LEMMA CallFacts ==
    ASSUME CacheInv, NEW c \in ScanCalls
    PROVE  /\ scan[c] \in Job /\ JobFits(scan[c])
           /\ style = "prompt" => PromptFits(scan[c])
           /\ \A f \in Files : /\ version[f] \in Nat /\ prints[f] \in Nat /\ stock[f] \in Nat
                               /\ scan[c].asked[f] \in Nat /\ scan[c].oldPrints[f] \in Nat
                               /\ scan[c].oldKept[f] \in Nat /\ scan[c].prints[f] \in Nat
                               /\ scan[c].result[f] \in Nat
BY DEF CacheInv, CacheShape, Job, Counts

LEMMA NoCallFits ==
    ASSUME CacheInv
    PROVE  /\ Caches!NoCall \in Job /\ Caches!NoCall.at = "idle"
           /\ JobFits(Caches!NoCall) /\ PromptFits(Caches!NoCall)
<1>1. \A f \in Files : version[f] \in Nat
  BY DEF CacheInv, CacheShape, Counts
<1> QED
  BY <1>1 DEF Caches!NoCall, Caches!Nothing, Job, Counts, JobFits, Matches, PromptFits

LEMMA BeginHolds == ASSUME CacheInv, NEW c \in ScanCalls, Caches!Begin(c) PROVE CacheInv'
<1> DEFINE j == [Caches!NoCall EXCEPT !.at = "locked", !.asked = version]
<1>1. version \in Counts
  BY DEF CacheInv, CacheShape
<1>2. j \in Job /\ JobFits(j) /\ PromptFits(j)
  <2>1. /\ j.at = "locked" /\ j.asked = version /\ j.seen = {} /\ j.read = {}
        /\ j.oldPrints = Caches!Nothing /\ j.oldKept = Caches!Nothing
        /\ j.prints = Caches!Nothing /\ j.result = Caches!Nothing
    BY DEF Caches!NoCall
  <2>2. Caches!Nothing \in Counts /\ \A f \in Files : Caches!Nothing[f] = 0
    BY DEF Caches!Nothing, Counts
  <2>3. j \in Job
    BY <1>1, <2>2 DEF Caches!NoCall, Job
  <2>4. \A f \in Files : version[f] \in Nat
    BY <1>1 DEF Counts
  <2>5. Matches(Caches!Nothing, Caches!Nothing)
    BY <2>2, <2>4 DEF Matches
  <2> HIDE DEF j
  <2>6. JobFits(j)
    BY <2>1, <2>2, <2>4, <2>5 DEF JobFits
  <2>7. PromptFits(j)
    BY <2>1 DEF PromptFits
  <2> QED
    BY <2>3, <2>6, <2>7
<1>3. style # "codex" => \A d \in ScanCalls : scan[d].at = "idle"
  BY DEF Caches!Begin, Caches!Locked
<1>4. scan' = [scan EXCEPT ![c] = j] /\ UNCHANGED <<style, version, deleted, Caches!diskVars>>
  BY DEF Caches!Begin
<1> QED
  BY <1>2, <1>3, <1>4, CallGoesOn

LEMMA LoadHolds == ASSUME CacheInv, NEW c \in ScanCalls, Caches!Load(c) PROVE CacheInv'
<1> DEFINE j == [scan[c] EXCEPT !.at = "scan",
                   !.oldPrints = IF broken THEN Caches!Nothing ELSE prints,
                   !.oldKept = IF broken THEN Caches!Nothing ELSE stock]
<1>1. /\ scan[c].at = "locked" /\ scan' = [scan EXCEPT ![c] = j]
      /\ UNCHANGED <<style, version, deleted, Caches!diskVars>>
  BY CacheInv DEF Caches!Load, CacheInv, CacheShape
<1>2. Caches!Nothing \in Counts /\ prints \in Counts /\ stock \in Counts
  BY DEF Caches!Nothing, Counts, CacheInv, CacheShape
<1>3. j \in Job
  BY <1>2, CallFacts DEF Job
<1>4. /\ j.at = "scan" /\ j.asked = scan[c].asked /\ j.seen = scan[c].seen
      /\ j.prints = scan[c].prints /\ j.read = scan[c].read /\ j.result = scan[c].result
      /\ j.oldPrints = IF broken THEN Caches!Nothing ELSE prints
      /\ j.oldKept = IF broken THEN Caches!Nothing ELSE stock
  BY CallFacts DEF Job
<1>5. Matches(j.oldPrints, j.oldKept)
  BY <1>4, CallFacts DEF Matches, Caches!Nothing, CacheInv
<1>6. JobFits(j)
  BY <1>4, <1>5, CallFacts DEF JobFits
<1>7. style = "prompt" => PromptFits(j)
  <2>1. j.read = {}
    BY <1>1, <1>4, CallFacts DEF JobFits
  <2> QED
    BY <1>4, <2>1 DEF PromptFits, CacheInv
<1> QED
  BY <1>1, <1>3, <1>6, <1>7, CallGoesOn

\* A call that has taken the fingerprint n of f, and one that has read f.
Takes(i, j, f, n) == j = [i EXCEPT !.seen = @ \cup {f}, !.prints[f] = n]
ReadsIt(i, j, f, n) == j = [i EXCEPT !.read = @ \cup {f}, !.result[f] = n]

SameRest(i, j) ==
  j.at = i.at /\ j.asked = i.asked /\ j.oldPrints = i.oldPrints /\ j.oldKept = i.oldKept

HasTaken(i, j, f, n) ==
  /\ SameRest(i, j) /\ j.seen = i.seen \cup {f} /\ j.read = i.read /\ j.result = i.result
  /\ j.prints[f] = n /\ \A g \in Files \ {f} : j.prints[g] = i.prints[g]
HasRead(i, j, f, n) ==
  /\ SameRest(i, j) /\ j.seen = i.seen /\ j.read = i.read \cup {f} /\ j.prints = i.prints
  /\ j.result[f] = n /\ \A g \in Files \ {f} : j.result[g] = i.result[g]

LEMMA TakesPrint ==
    ASSUME NEW i \in Job, NEW f \in Files, NEW n \in Nat, NEW j, Takes(i, j, f, n)
    PROVE  j \in Job /\ HasTaken(i, j, f, n)
<1> USE DEF Job, Counts, Takes
<1>1. j.seen = i.seen \cup {f} /\ j.read = i.read /\ j.result = i.result
  OBVIOUS
<1>2. j.prints[f] = n /\ \A g \in Files \ {f} : j.prints[g] = i.prints[g]
  OBVIOUS
<1>3. SameRest(i, j)
  BY DEF SameRest
<1>4. j \in Job
  OBVIOUS
<1> QED
  BY <1>1, <1>2, <1>3, <1>4 DEF HasTaken

LEMMA ReadsFile ==
    ASSUME NEW i \in Job, NEW f \in Files, NEW n \in Nat, NEW j, ReadsIt(i, j, f, n)
    PROVE  j \in Job /\ HasRead(i, j, f, n)
<1> USE DEF Job, Counts, ReadsIt
<1>1. j.seen = i.seen /\ j.read = i.read \cup {f} /\ j.prints = i.prints
  OBVIOUS
<1>2. j.result[f] = n /\ \A g \in Files \ {f} : j.result[g] = i.result[g]
  OBVIOUS
<1>3. SameRest(i, j)
  BY DEF SameRest
<1>4. j \in Job
  OBVIOUS
<1> QED
  BY <1>1, <1>2, <1>3, <1>4 DEF HasRead

LEMMA TakePrintKeeps ==
    ASSUME CacheInv, NEW c \in ScanCalls, NEW f \in Files, Caches!TakePrint(c, f) PROVE CacheInv'
<1> DEFINE j == [scan[c] EXCEPT !.seen = @ \cup {f}, !.prints[f] = version[f]]
<1>1. /\ scan[c].at = "scan" /\ f \notin scan[c].seen /\ version[f] > 0
      /\ scan' = [scan EXCEPT ![c] = j]
      /\ UNCHANGED <<style, version, deleted, Caches!diskVars>>
  BY CacheInv DEF Caches!TakePrint, Caches!Present, CacheInv, CacheShape
<1>2. Takes(scan[c], j, f, version[f]) /\ scan[c] \in Job /\ version[f] \in Nat
  BY CallFacts DEF Takes
<1> HIDE DEF j
<1>3. j \in Job /\ HasTaken(scan[c], j, f, version[f])
  BY <1>2, TakesPrint
<1>4. /\ j.at = "scan" /\ j.asked = scan[c].asked /\ j.seen = scan[c].seen \cup {f}
      /\ j.read = scan[c].read /\ j.result = scan[c].result
      /\ j.oldPrints = scan[c].oldPrints /\ j.oldKept = scan[c].oldKept
      /\ j.prints[f] = version[f] /\ \A g \in Files \ {f} : j.prints[g] = scan[c].prints[g]
  BY <1>1, <1>3 DEF HasTaken, SameRest
<1>5. f \notin scan[c].read /\ scan[c].result[f] = 0
  BY <1>1, CallFacts DEF JobFits
<1>6. Matches(j.prints, j.result)
  BY <1>4, <1>5, CallFacts DEF Matches, JobFits
<1>7. \A g \in j.seen : j.prints[g] > 0 /\ j.prints[g] >= j.asked[g]
  <2> SUFFICES ASSUME NEW g \in j.seen PROVE j.prints[g] > 0 /\ j.prints[g] >= j.asked[g]
    OBVIOUS
  <2>1. g \in Files
    BY <1>4, CallFacts DEF Job
  <2> QED
    BY <1>1, <1>4, <2>1, CallFacts DEF JobFits
<1>8. \A g \in j.read : j.result[g] >= j.prints[g]
  <2> SUFFICES ASSUME NEW g \in j.read PROVE j.result[g] >= j.prints[g]
    OBVIOUS
  <2>1. g \in Files /\ g # f
    BY <1>4, <1>5, CallFacts DEF Job
  <2> QED
    BY <1>4, <2>1, CallFacts DEF JobFits
<1>9. JobFits(j)
  BY <1>4, <1>6, <1>7, <1>8, <1>1, CallFacts DEF JobFits
<1>10. style = "prompt" => PromptFits(j)
  BY <1>1, <1>4, CallFacts DEF PromptFits
<1> QED
  BY <1>1, <1>3, <1>9, <1>10, CallGoesOn

LEMMA ScanKeeps ==
    ASSUME CacheInv, NEW c \in ScanCalls, NEW f \in Files, Caches!Scan(c, f) PROVE CacheInv'
<1> DEFINE n == IF Caches!Fresh(scan[c], f) THEN scan[c].oldKept[f] ELSE version[f]
           j == [scan[c] EXCEPT !.read = @ \cup {f}, !.result[f] = n]
<1>1. /\ scan[c].at = "scan" /\ f \in scan[c].seen \ scan[c].read
      /\ scan' = [scan EXCEPT ![c] = j]
      /\ UNCHANGED <<style, version, deleted, Caches!diskVars>>
  BY CacheInv DEF Caches!Scan, CacheInv, CacheShape
<1>2. n \in Nat /\ n >= scan[c].prints[f] /\ n <= version[f] /\ n > 0
  BY <1>1, CallFacts DEF Caches!Fresh, JobFits, Matches
<1>3. style = "prompt" => n >= prints[f]
  <2>1. Caches!Fresh(scan[c], f) => n >= scan[c].oldPrints[f]
    BY CallFacts DEF Caches!Fresh, JobFits, Matches
  <2>2. ~Caches!Fresh(scan[c], f) => n >= prints[f]
    BY CallFacts DEF CacheInv, Matches
  <2>3. style = "prompt" => scan[c].oldPrints = prints
    BY <1>1, CallFacts DEF PromptFits
  <2> QED
    BY <2>1, <2>2, <2>3
<1> HIDE DEF n
<1>4. ReadsIt(scan[c], j, f, n) /\ scan[c] \in Job
  BY CallFacts DEF ReadsIt
<1> HIDE DEF j
<1>5. j \in Job /\ HasRead(scan[c], j, f, n)
  BY <1>2, <1>4, ReadsFile
<1>6. /\ j.at = "scan" /\ j.asked = scan[c].asked /\ j.seen = scan[c].seen
      /\ j.prints = scan[c].prints /\ j.read = scan[c].read \cup {f}
      /\ j.oldPrints = scan[c].oldPrints /\ j.oldKept = scan[c].oldKept
      /\ j.result[f] = n /\ \A g \in Files \ {f} : j.result[g] = scan[c].result[g]
  BY <1>1, <1>5 DEF HasRead, SameRest
<1>7. Matches(j.prints, j.result)
  BY <1>2, <1>6, CallFacts DEF Matches, JobFits
<1>8. \A g \in j.read : j.result[g] >= j.prints[g]
  <2> SUFFICES ASSUME NEW g \in j.read PROVE j.result[g] >= j.prints[g]
    OBVIOUS
  <2>1. g \in Files
    BY <1>1, <1>6, CallFacts DEF Job
  <2> QED
    BY <1>2, <1>6, <2>1, CallFacts DEF JobFits
<1>9. JobFits(j)
  BY <1>1, <1>6, <1>7, <1>8, CallFacts DEF JobFits
<1>10. style = "prompt" => PromptFits(j)
  <2> SUFFICES ASSUME style = "prompt" PROVE PromptFits(j)
    OBVIOUS
  <2>1. ASSUME NEW g \in j.read PROVE j.result[g] >= prints[g]
    <3>1. g \in Files /\ (g # f => g \in scan[c].read)
      BY <1>1, <1>6, <2>1, CallFacts DEF Job
    <3> QED
      BY <1>1, <1>3, <1>6, <3>1, CallFacts DEF PromptFits
  <2> QED
    BY <1>1, <1>6, <2>1, CallFacts DEF PromptFits
<1> QED
  BY <1>1, <1>5, <1>9, <1>10, CallGoesOn

LEMMA ScanDoneKeeps == ASSUME CacheInv, NEW c \in ScanCalls, Caches!ScanDone(c) PROVE CacheInv'
<1> DEFINE j == [scan[c] EXCEPT !.at = "write"]
<1>1. /\ scan[c].at = "scan" /\ scan[c].seen = scan[c].read
      /\ {f \in Files : scan[c].asked[f] > 0} \subseteq scan[c].seen \cup deleted
      /\ scan' = [scan EXCEPT ![c] = j]
      /\ UNCHANGED <<style, version, deleted, Caches!diskVars>>
  BY CacheInv DEF Caches!ScanDone, Caches!Listed, CacheInv, CacheShape
<1>2. j \in Job
  BY CallFacts DEF Job
<1>3. /\ j.at = "write" /\ j.asked = scan[c].asked /\ j.seen = scan[c].seen
      /\ j.prints = scan[c].prints /\ j.read = scan[c].read /\ j.result = scan[c].result
      /\ j.oldPrints = scan[c].oldPrints /\ j.oldKept = scan[c].oldKept
  BY CallFacts DEF Job
<1> HIDE DEF j
<1>4. JobFits(j)
  BY <1>1, <1>3, CallFacts DEF JobFits
<1>5. style = "prompt" => PromptFits(j)
  BY <1>1, <1>3, CallFacts DEF PromptFits
<1> QED
  BY <1>1, <1>2, <1>4, <1>5, CallGoesOn

LEMMA ReturnKeeps == ASSUME CacheInv, NEW c \in ScanCalls, Caches!Return(c) PROVE CacheInv'
<1>1. /\ scan' = [scan EXCEPT ![c] = Caches!NoCall]
      /\ UNCHANGED <<style, version, deleted, Caches!diskVars>>
  BY DEF Caches!Return
<1> QED
  BY <1>1, NoCallFits, CallGoesOn

LEMMA WriteFailsKeeps == ASSUME CacheInv, NEW c \in ScanCalls, Caches!WriteFails(c) PROVE CacheInv'
<1> DEFINE j == IF style = "prompt" THEN Caches!NoCall ELSE [scan[c] EXCEPT !.at = "keep"]
<1>1. /\ scan[c].at \in {"write", "manifest"} /\ scan' = [scan EXCEPT ![c] = j]
      /\ UNCHANGED <<style, version, deleted, Caches!diskVars>>
  BY CacheInv DEF Caches!WriteFails, CacheInv, CacheShape
<1>2. CASE style = "prompt"
  BY <1>1, <1>2, NoCallFits, CallGoesOn
<1>3. CASE style # "prompt"
  <2>1. j \in Job
    BY <1>3, CallFacts DEF Job
  <2>2. /\ j.at = "keep" /\ j.asked = scan[c].asked /\ j.seen = scan[c].seen
        /\ j.prints = scan[c].prints /\ j.read = scan[c].read /\ j.result = scan[c].result
        /\ j.oldPrints = scan[c].oldPrints /\ j.oldKept = scan[c].oldKept
    BY <1>3, CallFacts DEF Job
  <2> HIDE DEF j
  <2>3. JobFits(j)
    BY <1>1, <2>2, CallFacts DEF JobFits
  <2> QED
    BY <1>1, <1>3, <2>1, <2>3, CallGoesOn
<1> QED
  BY <1>2, <1>3

-----------------------------------------------------------------------------
(* A call writes. *)

Late == {"write", "writing", "rename", "manifest", "keep"}

LEMMA CallWrites ==
    ASSUME CacheInv, NEW c \in ScanCalls, NEW x \in Late \ {"write"}, scan[c].at \in Late,
           scan' = [scan EXCEPT ![c].at = x], UNCHANGED <<style, version, deleted>>,
           prints' \in Counts, stock' \in Counts, Matches(prints', stock'), broken' \in BOOLEAN,
           \A t \in draft' : /\ t.whole \in BOOLEAN /\ t.prints \in Counts /\ t.kept \in Counts
                           /\ Matches(t.prints, t.kept),
           x \in {"writing", "rename"} => style = "codex", x = "manifest" => style = "prompt",
           style = "prompt" => ~broken' /\ (x = "manifest" => stock' = scan[c].result)
    PROVE  CacheInv'
<1> DEFINE j == [scan[c] EXCEPT !.at = x]
<1> USE DEF Late
<1>1. scan \in [ScanCalls -> Job] /\ scan[c] \in Job
  BY DEF CacheInv, CacheShape
<1>2. /\ j \in Job /\ j.at = x /\ j.asked = scan[c].asked /\ j.seen = scan[c].seen
      /\ j.prints = scan[c].prints /\ j.read = scan[c].read /\ j.result = scan[c].result
      /\ j.oldPrints = scan[c].oldPrints /\ j.oldKept = scan[c].oldKept
  BY <1>1 DEF Job
<1>3. scan' = [scan EXCEPT ![c] = j]
  BY <1>1
<1> HIDE DEF j
<1>4. /\ scan' \in [ScanCalls -> Job]
      /\ scan'[c] = j /\ \A d \in ScanCalls : d # c => scan'[d] = scan[d]
  BY <1>1, <1>2, <1>3
<1>5. CacheShape'
  BY <1>4 DEF CacheInv, CacheShape, Counts
<1>6. Matches(prints, stock)' /\ \A t \in draft' : Matches(t.prints, t.kept)'
  BY DEF Matches
<1>7. JobFits(j)
  BY <1>2, CallFacts DEF JobFits
<1>8. \A d \in ScanCalls : JobFits(scan[d])'
  <2> SUFFICES ASSUME NEW d \in ScanCalls PROVE JobFits(scan[d])'
    OBVIOUS
  <2>1. JobFits(scan'[d])
    BY <1>4, <1>7 DEF CacheInv
  <2> QED
    BY <2>1 DEF JobFits, Matches
<1>9. (style # "codex" => OneCall)'
  BY <1>2, <1>4 DEF CacheInv, OneCall
<1>10. (style = "prompt" => ~broken /\ \A d \in ScanCalls : PromptFits(scan[d]))'
  <2> SUFFICES ASSUME style = "prompt", NEW d \in ScanCalls PROVE PromptFits(scan[d])'
    OBVIOUS
  <2>1. d # c => scan'[d].at = "idle"
    BY <1>4 DEF CacheInv, OneCall
  <2> QED
    BY <1>2, <1>4, <2>1 DEF PromptFits
<1> QED
  BY <1>5, <1>6, <1>8, <1>9, <1>10 DEF CacheInv

LEMMA DiskFacts ==
    ASSUME CacheInv, NEW c \in ScanCalls
    PROVE  /\ prints \in Counts /\ stock \in Counts /\ Matches(prints, stock) /\ broken \in BOOLEAN
           /\ scan[c].prints \in Counts /\ scan[c].result \in Counts
           /\ Matches(scan[c].prints, scan[c].result)
           /\ \A t \in draft : /\ t.whole \in BOOLEAN /\ t.prints \in Counts /\ t.kept \in Counts
                             /\ Matches(t.prints, t.kept)
BY DEF CacheInv, CacheShape, JobFits, Job

LEMMA WriteLockedKeeps == ASSUME CacheInv, NEW c \in ScanCalls, Caches!WriteLocked(c) PROVE CacheInv'
<1>1. /\ style = "claude" /\ scan[c].at = "write" /\ scan' = [scan EXCEPT ![c].at = "keep"]
      /\ prints' = scan[c].prints /\ stock' = scan[c].result /\ broken' = broken /\ draft' = draft
      /\ UNCHANGED <<style, version, deleted>>
  BY DEF Caches!WriteLocked
<1>2. /\ prints' \in Counts /\ stock' \in Counts /\ Matches(prints', stock') /\ broken' \in BOOLEAN
      /\ \A t \in draft' : /\ t.whole \in BOOLEAN /\ t.prints \in Counts /\ t.kept \in Counts
                        /\ Matches(t.prints, t.kept)
  BY <1>1, DiskFacts
<1>3. "keep" \in Late \ {"write"} /\ scan[c].at \in Late
  BY <1>1 DEF Late
<1> QED
  BY <1>1, <1>2, <1>3, CallWrites

LEMMA WriteSharedKeeps == ASSUME CacheInv, NEW c \in ScanCalls, Caches!WriteShared(c) PROVE CacheInv'
<1>1. /\ style = "codex" /\ scan[c].at = "write" /\ scan' = [scan EXCEPT ![c].at = "writing"]
      /\ draft' = {[whole |-> Caches!Writing = {}, prints |-> scan[c].prints,
                  kept |-> scan[c].result]}
      /\ prints' = prints /\ stock' = stock /\ broken' = broken
      /\ UNCHANGED <<style, version, deleted>>
  BY DEF Caches!WriteShared
<1>2. \A t \in draft' : /\ t.whole \in BOOLEAN /\ t.prints = scan[c].prints
                      /\ t.kept = scan[c].result
  <2> DEFINE whole == Caches!Writing = {}
  <2>1. whole \in BOOLEAN
    OBVIOUS
  <2>2. draft' = {[whole |-> whole, prints |-> scan[c].prints, kept |-> scan[c].result]}
    BY <1>1
  <2> HIDE DEF whole
  <2> QED
    BY <2>1, <2>2
<1>3. \A t \in draft' : /\ t.whole \in BOOLEAN /\ t.prints \in Counts /\ t.kept \in Counts
                      /\ Matches(t.prints, t.kept)
  BY <1>2, DiskFacts
<1>4. prints' \in Counts /\ stock' \in Counts /\ Matches(prints', stock') /\ broken' \in BOOLEAN
  BY <1>1, DiskFacts
<1>5. "writing" \in Late \ {"write"} /\ scan[c].at \in Late
  BY <1>1 DEF Late
<1> QED
  BY <1>1, <1>3, <1>4, <1>5, CallWrites

LEMMA WrittenKeeps == ASSUME CacheInv, NEW c \in ScanCalls, Caches!Written(c) PROVE CacheInv'
<1>1. /\ scan[c].at = "writing" /\ scan' = [scan EXCEPT ![c].at = "rename"] /\ draft' = draft
      /\ UNCHANGED <<style, version, deleted>>
  BY DEF Caches!Written
<1>2. style = "codex"
  BY <1>1, CallFacts DEF JobFits
<1>3. \/ prints' = scan[c].prints /\ stock' = scan[c].result /\ broken' = FALSE
      \/ prints' = prints /\ stock' = stock /\ broken' \in BOOLEAN
  BY DiskFacts DEF Caches!Written, Caches!CacheFile
<1>4. prints' \in Counts /\ stock' \in Counts /\ Matches(prints', stock') /\ broken' \in BOOLEAN
  BY <1>3, DiskFacts
<1>5. \A t \in draft' : /\ t.whole \in BOOLEAN /\ t.prints \in Counts /\ t.kept \in Counts
                      /\ Matches(t.prints, t.kept)
  BY <1>1, DiskFacts
<1>6. "rename" \in Late \ {"write"} /\ scan[c].at \in Late
  BY <1>1 DEF Late
<1> QED
  BY <1>1, <1>2, <1>4, <1>5, <1>6, CallWrites

LEMMA RenameKeeps == ASSUME CacheInv, NEW c \in ScanCalls, Caches!Rename(c) PROVE CacheInv'
<1>1. /\ scan[c].at = "rename" /\ scan' = [scan EXCEPT ![c].at = "keep"] /\ draft' = {}
      /\ UNCHANGED <<style, version, deleted>>
  BY DEF Caches!Rename
<1>2. style = "codex"
  BY <1>1, CallFacts DEF JobFits
<1>3. \/ \E t \in draft : prints' = t.prints /\ stock' = t.kept /\ broken' = FALSE
      \/ prints' = prints /\ stock' = stock /\ broken' \in BOOLEAN
  BY DiskFacts DEF Caches!Rename, Caches!CacheFile
<1>4. prints' \in Counts /\ stock' \in Counts /\ Matches(prints', stock') /\ broken' \in BOOLEAN
  BY <1>3, DiskFacts
<1>5. "keep" \in Late \ {"write"} /\ scan[c].at \in Late
  BY <1>1 DEF Late
<1> QED
  BY <1>1, <1>2, <1>4, <1>5, CallWrites

LEMMA WriteIndexKeeps == ASSUME CacheInv, NEW c \in ScanCalls, Caches!WriteIndex(c) PROVE CacheInv'
<1>1. /\ style = "prompt" /\ scan[c].at = "write" /\ scan' = [scan EXCEPT ![c].at = "manifest"]
      /\ prints' = prints /\ stock' = scan[c].result /\ broken' = broken /\ draft' = draft
      /\ UNCHANGED <<style, version, deleted>>
  BY DEF Caches!WriteIndex
<1>2. Matches(prints, scan[c].result)
  <2> SUFFICES ASSUME NEW f \in Files
               PROVE  /\ prints[f] <= version[f] /\ scan[c].result[f] <= version[f]
                      /\ scan[c].result[f] > 0 => scan[c].result[f] >= prints[f]
    BY DEF Matches
  <2>1. prints[f] <= version[f] /\ scan[c].result[f] <= version[f]
    BY DiskFacts DEF Matches
  <2>2. f \in scan[c].read => scan[c].result[f] >= prints[f]
    BY <1>1, CallFacts DEF PromptFits
  <2>3. f \notin scan[c].read => scan[c].result[f] = 0
    BY CallFacts DEF JobFits
  <2> QED
    BY <2>1, <2>2, <2>3
<1>3. ~broken
  BY <1>1 DEF CacheInv
<1>4. /\ prints' \in Counts /\ stock' \in Counts /\ Matches(prints', stock') /\ broken' \in BOOLEAN
      /\ \A t \in draft' : /\ t.whole \in BOOLEAN /\ t.prints \in Counts /\ t.kept \in Counts
                        /\ Matches(t.prints, t.kept)
  BY <1>1, <1>2, DiskFacts
<1>5. "manifest" \in Late \ {"write"} /\ scan[c].at \in Late
  BY <1>1 DEF Late
<1> QED
  BY <1>1, <1>3, <1>4, <1>5, CallWrites

LEMMA WriteManifestKeeps ==
    ASSUME CacheInv, NEW c \in ScanCalls, Caches!WriteManifest(c) PROVE CacheInv'
<1>1. /\ scan[c].at = "manifest" /\ scan' = [scan EXCEPT ![c].at = "keep"]
      /\ prints' = [f \in Files |-> IF f \notin scan[c].seen THEN 0 ELSE scan[c].prints[f]]
      /\ stock' = stock /\ broken' = broken /\ draft' = draft
      /\ UNCHANGED <<style, version, deleted>>
  BY DEF Caches!WriteManifest
<1>2. style = "prompt" /\ stock = scan[c].result
  BY <1>1, CallFacts DEF JobFits, PromptFits
<1>3. prints' \in Counts
  BY <1>1, CallFacts DEF Counts
<1>4. Matches(prints', stock)
  BY <1>1, <1>2, CallFacts, DiskFacts DEF Matches
<1>5. ~broken
  BY <1>2 DEF CacheInv
<1>6. /\ prints' \in Counts /\ stock' \in Counts /\ Matches(prints', stock') /\ broken' \in BOOLEAN
      /\ \A t \in draft' : /\ t.whole \in BOOLEAN /\ t.prints \in Counts /\ t.kept \in Counts
                        /\ Matches(t.prints, t.kept)
  BY <1>1, <1>3, <1>4, DiskFacts
<1>7. "keep" \in Late \ {"write"} /\ scan[c].at \in Late
  BY <1>1 DEF Late
<1> QED
  BY <1>1, <1>5, <1>6, <1>7, CallWrites

-----------------------------------------------------------------------------
(* What happens around the calls. *)

\* The files grow and runs are deleted: what is known is no newer than before.
LEMMA FilesChange ==
    ASSUME CacheInv, version' \in Counts, \A f \in Files : version'[f] >= version[f],
           deleted \subseteq deleted', UNCHANGED <<style, Caches!diskVars, scan>>
    PROVE  CacheInv'
<1>1. UNCHANGED <<prints, stock, broken, draft>>
  BY DEF Caches!diskVars
<1>2. CacheShape'
  BY <1>1 DEF CacheInv, CacheShape
<1>3. ASSUME NEW p \in Counts, NEW k \in Counts, Matches(p, k)
      PROVE  \A f \in Files : /\ p[f] <= version'[f] /\ k[f] <= version'[f]
                              /\ k[f] > 0 => k[f] >= p[f]
  BY <1>3 DEF Matches, Counts, CacheInv, CacheShape
<1>4. Matches(prints, stock)' /\ \A t \in draft' : Matches(t.prints, t.kept)'
  BY <1>1, <1>3 DEF CacheInv, CacheShape, Matches
<1>5. ASSUME NEW c \in ScanCalls PROVE JobFits(scan[c])'
  <2>1. scan[c] \in Job /\ JobFits(scan[c])
    BY CallFacts
  <2>2. Matches(scan[c].oldPrints, scan[c].oldKept)' /\ Matches(scan[c].prints, scan[c].result)'
    BY <1>3, <2>1 DEF JobFits, Job, Matches
  <2>3. \A f \in Files : scan[c].asked[f] <= version'[f]
    BY <2>1, CallFacts DEF JobFits, Counts
  <2>4. scan[c].at \notin {"idle", "locked", "scan"} =>
          \A f \in Files : scan[c].asked[f] > 0 => f \in scan[c].seen \cup deleted'
    BY <2>1 DEF JobFits
  <2> QED
    BY <2>1, <2>2, <2>3, <2>4 DEF JobFits
<1>6. (style # "codex" => OneCall)'
  BY DEF CacheInv, OneCall
<1>7. (style = "prompt" => ~broken /\ \A c \in ScanCalls : PromptFits(scan[c]))'
  BY <1>1 DEF CacheInv, PromptFits
<1> QED
  BY <1>2, <1>4, <1>5, <1>6, <1>7 DEF CacheInv

LEMMA WriteHolds == ASSUME CacheInv, NEW f \in Files, Caches!Write(f) PROVE CacheInv'
<1>1. version \in Counts /\ version' = [version EXCEPT ![f] = @ + 1]
  BY DEF Caches!Write, CacheInv, CacheShape
<1>2. version' \in Counts /\ \A g \in Files : version'[g] >= version[g]
  BY <1>1 DEF Counts
<1> QED
  BY <1>2, FilesChange DEF Caches!Write

LEMMA SoftDeleteKeeps == ASSUME CacheInv, NEW f \in Files, Caches!SoftDelete(f) PROVE CacheInv'
<1>1. version' \in Counts /\ \A g \in Files : version'[g] >= version[g]
  BY DEF Caches!SoftDelete, CacheInv, CacheShape, Counts
<1> QED
  BY <1>1, FilesChange DEF Caches!SoftDelete

LEMMA ExpireKeeps == ASSUME CacheInv, Caches!Expire \/ UNCHANGED Caches!vars PROVE CacheInv'
<1>1. version' \in Counts /\ \A g \in Files : version'[g] >= version[g]
  BY DEF Caches!Expire, Caches!vars, CacheInv, CacheShape, Counts
<1> QED
  BY <1>1, FilesChange DEF Caches!Expire, Caches!vars

LEMMA CacheCrashKeeps == ASSUME CacheInv, Caches!Crash PROVE CacheInv'
<1>1. /\ \A c \in ScanCalls : scan'[c] = Caches!NoCall
      /\ scan' = [c \in ScanCalls |-> Caches!NoCall]
      /\ draft' = {} /\ UNCHANGED <<style, version, deleted, prints, stock>>
      /\ broken' = (broken \/ (Caches!Writing # {} /\ draft = {}))
  BY DEF Caches!Crash
<1>2. scan' \in [ScanCalls -> Job]
  BY <1>1, NoCallFits
<1>3. broken' \in BOOLEAN
  BY <1>1 DEF CacheInv, CacheShape
<1>4. CacheShape'
  BY <1>1, <1>2, <1>3 DEF CacheInv, CacheShape
<1>5. Matches(prints, stock)' /\ \A t \in draft' : Matches(t.prints, t.kept)'
  BY <1>1 DEF CacheInv, Matches
<1>6. \A c \in ScanCalls : JobFits(scan[c])'
  BY <1>1, NoCallFits DEF JobFits, Matches
<1>7. OneCall'
  BY <1>1, NoCallFits DEF OneCall
<1>8. (style = "prompt" => ~broken /\ \A c \in ScanCalls : PromptFits(scan[c]))'
  <2> SUFFICES ASSUME style = "prompt" PROVE ~broken' /\ \A c \in ScanCalls : PromptFits(scan[c])'
    BY <1>1
  <2>1. Caches!Writing = {}
    BY CallFacts DEF Caches!Writing, JobFits
  <2>2. ~broken'
    BY <1>1, <2>1 DEF CacheInv
  <2>3. \A c \in ScanCalls : PromptFits(scan[c])'
    BY <1>1, NoCallFits DEF PromptFits
  <2> QED
    BY <2>2, <2>3
<1> QED
  BY <1>4, <1>5, <1>6, <1>7, <1>8 DEF CacheInv

LEMMA CacheInvStays == CacheInv /\ [Caches!Next]_Caches!vars => CacheInv'
<1> SUFFICES ASSUME CacheInv, [Caches!Next]_Caches!vars PROVE CacheInv'
  OBVIOUS
<1>1. CASE UNCHANGED Caches!vars
  BY <1>1, ExpireKeeps
<1>2. CASE Caches!Expire \/ Caches!Crash
  BY <1>2, ExpireKeeps, CacheCrashKeeps
<1>3. ASSUME NEW f \in Files, Caches!Write(f) \/ Caches!SoftDelete(f) PROVE CacheInv'
  BY <1>3, WriteHolds, SoftDeleteKeeps
<1>4. ASSUME NEW c \in ScanCalls, Caches!Step(c) PROVE CacheInv'
  <2>1. CASE Caches!Begin(c) \/ Caches!Load(c) \/ Caches!ScanDone(c) \/ Caches!Return(c)
    BY <2>1, BeginHolds, LoadHolds, ScanDoneKeeps, ReturnKeeps
  <2>2. CASE Caches!WriteLocked(c) \/ Caches!WriteShared(c) \/ Caches!Written(c)
             \/ Caches!Rename(c)
    BY <2>2, WriteLockedKeeps, WriteSharedKeeps, WrittenKeeps, RenameKeeps
  <2>3. CASE Caches!WriteIndex(c) \/ Caches!WriteManifest(c) \/ Caches!WriteFails(c)
    BY <2>3, WriteIndexKeeps, WriteManifestKeeps, WriteFailsKeeps
  <2>4. ASSUME NEW f \in Files, Caches!TakePrint(c, f) \/ Caches!Scan(c, f) PROVE CacheInv'
    BY <2>4, TakePrintKeeps, ScanKeeps
  <2> QED
    BY <1>4, <2>1, <2>2, <2>3, <2>4 DEF Caches!Step
<1> QED
  BY <1>1, <1>2, <1>3, <1>4 DEF Caches!Next

(* What is kept of a file under the fingerprint it has now was made of what  *)
(* it holds now, and a call never returns less than what the files held      *)
(* when it was made: for any number of files and calls, two that fill one    *)
(* temporary file at the same time among them, and any crashes.             *)
THEOREM CachesAreCurrent == Caches!Spec => [](Caches!KeptIsCurrent /\ Caches!AnswerCurrent)
<1> QED
  BY CacheInvStarts, CacheInvStays, CacheInvSuffices, PTL DEF Caches!Spec

-----------------------------------------------------------------------------
(* The index of runs *)

Reports == [session : Nat, cost : 1 .. MaxCost]

\* An entry is as new as a fingerprint, or its meta.json has slipped through.
Covers(r, entry, print) ==
  entry # Indexing!NoEntry /\ print # Indexing!NoPrint =>
    entry.reports >= print.events /\ (entry.version >= print.meta \/ r \in slipped)

\* Neither is newer than the run.
EntryFits(r, entry) ==
  entry # Indexing!NoEntry =>
    entry.reports \in 0 .. Len(journal[r]) /\ entry.version \in 0 .. meta[r].version
PrintFits(r, print) ==
  print # Indexing!NoPrint => print.events \in 0 .. Len(journal[r]) /\ print.meta \in 0 .. meta[r].version

IndexShape ==
  /\ journal \in [IndexRuns -> Seq(Reports)]
  /\ meta \in [IndexRuns -> [version : Nat, deleted : BOOLEAN]]
  /\ DOMAIN index = IndexRuns /\ DOMAIN manifest = IndexRuns

DiskFits ==
  \A r \in IndexRuns :
    EntryFits(r, index[r]) /\ PrintFits(r, manifest[r]) /\ Covers(r, index[r], manifest[r])

Walking == {"next", "manifest", "publish"}
Visiting == {"print", "scan"}

BuildShape ==
  \/ build = Indexing!NoBuild
  \/ /\ build.step \in Walking /\ DOMAIN build = {"step", "todo", "entries", "prints"}
     /\ DOMAIN build.entries = IndexRuns /\ DOMAIN build.prints = IndexRuns
  \/ /\ build.step \in Visiting
     /\ DOMAIN build = {"step", "run", "version", "todo", "entries", "prints"}
     /\ DOMAIN build.entries = IndexRuns /\ DOMAIN build.prints = IndexRuns
     /\ build.run \in IndexRuns /\ build.run \in build.todo

\* What a build has made of the runs it has met covers their fingerprints, the
\* new ones and those that are on disk until it replaces them; of the others it
\* still has the old fingerprints.
BuildFits ==
  build # Indexing!NoBuild =>
    /\ \A r \in IndexRuns :
         /\ EntryFits(r, build.entries[r]) /\ PrintFits(r, build.prints[r])
         /\ Covers(r, build.entries[r], build.prints[r])
         /\ build.step \notin {"manifest", "publish"} =>
              Covers(r, build.entries[r], manifest[r])
    /\ \A r \in IndexRuns : r \in build.todo =>
         /\ build.entries[r] = Indexing!NoEntry
         /\ build.step \in {"next", "print"} \/ (build.step = "scan" /\ r # build.run) =>
              build.prints[r] = manifest[r]
    /\ build.step = "manifest" => index = build.entries

\* The meta.json a build has read is the one it takes the fingerprint of, or it
\* has been replaced in between.
VisitFits ==
  build # Indexing!NoBuild /\ build.step \in Visiting =>
    LET r == build.run
    IN /\ build.version \in 0 .. meta[r].version
       /\ manifest[r] # Indexing!NoPrint => build.version >= manifest[r].meta
       /\ build.step = "print" => build.version = meta[r].version \/ r \in slipped
       /\ build.step = "scan" /\ build.prints[r] # Indexing!NoPrint =>
            build.version >= build.prints[r].meta \/ r \in slipped

IndexInv == IndexShape /\ DiskFits /\ BuildShape /\ BuildFits /\ VisitFits

LEMMA IndexInvStarts == Indexing!Init => IndexInv
<1> SUFFICES ASSUME Indexing!Init PROVE IndexInv
  OBVIOUS
<1> USE DEF Indexing!Init, Indexing!Nothing
<1>1. IndexShape
  BY DEF IndexShape
<1>2. DiskFits
  BY DEF DiskFits, EntryFits, PrintFits, Covers
<1> QED
  BY <1>1, <1>2 DEF IndexInv, BuildShape, BuildFits, VisitFits

LEMMA PrintIsSome == \A r \in IndexRuns : Indexing!Current(r) # Indexing!NoPrint
<1> SUFFICES ASSUME NEW r \in IndexRuns PROVE Indexing!Current(r) # Indexing!NoPrint
  OBVIOUS
<1>1. "events" \in DOMAIN Indexing!Current(r) /\ "events" \notin DOMAIN Indexing!NoPrint
  BY DEF Indexing!Current, Indexing!NoPrint
<1> QED
  BY <1>1


LEMMA IndexInvSuffices == IndexInv => Indexing!KeptIsCurrent
<1> SUFFICES ASSUME IndexInv, NEW r \in IndexRuns, index[r] # Indexing!NoEntry, manifest[r] = Indexing!Current(r)
             PROVE  /\ index[r].reports = Len(journal[r])
                    /\ index[r].version = meta[r].version \/ r \in slipped
  BY DEF Indexing!KeptIsCurrent
<1>1. manifest[r] # Indexing!NoPrint /\ manifest[r].events = Len(journal[r])
      /\ manifest[r].meta = meta[r].version
  BY PrintIsSome DEF Indexing!Current
<1>2. Len(journal[r]) \in Nat /\ meta[r].version \in Nat
  BY DEF IndexInv, IndexShape
<1> QED
  BY <1>1, <1>2 DEF IndexInv, DiskFits, EntryFits, Covers

LEMMA RunsChange ==
    ASSUME IndexInv, IndexShape', UNCHANGED <<index, manifest, build>>,
           slipped \subseteq slipped',
           \A r \in IndexRuns : Len(journal'[r]) >= Len(journal[r]) /\ meta'[r].version >= meta[r].version,
           build # Indexing!NoBuild /\ build.step = "print" =>
             meta'[build.run] = meta[build.run] \/ build.run \in slipped'
    PROVE  IndexInv'
<1>1. \A r \in IndexRuns : /\ Len(journal[r]) \in Nat /\ Len(journal'[r]) \in Nat
                      /\ meta[r].version \in Nat /\ meta'[r].version \in Nat
  BY DEF IndexInv, IndexShape
<1>2. ASSUME NEW r \in IndexRuns, NEW x
      PROVE  /\ EntryFits(r, x) => EntryFits(r, x)'
             /\ PrintFits(r, x) => PrintFits(r, x)'
             /\ \A p : Covers(r, x, p) => Covers(r, x, p)'
  BY <1>1 DEF EntryFits, PrintFits, Covers
<1>3. DiskFits'
  <2> SUFFICES ASSUME NEW r \in IndexRuns
               PROVE  /\ EntryFits(r, index[r])' /\ PrintFits(r, manifest[r])'
                      /\ Covers(r, index[r], manifest[r])'
    BY DEF DiskFits
  <2>1. EntryFits(r, index[r]) /\ PrintFits(r, manifest[r]) /\ Covers(r, index[r], manifest[r])
    BY DEF IndexInv, DiskFits
  <2>2. index' = index /\ manifest' = manifest
    OBVIOUS
  <2> QED
    BY <1>1, <2>1, <2>2 DEF EntryFits, PrintFits, Covers
<1>4. BuildShape'
  BY DEF IndexInv, BuildShape
<1>5. BuildFits'
  <2> SUFFICES ASSUME build # Indexing!NoBuild, NEW r \in IndexRuns
               PROVE  /\ EntryFits(r, build.entries[r])' /\ PrintFits(r, build.prints[r])'
                      /\ Covers(r, build.entries[r], build.prints[r])'
                      /\ build.step \notin {"manifest", "publish"} =>
                           Covers(r, build.entries[r], manifest[r])'
    BY DEF IndexInv, BuildFits
  <2>1. /\ EntryFits(r, build.entries[r]) /\ PrintFits(r, build.prints[r])
        /\ Covers(r, build.entries[r], build.prints[r])
        /\ build.step \notin {"manifest", "publish"} =>
             Covers(r, build.entries[r], manifest[r])
    BY DEF IndexInv, BuildFits
  <2>2. manifest' = manifest /\ build' = build
    OBVIOUS
  <2> QED
    BY <1>1, <2>1, <2>2 DEF EntryFits, PrintFits, Covers
<1>6. VisitFits'
  <2> SUFFICES ASSUME build # Indexing!NoBuild, build.step \in Visiting PROVE VisitFits'
    BY DEF VisitFits
  <2>1. build.run \in IndexRuns
    BY DEF IndexInv, BuildShape, Walking, Visiting
  <2>2. manifest' = manifest /\ build' = build
    OBVIOUS
  <2> QED
    BY <1>1, <2>1, <2>2 DEF IndexInv, VisitFits
<1> QED
  BY <1>3, <1>4, <1>5, <1>6 DEF IndexInv

LEMMA ReportKeeps == ASSUME IndexInv, NEW r \in IndexRuns, Indexing!Report(r) PROVE IndexInv'
<1>1. journal \in [IndexRuns -> Seq(Reports)]
  BY DEF IndexInv, IndexShape
<1>2. PICK c \in 1 .. MaxCost, new \in BOOLEAN :
        journal' = [journal EXCEPT ![r] = Append(@,
          [session |-> IF @ = <<>> THEN 1 ELSE Indexing!Last(@).session + (IF new THEN 1 ELSE 0),
           cost |-> c])]
  BY DEF Indexing!Report
<1> DEFINE n == IF journal[r] = <<>> THEN 1 ELSE Indexing!Last(journal[r]).session + (IF new THEN 1 ELSE 0)
           report == [session |-> n, cost |-> c]
<1>3. journal[r] # <<>> => Indexing!Last(journal[r]) \in Reports
  BY <1>1 DEF Indexing!Last
<1>4. report \in Reports
  BY <1>3 DEF Reports
<1>5. journal' = [journal EXCEPT ![r] = Append(journal[r], report)]
  BY <1>1, <1>2
<1> HIDE DEF report, n
<1>6. /\ journal' \in [IndexRuns -> Seq(Reports)]
      /\ \A s \in IndexRuns : Len(journal'[s]) >= Len(journal[s])
  BY <1>1, <1>4, <1>5
<1>7. IndexShape'
  BY <1>6 DEF Indexing!Report, IndexInv, IndexShape
<1>8. \A s \in IndexRuns : meta'[s].version >= meta[s].version
  BY DEF Indexing!Report, IndexInv, IndexShape
<1> QED
  BY <1>6, <1>7, <1>8, RunsChange DEF Indexing!Report

LEMMA WriteMetaKeeps == ASSUME IndexInv, NEW r \in IndexRuns, Indexing!WriteMeta(r) PROVE IndexInv'
<1>1. meta \in [IndexRuns -> [version : Nat, deleted : BOOLEAN]] /\ journal \in [IndexRuns -> Seq(Reports)]
  BY DEF IndexInv, IndexShape
<1>2. PICK gone \in BOOLEAN :
        meta' = [meta EXCEPT ![r] = [version |-> @.version + 1, deleted |-> @.deleted \/ gone]]
  BY DEF Indexing!WriteMeta
<1> DEFINE d == meta[r].deleted \/ gone
<1>3. d \in BOOLEAN
  OBVIOUS
<1>4. meta' = [meta EXCEPT ![r] = [version |-> meta[r].version + 1, deleted |-> d]]
  BY <1>1, <1>2
<1> HIDE DEF d
<1>5. /\ meta' \in [IndexRuns -> [version : Nat, deleted : BOOLEAN]]
      /\ \A s \in IndexRuns : meta'[s].version >= meta[s].version
      /\ \A s \in IndexRuns : s # r => meta'[s] = meta[s]
  BY <1>1, <1>3, <1>4
<1>6. IndexShape' /\ \A s \in IndexRuns : Len(journal'[s]) >= Len(journal[s])
  BY <1>1, <1>5 DEF Indexing!WriteMeta, IndexInv, IndexShape
<1>7. build # Indexing!NoBuild /\ build.step = "print" =>
        meta'[build.run] = meta[build.run] \/ build.run \in slipped'
  <2> SUFFICES ASSUME build # Indexing!NoBuild, build.step = "print"
               PROVE  meta'[build.run] = meta[build.run] \/ build.run \in slipped'
    OBVIOUS
  <2>1. build.run \in IndexRuns
    BY DEF IndexInv, BuildShape, Walking
  <2> QED
    BY <1>5, <2>1 DEF Indexing!WriteMeta
<1> QED
  BY <1>5, <1>6, <1>7, RunsChange DEF Indexing!WriteMeta

\* What nobody builds or has built stays as it is.
LEMMA BuildEnds ==
    ASSUME IndexInv, build' = Indexing!NoBuild, UNCHANGED <<journal, meta, index, manifest, slipped>>
    PROVE  IndexInv'
<1>1. IndexShape' /\ DiskFits'
  BY DEF IndexInv, IndexShape, DiskFits, EntryFits, PrintFits, Covers
<1> QED
  BY <1>1 DEF IndexInv, BuildShape, BuildFits, VisitFits

LEMMA BeginBuilds == ASSUME IndexInv, Indexing!Begin PROVE IndexInv'
<1>1. /\ build' = [step |-> "next", todo |-> IndexRuns, entries |-> Indexing!Nothing, prints |-> manifest]
      /\ UNCHANGED <<journal, meta, index, manifest, slipped>>
  BY DEF Indexing!Begin
<1>2. IndexShape' /\ DiskFits'
  BY <1>1 DEF IndexInv, IndexShape, DiskFits, EntryFits, PrintFits, Covers
<1>3. /\ build'.step = "next" /\ build'.todo = IndexRuns /\ build'.prints = manifest
      /\ DOMAIN build' = {"step", "todo", "entries", "prints"}
      /\ DOMAIN build'.entries = IndexRuns /\ DOMAIN build'.prints = IndexRuns
      /\ \A r \in IndexRuns : build'.entries[r] = Indexing!NoEntry
  BY <1>1 DEF Indexing!Nothing, IndexInv, IndexShape
<1>4. BuildShape'
  BY <1>3 DEF BuildShape, Walking
<1>5. BuildFits'
  <2>1. \A r \in IndexRuns : PrintFits(r, build.prints[r])'
    BY <1>1, <1>3 DEF IndexInv, DiskFits, PrintFits
  <2> QED
    BY <1>1, <1>3, <2>1 DEF BuildFits, EntryFits, Covers
<1>6. VisitFits'
  BY <1>3 DEF VisitFits, Visiting
<1> QED
  BY <1>2, <1>4, <1>5, <1>6 DEF IndexInv

\* What a build walks through leaves the files and the runs alone.
LEMMA FilesStay ==
    ASSUME IndexInv, UNCHANGED <<journal, meta, index, manifest, slipped>>
    PROVE  /\ IndexShape' /\ DiskFits'
           /\ \A r \in IndexRuns : \A x, p :
                /\ EntryFits(r, x)' <=> EntryFits(r, x)
                /\ PrintFits(r, x)' <=> PrintFits(r, x)
                /\ Covers(r, x, p)' <=> Covers(r, x, p)
BY DEF IndexInv, IndexShape, DiskFits, EntryFits, PrintFits, Covers

\* A build after one that differs from it in one run at most.
LEMMA OneRunBuilt ==
    ASSUME IndexInv, UNCHANGED <<journal, meta, index, manifest, slipped>>,
           build # Indexing!NoBuild, build.step \in {"next", "print", "scan"}, build'.step = "next",
           NEW r \in IndexRuns, build'.todo = build.todo \ {r},
           build.step \in Visiting => r = build.run,
           DOMAIN build' = {"step", "todo", "entries", "prints"},
           DOMAIN build'.entries = IndexRuns, DOMAIN build'.prints = IndexRuns,
           \A s \in IndexRuns \ {r} : build'.entries[s] = build.entries[s]
                                 /\ build'.prints[s] = build.prints[s],
           EntryFits(r, build'.entries[r]), PrintFits(r, build'.prints[r]),
           Covers(r, build'.entries[r], build'.prints[r]),
           Covers(r, build'.entries[r], manifest[r])
    PROVE  IndexInv'
<1>1. BuildShape'
  BY DEF BuildShape, Walking
<1>2. VisitFits'
  BY DEF VisitFits, Visiting
<1>3. ASSUME NEW s \in IndexRuns
      PROVE  /\ EntryFits(s, build'.entries[s]) /\ PrintFits(s, build'.prints[s])
             /\ Covers(s, build'.entries[s], build'.prints[s])
             /\ Covers(s, build'.entries[s], manifest[s])
             /\ s \in build'.todo =>
                  build'.entries[s] = Indexing!NoEntry /\ build'.prints[s] = manifest[s]
  BY DEF IndexInv, BuildFits, Visiting
<1>4. BuildFits'
  <2>1. ASSUME NEW s \in IndexRuns
        PROVE  /\ EntryFits(s, build.entries[s])' /\ PrintFits(s, build.prints[s])'
               /\ Covers(s, build.entries[s], build.prints[s])'
               /\ Covers(s, build.entries[s], manifest[s])'
    BY <1>3 DEF EntryFits, PrintFits, Covers
  <2> QED
    BY <1>3, <2>1 DEF BuildFits
<1> QED
  BY <1>1, <1>2, <1>4, FilesStay DEF IndexInv

LEMMA ReadMetaKeeps ==
    ASSUME IndexInv, build # Indexing!NoBuild, NEW r \in IndexRuns, Indexing!ReadMeta(r) PROVE IndexInv'
<1>1. /\ build.step = "next" /\ r \in build.todo
      /\ DOMAIN build = {"step", "todo", "entries", "prints"}
      /\ DOMAIN build.entries = IndexRuns /\ DOMAIN build.prints = IndexRuns
  BY DEF Indexing!ReadMeta, IndexInv, BuildShape, Visiting
<1>2. UNCHANGED <<journal, meta, index, manifest, slipped>>
  BY DEF Indexing!ReadMeta
<1>3. /\ build.entries[r] = Indexing!NoEntry /\ build.prints[r] = manifest[r]
      /\ meta[r].version \in Nat /\ Len(journal[r]) \in Nat
      /\ PrintFits(r, manifest[r])
  BY <1>1 DEF IndexInv, BuildFits, IndexShape, DiskFits
<1>4. CASE meta[r].deleted \/ journal[r] = <<>>
  <2>1. build' = [build EXCEPT !.todo = @ \ {r}, !.prints[r] = Indexing!NoPrint]
    BY <1>4 DEF Indexing!ReadMeta
  <2>2. /\ build'.step = "next" /\ build'.todo = build.todo \ {r}
        /\ build'.entries = build.entries
        /\ DOMAIN build' = {"step", "todo", "entries", "prints"}
    BY <1>1, <2>1
  <2>3. DOMAIN build'.prints = IndexRuns /\ build'.prints[r] = Indexing!NoPrint
        /\ \A s \in IndexRuns \ {r} : build'.prints[s] = build.prints[s]
    BY <1>1, <2>1
  <2>4. EntryFits(r, build'.entries[r]) /\ PrintFits(r, build'.prints[r])
        /\ Covers(r, build'.entries[r], build'.prints[r])
        /\ Covers(r, build'.entries[r], manifest[r])
    BY <1>3, <2>2, <2>3 DEF EntryFits, PrintFits, Covers
  <2> QED
    BY <1>1, <1>2, <2>2, <2>3, <2>4, OneRunBuilt DEF Visiting
<1>5. CASE ~(meta[r].deleted \/ journal[r] = <<>>)
  <2>1. build' = [step |-> "print", run |-> r, version |-> meta[r].version,
                  todo |-> build.todo, entries |-> build.entries, prints |-> build.prints]
    BY <1>5 DEF Indexing!ReadMeta
  <2>2. /\ build'.step = "print" /\ build'.run = r /\ build'.version = meta[r].version
        /\ build'.todo = build.todo /\ build'.entries = build.entries
        /\ build'.prints = build.prints
        /\ DOMAIN build' = {"step", "run", "version", "todo", "entries", "prints"}
    BY <2>1
  <2>3. BuildShape'
    BY <1>1, <2>2 DEF BuildShape, Visiting
  <2>4. BuildFits'
    <3>1. ASSUME NEW s \in IndexRuns
          PROVE  /\ EntryFits(s, build.entries[s])' /\ PrintFits(s, build.prints[s])'
                 /\ Covers(s, build.entries[s], build.prints[s])'
                 /\ Covers(s, build.entries[s], manifest[s])'
                 /\ s \in build.todo => build.entries[s] = Indexing!NoEntry
                                        /\ build.prints[s] = manifest[s]
      BY <1>1, <1>2, <2>2 DEF IndexInv, BuildFits, EntryFits, PrintFits, Covers
    <3> QED
      BY <1>2, <2>2, <3>1 DEF BuildFits
  <2>5. VisitFits'
    BY <1>2, <1>3, <2>2 DEF VisitFits, PrintFits
  <2> QED
    BY <1>2, <2>3, <2>4, <2>5, FilesStay DEF IndexInv
<1> QED
  BY <1>4, <1>5

LEMMA TakePrintBuilds == ASSUME IndexInv, build # Indexing!NoBuild, Indexing!TakePrint PROVE IndexInv'
<1> DEFINE r == build.run
<1>1. /\ build.step = "print" /\ r \in IndexRuns /\ r \in build.todo
      /\ DOMAIN build = {"step", "run", "version", "todo", "entries", "prints"}
      /\ DOMAIN build.entries = IndexRuns /\ DOMAIN build.prints = IndexRuns
  BY DEF Indexing!TakePrint, IndexInv, BuildShape, Walking
<1>2. UNCHANGED <<journal, meta, index, manifest, slipped>>
  BY DEF Indexing!TakePrint
<1>3. /\ build.entries[r] = Indexing!NoEntry /\ build.prints[r] = manifest[r]
      /\ meta[r].version \in Nat /\ Len(journal[r]) \in Nat
      /\ EntryFits(r, index[r]) /\ PrintFits(r, manifest[r])
      /\ Covers(r, index[r], manifest[r])
  BY <1>1 DEF IndexInv, BuildFits, IndexShape, DiskFits
<1>4. CASE manifest[r] = Indexing!Current(r) /\ index[r] # Indexing!NoEntry
  <2>1. build' = [step |-> "next", todo |-> build.todo \ {r},
                  entries |-> [build.entries EXCEPT ![r] = index[r]], prints |-> build.prints]
    BY <1>4 DEF Indexing!TakePrint
  <2>2. /\ build'.step = "next" /\ build'.todo = build.todo \ {r}
        /\ build'.prints = build.prints /\ DOMAIN build'.entries = IndexRuns
        /\ DOMAIN build' = {"step", "todo", "entries", "prints"}
        /\ build'.entries[r] = index[r]
        /\ \A s \in IndexRuns \ {r} : build'.entries[s] = build.entries[s]
    BY <1>1, <2>1
  <2> QED
    BY <1>1, <1>2, <1>3, <2>2, OneRunBuilt
<1>5. CASE ~(manifest[r] = Indexing!Current(r) /\ index[r] # Indexing!NoEntry)
  <2>1. build' = [build EXCEPT !.step = "scan", !.prints[r] = Indexing!Current(r)]
    BY <1>5 DEF Indexing!TakePrint
  <2>2. /\ build'.step = "scan" /\ build'.run = r /\ build'.version = build.version
        /\ build'.todo = build.todo /\ build'.entries = build.entries
        /\ DOMAIN build' = {"step", "run", "version", "todo", "entries", "prints"}
    BY <1>1, <2>1
  <2>3. DOMAIN build'.prints = IndexRuns /\ build'.prints[r] = Indexing!Current(r)
        /\ \A s \in IndexRuns \ {r} : build'.prints[s] = build.prints[s]
    BY <1>1, <2>1
  <2>4. BuildShape'
    BY <1>1, <2>2, <2>3 DEF BuildShape, Visiting
  <2>5. PrintFits(r, Indexing!Current(r)) /\ Indexing!Current(r).meta = meta[r].version
    BY <1>3 DEF PrintFits, Indexing!Current
  <2>6. BuildFits'
    <3>1. ASSUME NEW s \in IndexRuns
          PROVE  /\ EntryFits(s, build'.entries[s]) /\ PrintFits(s, build'.prints[s])
                 /\ Covers(s, build'.entries[s], build'.prints[s])
                 /\ Covers(s, build'.entries[s], manifest[s])
                 /\ s \in build.todo => build.entries[s] = Indexing!NoEntry
                 /\ s \in build.todo /\ s # r => build'.prints[s] = manifest[s]
      BY <1>1, <1>3, <2>2, <2>3, <2>5 DEF IndexInv, BuildFits, Covers
    <3>2. ASSUME NEW s \in IndexRuns
          PROVE  /\ EntryFits(s, build.entries[s])' /\ PrintFits(s, build.prints[s])'
                 /\ Covers(s, build.entries[s], build.prints[s])'
                 /\ Covers(s, build.entries[s], manifest[s])'
      BY <1>2, <3>1 DEF EntryFits, PrintFits, Covers
    <3> QED
      BY <1>2, <2>2, <3>1, <3>2 DEF BuildFits
  <2>7. VisitFits'
    BY <1>1, <1>2, <1>3, <2>2, <2>3, <2>5 DEF IndexInv, VisitFits, Visiting
  <2> QED
    BY <1>2, <2>4, <2>6, <2>7, FilesStay DEF IndexInv
<1> QED
  BY <1>4, <1>5

LEMMA ScanBuilds == ASSUME IndexInv, build # Indexing!NoBuild, Indexing!Scan PROVE IndexInv'
<1> DEFINE r == build.run
           entry == Indexing!EntryOf(r, build.version)
<1>1. /\ build.step = "scan" /\ r \in IndexRuns /\ r \in build.todo
      /\ DOMAIN build.entries = IndexRuns /\ DOMAIN build.prints = IndexRuns
  BY DEF Indexing!Scan, IndexInv, BuildShape, Walking
<1>2. UNCHANGED <<journal, meta, index, manifest, slipped>>
  BY DEF Indexing!Scan
<1>3. entry.reports = Len(journal[r]) /\ entry.version = build.version
  BY DEF Indexing!EntryOf
<1>4. build' = [step |-> "next", todo |-> build.todo \ {r},
                entries |-> [build.entries EXCEPT ![r] = entry], prints |-> build.prints]
  BY DEF Indexing!Scan
<1> HIDE DEF entry
<1>5. /\ build'.step = "next" /\ build'.todo = build.todo \ {r}
      /\ build'.prints = build.prints /\ DOMAIN build'.entries = IndexRuns
      /\ DOMAIN build' = {"step", "todo", "entries", "prints"}
      /\ build'.entries[r] = entry
      /\ \A s \in IndexRuns \ {r} : build'.entries[s] = build.entries[s]
  BY <1>1, <1>4
<1>6. /\ meta[r].version \in Nat /\ Len(journal[r]) \in Nat
      /\ PrintFits(r, manifest[r]) /\ PrintFits(r, build.prints[r])
  BY <1>1 DEF IndexInv, IndexShape, DiskFits, BuildFits
<1>7. /\ build.version \in 0 .. meta[r].version
      /\ manifest[r] # Indexing!NoPrint => build.version >= manifest[r].meta
      /\ build.prints[r] # Indexing!NoPrint => build.version >= build.prints[r].meta \/ r \in slipped
  BY <1>1 DEF IndexInv, VisitFits, Visiting
<1>8. EntryFits(r, entry) /\ Covers(r, entry, build.prints[r]) /\ Covers(r, entry, manifest[r])
  BY <1>3, <1>6, <1>7 DEF EntryFits, PrintFits, Covers
<1> QED
  BY <1>1, <1>2, <1>5, <1>6, <1>8, OneRunBuilt

LEMMA WriteIndexBuilds == ASSUME IndexInv, build # Indexing!NoBuild, Indexing!WriteIndex PROVE IndexInv'
<1>1. /\ build.step = "next" /\ DOMAIN build = {"step", "todo", "entries", "prints"}
      /\ DOMAIN build.entries = IndexRuns /\ DOMAIN build.prints = IndexRuns /\ build.todo = {}
  BY DEF Indexing!WriteIndex, IndexInv, BuildShape, Visiting
<1>2. /\ index' = build.entries /\ build' = [build EXCEPT !.step = "manifest"]
      /\ UNCHANGED <<journal, meta, manifest, slipped>>
  BY DEF Indexing!WriteIndex, Indexing!Goto
<1>3. /\ build'.step = "manifest" /\ build'.todo = {} /\ build'.entries = build.entries
      /\ build'.prints = build.prints /\ DOMAIN build' = {"step", "todo", "entries", "prints"}
  BY <1>1, <1>2
<1>4. IndexShape' /\ BuildShape'
  BY <1>1, <1>2, <1>3 DEF IndexInv, IndexShape, BuildShape, Walking
<1>5. ASSUME NEW s \in IndexRuns
      PROVE  /\ EntryFits(s, build.entries[s]) /\ PrintFits(s, build.prints[s])
             /\ Covers(s, build.entries[s], build.prints[s])
             /\ Covers(s, build.entries[s], manifest[s]) /\ PrintFits(s, manifest[s])
  BY <1>1 DEF IndexInv, BuildFits, DiskFits
<1>6. DiskFits'
  BY <1>2, <1>5 DEF DiskFits, EntryFits, PrintFits, Covers
<1>7. BuildFits'
  BY <1>2, <1>3, <1>5 DEF BuildFits, EntryFits, PrintFits, Covers
<1>8. VisitFits'
  BY <1>3 DEF VisitFits, Visiting
<1> QED
  BY <1>4, <1>6, <1>7, <1>8 DEF IndexInv

LEMMA WriteManifestBuilds == ASSUME IndexInv, build # Indexing!NoBuild, Indexing!WriteManifest PROVE IndexInv'
<1>1. /\ build.step = "manifest" /\ DOMAIN build = {"step", "todo", "entries", "prints"}
      /\ DOMAIN build.entries = IndexRuns /\ DOMAIN build.prints = IndexRuns /\ index = build.entries
  BY DEF Indexing!WriteManifest, IndexInv, BuildShape, BuildFits, Visiting
<1>2. /\ manifest' = build.prints /\ build' = [build EXCEPT !.step = "publish"]
      /\ UNCHANGED <<journal, meta, index, slipped>>
  BY DEF Indexing!WriteManifest, Indexing!Goto
<1>3. /\ build'.step = "publish" /\ build'.todo = build.todo /\ build'.entries = build.entries
      /\ build'.prints = build.prints /\ DOMAIN build' = {"step", "todo", "entries", "prints"}
  BY <1>1, <1>2
<1>4. IndexShape' /\ BuildShape'
  BY <1>1, <1>2, <1>3 DEF IndexInv, IndexShape, BuildShape, Walking
<1>5. ASSUME NEW s \in IndexRuns
      PROVE  /\ EntryFits(s, build.entries[s]) /\ PrintFits(s, build.prints[s])
             /\ Covers(s, build.entries[s], build.prints[s])
             /\ s \in build.todo => build.entries[s] = Indexing!NoEntry
  BY <1>1 DEF IndexInv, BuildFits, DiskFits
<1>6. DiskFits'
  BY <1>1, <1>2, <1>5 DEF DiskFits, EntryFits, PrintFits, Covers
<1>7. BuildFits'
  BY <1>2, <1>3, <1>5 DEF BuildFits, EntryFits, PrintFits, Covers
<1>8. VisitFits'
  BY <1>3 DEF VisitFits, Visiting
<1> QED
  BY <1>4, <1>6, <1>7, <1>8 DEF IndexInv

LEMMA IndexInvStays == IndexInv /\ [Indexing!Next]_Indexing!vars => IndexInv'
<1> SUFFICES ASSUME IndexInv, [Indexing!Next]_Indexing!vars PROVE IndexInv'
  OBVIOUS
<1>1. CASE UNCHANGED Indexing!vars \/ Indexing!Expire
  <2>1. UNCHANGED <<journal, meta, index, manifest, build, slipped>>
    BY <1>1 DEF Indexing!vars, Indexing!Expire
  <2> QED
    BY <2>1, FilesStay DEF IndexInv, BuildShape, BuildFits, VisitFits,
       EntryFits, PrintFits, Covers
<1>2. ASSUME NEW r \in IndexRuns, Indexing!Report(r) \/ Indexing!WriteMeta(r) PROVE IndexInv'
  BY <1>2, ReportKeeps, WriteMetaKeeps
<1>3. CASE Indexing!Begin
  BY <1>3, BeginBuilds
<1>4. CASE Indexing!Crash \/ Indexing!WriteFails \/ Indexing!Publish
  BY <1>4, BuildEnds DEF Indexing!Crash, Indexing!WriteFails, Indexing!Publish
<1>5. ASSUME build # Indexing!NoBuild, NEW r \in IndexRuns, Indexing!ReadMeta(r) PROVE IndexInv'
  BY <1>5, ReadMetaKeeps
<1>6. CASE build # Indexing!NoBuild /\ (Indexing!TakePrint \/ Indexing!Scan \/ Indexing!WriteIndex \/ Indexing!WriteManifest)
  BY <1>6, TakePrintBuilds, ScanBuilds, WriteIndexBuilds, WriteManifestBuilds
<1> QED
  BY <1>1, <1>2, <1>3, <1>4, <1>5, <1>6 DEF Indexing!Next

(* An entry that the next build will keep holds all the events of its run,   *)
(* and the state of its meta.json unless that was replaced between its      *)
(* reading and its fingerprint: for any number of runs and writes, and any   *)
(* crash or failure between the two files.                                  *)
THEOREM EntriesAreCurrent == Indexing!Spec => []Indexing!KeptIsCurrent
<1> QED
  BY IndexInvStarts, IndexInvStays, IndexInvSuffices, PTL DEF Indexing!Spec
=============================================================================
