----------------------------- MODULE CliImport -----------------------------
(***************************************************************************)
(* Import of a Claude CLI transcript into a run, and the syncs that bring   *)
(* in what the CLI has written since (storage/cli_sessions.rs).             *)
(*                                                                         *)
(* The transcript belongs to the CLI, which appends to it at any time, a    *)
(* piece of a line first perhaps, and may rewrite it shorter.  An importer  *)
(* reads it line by line; what a line yields goes to events.jsonl at once,  *)
(* and the key of what was written to import-index.jsonl through a buffer.  *)
(* Two records say what has been imported: the watermark in meta.json, an   *)
(* offset, and the index (ImportIndex).                                     *)
(*                                                                         *)
(* A line is a prompt of the user or a reply with its token usage; offsets  *)
(* count half lines.  Tool results and the other lines go the way of a      *)
(* reply.  Modification times are left out: they only grow, so that the     *)
(* size decides whether the file is still the one that was imported.  The   *)
(* CLI rewrites the file while nobody reads it.                             *)
(***************************************************************************)
EXTENDS Integers, Sequences, ImportIndex

CONSTANTS
  Importers,    \* calls of import_session and sync_session at the same time
  MaxLines,     \* bound: lines the CLI writes
  MaxStops      \* bound: syncs that fail or that a crash ends

Lines == 1..MaxLines

VARIABLES
  file,       \* the complete lines of the transcript
  torn,       \* half of the next line is in the file
  prompts,    \* which lines are prompts
  there,      \* meta.json has been saved
  watermark,  \* cli_import_watermark.offset
  imported,   \* how often the event of each line is in events.jsonl
  usage,      \* how often the usage of each turn is in events.jsonl
  index,      \* import-index.jsonl
  job,        \* what each importer does
  fits,       \* history: the file is still the one the watermark was made for
  passed,     \* history: lines read when half written, or taken for old ones
  rough,      \* history: syncs overlapped
  stops       \* syncs so far that did not end well

fileVars == <<file, torn, prompts>>
eventVars == <<imported, usage>>
history == <<fits, passed, rough>>
vars == <<fileVars, there, watermark, eventVars, index, job, history, stops>>

(* event_key: what a line yields, the usage a prompt closes, the last usage. *)
WriteKeys == {<<k, n>> : k \in {"line", "usage", "finalize"}, n \in Lines}

NoJob == [kind |-> "none", at |-> 0, size |-> 0, turn |-> 0, pending |-> FALSE,
          skip |-> {}, known |-> {}, fresh |-> <<>>]
Jobs == [kind : {"none", "import", "sync", "save"}, at : Nat, size : Nat, turn : Nat, pending : BOOLEAN,
         skip : SUBSET WriteKeys, known : SUBSET Lines, fresh : Seq(WriteKeys)]

TypeOK ==
  /\ file \in Seq(Lines) /\ torn \in BOOLEAN /\ prompts \subseteq Lines
  /\ there \in BOOLEAN /\ watermark \in Nat
  /\ imported \in [Lines -> Nat] /\ usage \in [Lines -> Nat]
  /\ SkipSet(index) \subseteq WriteKeys /\ IsABag(index.lost)
  /\ job \in [Importers -> Jobs]
  /\ fits \in BOOLEAN /\ passed \subseteq Lines /\ rough \in BOOLEAN
  /\ stops \in 0..MaxStops

Init ==
  /\ file = <<>> /\ torn = FALSE /\ prompts = {}
  /\ there = FALSE /\ watermark = 0
  /\ imported = [i \in Lines |-> 0] /\ usage = imported
  /\ index = EmptyIndex
  /\ job = [c \in Importers |-> NoJob]
  /\ fits = TRUE /\ passed = {} /\ rough = FALSE
  /\ stops = 0

-----------------------------------------------------------------------------
(* The CLI *)

Written == IF file = <<>> THEN 0 ELSE file[Len(file)]
Size == 2 * Len(file) + IF torn THEN 1 ELSE 0
Reading(c) == job[c].kind # "none"

WriteHalf ==
  /\ ~torn /\ Written < MaxLines
  /\ torn' = TRUE
  /\ UNCHANGED <<file, prompts, there, watermark, eventVars, index, job, history, stops>>

(* The rest of a line, or a whole one.  A session begins with a prompt. *)
WriteLine ==
  /\ Written < MaxLines
  /\ file' = Append(file, Written + 1)
  /\ torn' = FALSE
  /\ \E p \in BOOLEAN : /\ Written = 0 => p
                        /\ prompts' = IF p THEN prompts \cup {Written + 1} ELSE prompts
  /\ UNCHANGED <<there, watermark, eventVars, index, job, history, stops>>

(* Compaction drops the oldest lines. *)
Compact ==
  /\ Len(file) > 1 /\ ~torn
  /\ \A c \in Importers : ~Reading(c)
  /\ file' = Tail(file)
  /\ fits' = FALSE
  /\ UNCHANGED <<torn, prompts, there, watermark, eventVars, index, job, passed, rough, stops>>

-----------------------------------------------------------------------------
(* TranscriptImporter *)

(* What one line, of the lines i, makes of an importer's turn state: the    *)
(* part process_line and warmup_line share.                                 *)
Track(j, i) ==
  IF i \in prompts THEN [j EXCEPT !.turn = @ + 1, !.pending = FALSE]
                   ELSE [j EXCEPT !.pending = TRUE]

(* warmup_line, over the first n lines. *)
Warm(j, n) ==
  LET turn[k \in 0..n] == IF k = 0 THEN j ELSE Track(turn[k - 1], file[k]) IN turn[n]

(* flush_turn_usage: the turn has usage, and none of it in events.jsonl. *)
TurnUsage(j) == j.turn > 0 /\ j.pending /\ j.turn \notin j.known

\* Mutant: the skip set is not consulted.
YieldsAlways(j, key) == TRUE

(* Write an event unless its key is in the skip set. *)
Yields(j, key) == key \notin j.skip

(* The events of one line, as keys in the order they are written: the usage  *)
(* of the turn that a prompt closes, and that of the line.                  *)
LineKeys(j, i) ==
  LET closing == IF i \in prompts /\ TurnUsage(j) THEN <<<<"usage", i>>>> ELSE <<>>
  IN SelectSeq(Append(closing, <<"line", i>>), LAMBDA key : Yields(j, key))

(* finalize: the usage of the last turn. *)
LastKeys(j) ==
  SelectSeq(IF TurnUsage(j) THEN <<<<"finalize", j.turn>>>> ELSE <<>>,
            LAMBDA key : Yields(j, key))

(* The next line is there and whole; or the end has been reached. *)
AtLine(j) == j.kind \in {"import", "sync"} /\ j.at % 2 = 0 /\ j.at < 2 * Len(file)
AtEnd(j) == j.kind \in {"import", "sync"} /\ j.at >= Size
NextLine(j) == file[j.at \div 2 + 1]

(* What the importer is about to write. *)
NextKeys(j) ==
  IF AtLine(j) THEN LineKeys(j, NextLine(j)) ELSE IF AtEnd(j) THEN LastKeys(j) ELSE <<>>

(* The events of the keys ks, of which one at most is that of a usage, are   *)
(* in events.jsonl.                                                        *)
WriteEvents(j, ks) ==
  LET Has(key) == \E k \in DOMAIN ks : ks[k] = key
      last == \E k \in DOMAIN ks : ks[k][1] # "line"
  IN /\ imported' = [i \in Lines |-> imported[i] + IF Has(<<"line", i>>) THEN 1 ELSE 0]
     /\ usage' = [n \in Lines |-> usage[n] + IF n = j.turn /\ last THEN 1 ELSE 0]

-----------------------------------------------------------------------------
(* import_session and sync_session *)

(* import_session: the session has no run yet; the size is taken first. *)
BeginImport(c) ==
  /\ ~Reading(c)
  /\ ~there /\ \A d \in Importers : ~Reading(d)
  /\ file # <<>>
  /\ job' = [job EXCEPT ![c] = [NoJob EXCEPT !.kind = "import", !.size = Size]]
  /\ UNCHANGED <<fileVars, there, watermark, eventVars, index, history, stops>>

(* The lines an append reads past without importing them: those up to the   *)
(* watermark, a line that begins before it included.                        *)
WarmLines == (watermark + 1) \div 2

(* sync_session.  A file that has become shorter is read from its start     *)
(* again (sync_reconcile); a longer one from the watermark.                 *)
BeginSync(c) ==
  /\ ~Reading(c)
  /\ there
  /\ Size # watermark
  /\ LET j == [NoJob EXCEPT !.kind = "sync", !.skip = SkipSet(index), !.known = {n \in Lines : usage[n] > 0}]
     IN IF Size < watermark
        THEN job' = [job EXCEPT ![c] = j] /\ UNCHANGED passed
        ELSE /\ job' = [job EXCEPT ![c] = [Warm(j, WarmLines) EXCEPT !.at = 2 * WarmLines]]
             /\ passed' = passed \cup (IF fits THEN {} ELSE {file[k] : k \in 1..WarmLines})
  /\ rough' = (rough \/ \E d \in Importers : Reading(d))
  /\ UNCHANGED <<fileVars, there, watermark, eventVars, index, fits, stops>>

(* process_line, of the next line; or what is left of one that was half      *)
(* written when its first half was read, or that half: neither of the two   *)
(* parses.                                                                 *)
ReadLine(c) ==
  /\ job[c].kind \in {"import", "sync"}
  /\ job[c].at < Size
  /\ LET j == job[c]
     IN IF AtLine(j)
        THEN /\ WriteEvents(j, NextKeys(j))
             /\ job' = [job EXCEPT ![c] = [Track(j, NextLine(j)) EXCEPT
                                            !.at = @ + 2, !.fresh = @ \o NextKeys(j)]]
             /\ UNCHANGED passed
        ELSE /\ job' = [job EXCEPT ![c].at = @ + 1]
             /\ passed' = IF j.at % 2 = 0 THEN passed \cup {Written + 1} ELSE passed
             /\ UNCHANGED eventVars
  /\ UNCHANGED <<fileVars, there, watermark, index, fits, rough, stops>>

(* At the end of the file the last turn's usage is written, and the index is *)
(* flushed.                                                                *)
Finalize(c) ==
  /\ AtEnd(job[c])
  /\ LET j == job[c]
     IN /\ WriteEvents(j, NextKeys(j))
        /\ index' = AppendKeys(index, j.fresh \o NextKeys(j))
        /\ job' = [job EXCEPT ![c] = [NoJob EXCEPT !.kind = "save",
                                        !.size = IF j.kind = "import" THEN j.size ELSE j.at]]
  /\ UNCHANGED <<fileVars, there, watermark, history, stops>>

(* save_meta, with_meta: the new watermark. *)
Save(c) ==
  /\ job[c].kind = "save"
  /\ watermark' = job[c].size
  /\ there' = TRUE
  /\ fits' = TRUE
  /\ job' = [job EXCEPT ![c] = NoJob]
  /\ UNCHANGED <<fileVars, eventVars, index, passed, rough, stops>>

(* A full buffer goes to the index on its own. *)
Spill(c) ==
  /\ job[c].fresh # <<>>
  /\ index' = AppendKeys(index, job[c].fresh)
  /\ job' = [job EXCEPT ![c].fresh = <<>>]
  /\ UNCHANGED <<fileVars, there, watermark, eventVars, history, stops>>

(* An import that fails, or never saved its meta.json, leaves no run: the    *)
(* next one begins with another directory.                                  *)
DropRun ==
  /\ imported' = [i \in Lines |-> 0] /\ usage' = imported'
  /\ index' = EmptyIndex /\ passed' = {}

(* A read or a write fails, or the process ends.  Some of what was about to  *)
(* be written may be in events.jsonl, the line of an append that reported an *)
(* error included.  The buffer is flushed when it is dropped, but that fails *)
(* as well where it was the index that could not be written.                *)
Stop(c) ==
  /\ Reading(c)
  /\ job' = [job EXCEPT ![c] = NoJob]
  /\ IF ~there THEN DropRun /\ UNCHANGED stops
     ELSE /\ stops < MaxStops /\ stops' = stops + 1
          /\ \E n \in 0..Len(NextKeys(job[c])) :
               LET done == SubSeq(NextKeys(job[c]), 1, n)
               IN /\ WriteEvents(job[c], done)
                  /\ index' \in CutAppend(index, job[c].fresh \o done)
          /\ UNCHANGED passed
  /\ UNCHANGED <<fileVars, there, watermark, fits, rough>>

Import(c) ==
  \/ BeginImport(c) \/ BeginSync(c) \/ ReadLine(c) \/ Finalize(c) \/ Save(c)
  \/ Spill(c) \/ Stop(c)

Next ==
  \/ WriteHalf \/ WriteLine \/ Compact
  \/ \E c \in Importers : Import(c)

Spec == Init /\ [][Next]_vars

-----------------------------------------------------------------------------
(* Properties *)

(* What is below the watermark has been imported, and nothing is imported   *)
(* twice: not by an append that reads on in a file that grew during the     *)
(* import, a reconciliation that reads everything again, or a retry after   *)
(* an error whose keys reached the index; and the usage of a turn that an   *)
(* import cut in two is not counted twice even where its key was lost.  The  *)
(* exceptions are known and complete: a line that was half written when it   *)
(* was read, or that an append took for an old one after the file was        *)
(* rewritten, is never imported; a line is imported once more each time its  *)
(* key is lost; and when two syncs overlap, both import.                    *)
ImportExact ==
  /\ there /\ fits => \A k \in 1..Len(file) :
       2 * k <= watermark => imported[file[k]] > 0 \/ file[k] \in passed
  /\ ~rough => \A i \in Lines : imported[i] <= 1 + TimesLost(<<"line", i>>, index)
  /\ ~rough => \A n \in Lines : usage[n] <= 1

(* What the comment on load_import_skip_set promises of a retry,             *)
(* "crash-recovery dedup" (cli_sessions_common.rs:215): nothing at all is    *)
(* imported twice.  It is where keys were lost; an operator for the reader, *)
(* which no run checks.                                                    *)
RetryImportsNothingTwice == ~rough => \A i \in Lines : imported[i] <= 1

=============================================================================
