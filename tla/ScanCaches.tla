----------------------------- MODULE ScanCaches -----------------------------
(***************************************************************************)
(* What is computed from many files and kept, so that only the files that   *)
(* changed are read again.  Three parts of the program keep it differently: *)
(*                                                                         *)
(*  "claude"  storage/claude_usage.rs: one lock around everything, one      *)
(*            cache file, and the result in memory for two minutes          *)
(*  "codex"   storage/codex_usage.rs and the summaries of                   *)
(*            storage/codex_sessions.rs: no lock, one cache file, whose      *)
(*            temporary file all calls share                                *)
(*  "prompt"  storage/prompt_index.rs: a lock, the result in memory, and     *)
(*            two files, the entries and the fingerprints they belong to    *)
(*                                                                         *)
(* A file is a number: how often its owner has written it, 0 if it is not    *)
(* there.  The number stands for its contents and for its fingerprint, the  *)
(* time and the size.                                                      *)
(***************************************************************************)
EXTENDS Integers

CONSTANTS
  Files,
  Calls,        \* the calls that ask for the result
  MaxChanges,   \* bound: versions of a file
  MaxFaults     \* bound: writes that fail, crashes

VARIABLES
  style,
  version,    \* the files
  deleted,    \* runs that are soft-deleted (prompt)
  prints,     \* the fingerprints on disk
  kept,       \* what has been made of the files, on disk
  broken,     \* the cache file does not parse
  tmp,        \* what the shared temporary file holds, if there is one
  memory,     \* the result in memory, unless it is too old
  call,       \* the state of each call
  faults

diskVars == <<prints, kept, broken, tmp>>
vars == <<style, version, deleted, diskVars, memory, call, faults>>

Styles == {"claude", "codex", "prompt"}
Versions == 0..MaxChanges
Results == [Files -> Versions]
Nothing == [f \in Files |-> 0]

(* A call: what it has loaded, the fingerprints it has taken and of which    *)
(* files, what it has made of which files; asked: the files when it began.  *)
NoCall == [at |-> "idle", asked |-> Nothing, oldPrints |-> Nothing, oldKept |-> Nothing,
           seen |-> {}, prints |-> Nothing, read |-> {}, result |-> Nothing]

TypeOK ==
  /\ style \in Styles
  /\ version \in Results /\ deleted \subseteq Files
  /\ prints \in Results /\ kept \in Results
  /\ broken \in BOOLEAN /\ \A t \in tmp : t.whole \in BOOLEAN
  /\ memory \subseteq Results
  /\ \A c \in Calls :
       /\ call[c].at \in {"idle", "locked", "scan", "write", "writing", "rename", "manifest", "keep"}
       /\ call[c].read \subseteq call[c].seen
  /\ faults \in 0..MaxFaults

Init ==
  /\ style \in Styles
  /\ version = Nothing /\ deleted = {}
  /\ prints = Nothing /\ kept = Nothing
  /\ broken = FALSE /\ tmp = {}
  /\ memory = {}
  /\ call = [c \in Calls |-> NoCall]
  /\ faults = 0

Busy(c) == call[c].at # "idle"
Locked == style # "codex" /\ \E c \in Calls : call[c].at \notin {"idle"}

-----------------------------------------------------------------------------
(* The owners of the files *)

Write(f) ==
  /\ version[f] < MaxChanges /\ f \notin deleted
  /\ version' = [version EXCEPT ![f] = @ + 1]
  /\ UNCHANGED <<style, deleted, diskVars, memory, call, faults>>

SoftDelete(f) ==
  /\ style = "prompt"
  /\ version[f] > 0 /\ f \notin deleted
  /\ deleted' = deleted \cup {f}
  /\ UNCHANGED <<style, version, diskVars, memory, call, faults>>

-----------------------------------------------------------------------------
(* A call *)

(* A result in memory is returned as it is; otherwise the call waits for the *)
(* lock, if there is one, and looks again.                                 *)
Begin(c) ==
  /\ ~Busy(c) /\ ~Locked
  /\ memory = {}
  /\ call' = [call EXCEPT ![c] = [NoCall EXCEPT !.at = "locked", !.asked = version]]
  /\ UNCHANGED <<style, version, deleted, diskVars, memory, faults>>

(* read_disk_cache, DiskScanCache::read, load_manifest and load_index_file:  *)
(* a file that does not parse is none.                                     *)
Load(c) ==
  /\ call[c].at = "locked"
  /\ call' = [call EXCEPT ![c].at = "scan",
                          ![c].oldPrints = IF broken THEN Nothing ELSE prints,
                          ![c].oldKept = IF broken THEN Nothing ELSE kept]
  /\ UNCHANGED <<style, version, deleted, diskVars, memory, faults>>

(* The files a call looks at. *)
Present == {f \in Files : version[f] > 0 /\ f \notin deleted}

(* The fingerprint of a file: of all files first, or (prompt) of each when   *)
(* it is its turn.                                                         *)
TakePrint(c, f) ==
  /\ call[c].at = "scan"
  /\ f \in Present \ call[c].seen
  /\ IF style = "prompt" THEN call[c].seen = call[c].read ELSE call[c].read = {}
  /\ call' = [call EXCEPT ![c].seen = @ \cup {f}, ![c].prints[f] = version[f]]
  /\ UNCHANGED <<style, version, deleted, diskVars, memory, faults>>

\* Mutant: what has been kept is taken over, whatever its fingerprint.
FreshAlways(j, f) == j.oldKept[f] > 0

(* take_if_fresh and its likes: the fingerprint is the one on disk, and      *)
(* something has been kept.                                                *)
Fresh(j, f) == j.oldPrints[f] = j.prints[f] /\ j.oldKept[f] > 0

(* The directories have been walked; what has appeared meanwhile may or may  *)
(* not have been met.                                                      *)
Listed(c) == {f \in Files : call[c].asked[f] > 0} \subseteq call[c].seen \cup deleted

(* What is kept of a fresh file is taken over; another is read. *)
Scan(c, f) ==
  /\ call[c].at = "scan"
  /\ f \in call[c].seen \ call[c].read
  /\ style # "prompt" => Listed(c)
  /\ LET j == call[c]
     IN call' = [call EXCEPT ![c].read = @ \cup {f},
                   ![c].result[f] = IF Fresh(j, f) THEN j.oldKept[f] ELSE version[f]]
  /\ UNCHANGED <<style, version, deleted, diskVars, memory, faults>>

ScanDone(c) ==
  /\ call[c].at = "scan"
  /\ call[c].seen = call[c].read
  /\ Listed(c)
  /\ call' = [call EXCEPT ![c].at = "write"]
  /\ UNCHANGED <<style, version, deleted, diskVars, memory, faults>>

(* write_disk_cache: under the lock, and the rename is atomic. *)
WriteLocked(c) ==
  /\ style = "claude" /\ call[c].at = "write"
  /\ prints' = call[c].prints /\ kept' = call[c].result
  /\ call' = [call EXCEPT ![c].at = "keep"]
  /\ UNCHANGED <<style, version, deleted, broken, tmp, memory, faults>>

(* DiskScanCache::write fills a temporary file that another call may fill or *)
(* rename at the same time.                                                *)
Writing == {c \in Calls : call[c].at = "writing"}

WriteShared(c) ==
  /\ style = "codex" /\ call[c].at = "write"
  /\ tmp' = {[whole |-> Writing = {}, prints |-> call[c].prints, kept |-> call[c].result]}
  /\ call' = [call EXCEPT ![c].at = "writing"]
  /\ UNCHANGED <<style, version, deleted, prints, kept, broken, memory, faults>>

(* The cache file is what a call has written, or what two of them have: that *)
(* does not parse, or is what the last one wrote.                          *)
CacheFile(p, k, whole) ==
  \/ broken' = FALSE /\ prints' = p /\ kept' = k
  \/ ~whole /\ broken' = TRUE /\ UNCHANGED <<prints, kept>>

(* The last bytes.  When the file has been renamed meanwhile, they go to the *)
(* cache file.                                                             *)
Written(c) ==
  /\ call[c].at = "writing"
  /\ IF tmp = {} THEN CacheFile(call[c].prints, call[c].result, FALSE)
                     ELSE UNCHANGED <<prints, kept, broken>>
  /\ call' = [call EXCEPT ![c].at = "rename"]
  /\ UNCHANGED <<style, version, deleted, tmp, memory, faults>>

(* The rename fails when another call has done it. *)
Rename(c) ==
  /\ call[c].at = "rename"
  /\ IF tmp = {} THEN UNCHANGED <<prints, kept, broken>>
     ELSE IF Writing # {} THEN broken' = TRUE /\ UNCHANGED <<prints, kept>>
     ELSE \E t \in tmp : CacheFile(t.prints, t.kept, t.whole)
  /\ tmp' = {}
  /\ call' = [call EXCEPT ![c].at = "keep"]
  /\ UNCHANGED <<style, version, deleted, memory, faults>>

(* prompt-index.jsonl first, then prompt-index-manifest.json. *)
WriteIndex(c) ==
  /\ style = "prompt" /\ call[c].at = "write"
  /\ kept' = call[c].result
  /\ call' = [call EXCEPT ![c].at = "manifest"]
  /\ UNCHANGED <<style, version, deleted, prints, broken, tmp, memory, faults>>

(* The old fingerprints of the runs that are still there, and the new ones. *)
WriteManifest(c) ==
  /\ call[c].at = "manifest"
  /\ prints' = [f \in Files |-> IF f \notin call[c].seen THEN 0 ELSE call[c].prints[f]]
  /\ call' = [call EXCEPT ![c].at = "keep"]
  /\ UNCHANGED <<style, version, deleted, kept, broken, tmp, memory, faults>>

(* The result goes to the memory, and to the caller. *)
Return(c) ==
  /\ call[c].at = "keep"
  /\ memory' = IF style = "codex" THEN {} ELSE {call[c].result}
  /\ call' = [call EXCEPT ![c] = NoCall]
  /\ UNCHANGED <<style, version, deleted, diskVars, faults>>

(* A write fails.  Only the prompt index reports it; the others go on. *)
WriteFails(c) ==
  /\ call[c].at \in {"write", "manifest"}
  /\ faults < MaxFaults
  /\ faults' = faults + 1
  /\ call' = [call EXCEPT ![c] = IF style = "prompt" THEN NoCall ELSE [@ EXCEPT !.at = "keep"]]
  /\ UNCHANGED <<style, version, deleted, diskVars, memory>>

(* CACHE_TTL_SECS *)
Expire ==
  /\ memory # {}
  /\ memory' = {}
  /\ UNCHANGED <<style, version, deleted, diskVars, call, faults>>

Crash ==
  /\ faults < MaxFaults /\ \E c \in Calls : Busy(c)
  /\ faults' = faults + 1
  /\ memory' = {}
  /\ call' = [c \in Calls |-> NoCall]
  /\ tmp' = {}
  /\ broken' = (broken \/ (Writing # {} /\ tmp = {}))
  /\ UNCHANGED <<style, version, deleted, prints, kept>>

Step(c) ==
  \/ Begin(c) \/ Load(c) \/ ScanDone(c) \/ Return(c)
  \/ WriteLocked(c) \/ WriteShared(c) \/ Written(c) \/ Rename(c)
  \/ WriteIndex(c) \/ WriteManifest(c) \/ WriteFails(c)
  \/ \E f \in Files : TakePrint(c, f) \/ Scan(c, f)

Next ==
  \/ Expire \/ Crash
  \/ \E f \in Files : Write(f) \/ SoftDelete(f)
  \/ \E c \in Calls : Step(c)

Spec == Init /\ [][Next]_vars

-----------------------------------------------------------------------------
(* Properties *)

(* What is kept under the fingerprint a file has now was made of what the    *)
(* file holds now: a file that changes between its fingerprint and its scan *)
(* will be read again, even if a crash comes between the writes of the two  *)
(* files, or if two calls fill one temporary file at the same time.         *)
KeptIsCurrent ==
  ~broken => \A f \in Files :
    version[f] > 0 /\ prints[f] = version[f] /\ kept[f] > 0 => kept[f] = version[f]

(* A call that computes its result never returns less than what the files   *)
(* held when it was made.                                                  *)
AnswerCurrent ==
  \A c \in Calls : call[c].at = "keep" =>
    \A f \in Files \ deleted : call[c].result[f] >= call[c].asked[f]

=============================================================================
