------------------------------ MODULE RunIndex ------------------------------
(***************************************************************************)
(* The search index over all runs (storage/run_index.rs): an entry per run  *)
(* that sums up its events.jsonl and its meta.json, kept from build to      *)
(* build as long as the fingerprints of both files stay the same, while     *)
(* sessions go on writing them.  The index of prompts (prompt_index.rs) is  *)
(* built the same way, from events.jsonl alone.                             *)
(*                                                                         *)
(* An event is a report of the cost of a session so far; the cost of a      *)
(* resumed session starts again.  A file's fingerprint, its time and size,  *)
(* is its version here.                                                    *)
(***************************************************************************)
EXTENDS Naturals, Sequences, SequencesExt

CONSTANTS
  Runs,
  MaxReports,  \* bound: events of a run
  MaxCost,     \* bound: the cost of a session
  MaxWrites,   \* bound: versions of a meta.json
  MaxCrashes   \* bound

VARIABLES
  imported,  \* the runs of cli_import, whose reports are of one turn each
  log,       \* events.jsonl: reports [session, cost]
  meta,      \* meta.json: its version, and whether the run is deleted
  index,     \* run-index.jsonl: entries
  manifest,  \* run-index-manifest.json: fingerprints
  young,     \* the cache, which serves what is in the index, has not expired
  build,     \* the build under way, which has COMPUTE_LOCK
  slipped,   \* history: entries whose meta.json was replaced between its
             \* reading and its fingerprint
  crashes

diskVars == <<index, manifest>>
vars == <<imported, log, meta, index, manifest, young, build, slipped, crashes>>

NoEntry == [entry |-> "none"]
NoPrint == [print |-> "none"]
NoBuild == [step |-> "none"]

Entries == [reports : 0..MaxReports, version : 0..MaxWrites, cost : Nat]
Prints == [events : 0..MaxReports, meta : 0..MaxWrites]
Indexes == [Runs -> Entries \cup {NoEntry}]
Manifests == [Runs -> Prints \cup {NoPrint}]

TypeOK ==
  /\ imported \subseteq Runs
  /\ log \in [Runs -> Seq([session : Nat, cost : 1..MaxCost])]
  /\ meta \in [Runs -> [version : 0..MaxWrites, deleted : BOOLEAN]]
  /\ index \in Indexes /\ manifest \in Manifests
  /\ young \in BOOLEAN
  /\ \/ build = NoBuild
     \/ /\ build.step \in {"next", "print", "scan", "index", "manifest", "publish"}
        /\ build.todo \subseteq Runs /\ build.entries \in Indexes /\ build.prints \in Manifests
  /\ slipped \subseteq Runs
  /\ crashes \in 0..MaxCrashes

Nothing == [r \in Runs |-> NoEntry]

Init ==
  /\ imported \in SUBSET Runs
  /\ log = [r \in Runs |-> <<>>]
  /\ meta = [r \in Runs |-> [version |-> 0, deleted |-> FALSE]]
  /\ index = Nothing /\ manifest = [r \in Runs |-> NoPrint]
  /\ young = FALSE
  /\ build = NoBuild /\ slipped = {} /\ crashes = 0

-----------------------------------------------------------------------------
(* The runs *)

(* A session reports what it has cost so far; a resumed one starts again. *)
Report(r) ==
  /\ Len(log[r]) < MaxReports
  /\ \E c \in 1..MaxCost, new \in BOOLEAN :
       /\ ~new /\ r \notin imported /\ log[r] # <<>> => c >= Last(log[r]).cost
       /\ log' = [log EXCEPT ![r] = Append(@,
            [session |-> IF @ = <<>> THEN 1 ELSE Last(@).session + (IF new THEN 1 ELSE 0),
             cost |-> c])]
  /\ UNCHANGED <<imported, meta, index, manifest, young, build, slipped, crashes>>

(* Its status changes, or it is deleted. *)
WriteMeta(r) ==
  /\ meta[r].version < MaxWrites
  /\ \E gone \in BOOLEAN :
       meta' = [meta EXCEPT ![r] = [version |-> @.version + 1, deleted |-> @.deleted \/ gone]]
  /\ slipped' = IF build # NoBuild /\ build.step = "print" /\ build.run = r
                THEN slipped \cup {r} ELSE slipped
  /\ UNCHANGED <<imported, log, index, manifest, young, build, crashes>>

-----------------------------------------------------------------------------
(* scan_run: its costs *)

(* A cost that falls by more than a tenth is a new session's. *)
Step(sum, report) ==
  IF report.cost * 10 < sum.prev * 9
  THEN [total |-> sum.total + sum.peak, peak |-> report.cost, prev |-> report.cost]
  ELSE [sum EXCEPT !.peak = IF report.cost > @ THEN report.cost ELSE @, !.prev = report.cost]

CostOf(r, reports) ==
  IF r \in imported THEN FoldLeft(LAMBDA sum, report : sum + report.cost, 0, reports)
  ELSE LET sum == FoldLeft(Step, [total |-> 0, peak |-> 0, prev |-> 0], reports)
       IN sum.total + sum.peak

-----------------------------------------------------------------------------
(* build_or_update_index *)

Goto(step) == build' = [build EXCEPT !.step = step]

(* Only one build at a time; a request that waited for it finds a young     *)
(* cache, or begins the next.                                               *)
Begin ==
  /\ build = NoBuild /\ ~young
  /\ build' = [step |-> "next", todo |-> Runs, entries |-> Nothing, prints |-> manifest]
  /\ UNCHANGED <<imported, log, meta, index, manifest, young, slipped, crashes>>

(* The next directory: meta.json is read; a deleted run, or one without      *)
(* events, is passed over, and leaves the manifest.                         *)
ReadMeta(r) ==
  /\ build.step = "next" /\ r \in build.todo
  /\ build' = IF meta[r].deleted \/ log[r] = <<>>
              THEN [build EXCEPT !.todo = @ \ {r}, !.prints[r] = NoPrint]
              ELSE [step |-> "print", run |-> r, version |-> meta[r].version, todo |-> build.todo,
                    entries |-> build.entries, prints |-> build.prints]
  /\ UNCHANGED <<imported, log, meta, index, manifest, young, slipped, crashes>>

Current(r) == [events |-> Len(log[r]), meta |-> meta[r].version]

(* The fingerprints are taken; with those of the manifest the entry stays.  *)
TakePrint ==
  /\ build.step = "print"
  /\ LET r == build.run
     IN build' = IF manifest[r] = Current(r) /\ index[r] # NoEntry
                 THEN [step |-> "next", todo |-> build.todo \ {r},
                       entries |-> [build.entries EXCEPT ![r] = index[r]], prints |-> build.prints]
                 ELSE [build EXCEPT !.step = "scan", !.prints[r] = Current(r)]
  /\ UNCHANGED <<imported, log, meta, index, manifest, young, slipped, crashes>>

EntryOf(r, version) ==
  [reports |-> Len(log[r]), version |-> version, cost |-> CostOf(r, log[r])]

(* The end of a scan, for which the session may write more. *)
Scan ==
  /\ build.step = "scan"
  /\ build' = [step |-> "next", todo |-> build.todo \ {build.run},
               entries |-> [build.entries EXCEPT ![build.run] = EntryOf(build.run, build.version)],
               prints |-> build.prints]
  /\ UNCHANGED <<imported, log, meta, index, manifest, young, slipped, crashes>>

(* Both files are replaced by rename, the entries first. *)
WriteIndex ==
  /\ build.step = "next" /\ build.todo = {}
  /\ index' = build.entries
  /\ Goto("manifest")
  /\ UNCHANGED <<imported, log, meta, manifest, young, slipped, crashes>>

WriteManifest ==
  /\ build.step = "manifest"
  /\ manifest' = build.prints
  /\ Goto("publish")
  /\ UNCHANGED <<imported, log, meta, index, young, slipped, crashes>>

Publish ==
  /\ build.step = "publish"
  /\ young' = TRUE
  /\ build' = NoBuild
  /\ UNCHANGED <<imported, log, meta, index, manifest, slipped, crashes>>

(* One of the two could not be written. *)
WriteFails ==
  /\ build.step = "manifest" \/ (build.step = "next" /\ build.todo = {})
  /\ build' = NoBuild
  /\ UNCHANGED <<imported, log, meta, index, manifest, young, slipped, crashes>>

(* CACHE_TTL_SECS; nobody calls invalidate_cache. *)
Expire ==
  /\ young
  /\ young' = FALSE
  /\ UNCHANGED <<imported, log, meta, index, manifest, build, slipped, crashes>>

Crash ==
  /\ crashes < MaxCrashes /\ build # NoBuild
  /\ crashes' = crashes + 1
  /\ build' = NoBuild /\ young' = FALSE
  /\ UNCHANGED <<imported, log, meta, index, manifest, slipped>>

Next ==
  \/ \E r \in Runs : Report(r) \/ WriteMeta(r)
  \/ Begin \/ Expire \/ Crash
  \/ /\ build # NoBuild
     /\ \/ \E r \in Runs : ReadMeta(r)
        \/ TakePrint \/ Scan \/ WriteIndex \/ WriteManifest \/ WriteFails \/ Publish

Spec == Init /\ [][Next]_vars

-----------------------------------------------------------------------------
(* Properties *)

(* An entry that the next build will keep is not out of date: it holds all   *)
(* the events, and the state of meta.json, although the session was writing *)
(* both while they were read, and whatever failed or crashed between the     *)
(* two files.  The exception: meta.json is read before its fingerprint is   *)
(* taken, and what was written between the two stays unseen.                *)
KeptIsCurrent ==
  \A r \in Runs :
    index[r] # NoEntry /\ manifest[r] = Current(r) =>
      /\ index[r].reports = Len(log[r])
      /\ index[r].version = meta[r].version \/ r \in slipped

(* What the sessions of a run have cost: of each its last report. *)
TrueCost(r, reports) ==
  LET last == {i \in DOMAIN reports : i = Len(reports) \/ r \in imported
                                      \/ reports[i + 1].session # reports[i].session}
  IN FoldLeft(LAMBDA sum, i : IF i \in last THEN sum + reports[i].cost ELSE sum, 0,
              [i \in DOMAIN reports |-> i])

(* A session whose first report is not below nine tenths of the last report *)
(* of the one before it is taken for its continuation.                      *)
Hidden(reports) ==
  \E i \in 1..Len(reports) - 1 :
    /\ reports[i + 1].session # reports[i].session
    /\ reports[i + 1].cost * 10 >= reports[i].cost * 9

(* The cost shown for a run is that of its sessions up to the events scanned, *)
(* and less only if a session could not be told from the one before.        *)
CostExact ==
  \A r \in Runs : index[r] # NoEntry =>
    LET scanned == SubSeq(log[r], 1, index[r].reports)
        cost == index[r].cost
    IN IF Hidden(scanned) /\ r \notin imported THEN cost < TrueCost(r, scanned)
       ELSE cost = TrueCost(r, scanned)

=============================================================================
