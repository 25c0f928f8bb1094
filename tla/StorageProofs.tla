---------------------------- MODULE StorageProofs ----------------------------
(***************************************************************************)
(* The theorems about parts of MCStorage, carried over to StorageSpec,      *)
(* whose behaviours the run checks.  A behaviour is one of the chosen part: *)
(* the inductive invariant of that part holds in it, and the others have    *)
(* nothing to say.                                                         *)
(***************************************************************************)
EXTENDS MCStorage, TLAPS

Stored ==
  INSTANCE StoredFilesProofs
  WITH kind <- s1, place <- s2, tmp <- s3, content <- s4, op <- s5, owed <- s6,
       raced <- s7, hollow <- s8, together <- s9, calls <- s10, faults <- s11,
       safe <- s1, terminal <- s2, dir <- s3, size <- s4, damaged <- s5,
       current <- s6, retained <- s7, shard <- s8, global <- s9, stage <- s10,
       gen <- s11, prev <- s12, keep <- s13, handed <- s14, calm <- s15,
       crashes <- s16,
       log <- s1, session <- s2, answers <- s3, card <- s4, cursor <- s5, call <- s6,
       ghost <- s7, blind <- s8, ends <- s9,
       style <- s1, version <- s2, deleted <- s3, prints <- s4, stock <- s5,
       broken <- s6, draft <- s7, memory <- s8, scan <- s9, losses <- s10,
       imported <- s1, journal <- s2, meta <- s3, index <- s4, manifest <- s5,
       young <- s6, build <- s7, slipped <- s8, kills <- s9

-----------------------------------------------------------------------------
(* A part and the part its theorems are about are the same: once all names   *)
(* are replaced by what they stand for, no difference is left.              *)

LEMMA SameGenerations ==
  /\ Generations!Init => Stored!Generations!Init
  /\ Generations!Next => Stored!Generations!Next
  /\ Stored!Generations!HandedStays /\ Stored!Generations!PointerValid /\ Stored!Generations!EndedRunWhole =>
       Generations!HandedStays /\ Generations!PointerValid /\ Generations!EndedRunWhole
<1>1. Generations!Init => Stored!Generations!Init
  BY DEF Generations!Init, Generations!NoGen, Generations!Free,
         Stored!Generations!Init, Stored!Generations!NoGen, Stored!Generations!Free
<1>2. Generations!Next => Stored!Generations!Next
  BY DEF Generations!Next, Generations!AppendEvent, Generations!SetStatus,
         Generations!Damage, Generations!Crash, Generations!Request, Generations!Ensure,
         Generations!CleanRead, Generations!Sweep, Generations!Hit, Generations!Miss,
         Generations!BeginBuild, Generations!Snapshot, Generations!Publish,
         Generations!Point, Generations!Retain, Generations!Fail, Generations!Summary,
         Generations!Restless, Generations!Goto, Generations!Release, Generations!Return,
         Generations!ShouldRemove, Generations!Matches, Generations!SafeSize,
         Generations!NoGen, Generations!Free, Generations!logVars, Generations!diskVars,
         Generations!lockVars, Generations!Max, Stored!Generations!Next,
         Stored!Generations!AppendEvent, Stored!Generations!SetStatus,
         Stored!Generations!Damage, Stored!Generations!Crash, Stored!Generations!Request,
         Stored!Generations!Ensure, Stored!Generations!CleanRead, Stored!Generations!Sweep,
         Stored!Generations!Hit, Stored!Generations!Miss, Stored!Generations!BeginBuild,
         Stored!Generations!Snapshot, Stored!Generations!Publish, Stored!Generations!Point,
         Stored!Generations!Retain, Stored!Generations!Fail, Stored!Generations!Summary,
         Stored!Generations!Restless, Stored!Generations!Goto, Stored!Generations!Release,
         Stored!Generations!Return, Stored!Generations!ShouldRemove,
         Stored!Generations!Matches, Stored!Generations!SafeSize, Stored!Generations!NoGen,
         Stored!Generations!Free, Stored!Generations!logVars, Stored!Generations!diskVars,
         Stored!Generations!lockVars, Stored!Generations!Max
<1>3. Stored!Generations!HandedStays /\ Stored!Generations!PointerValid /\ Stored!Generations!EndedRunWhole =>
       Generations!HandedStays /\ Generations!PointerValid /\ Generations!EndedRunWhole
  BY DEF Generations!HandedStays, Generations!PointerValid, Generations!EndedRunWhole,
         Generations!NoGen, Stored!Generations!HandedStays, Stored!Generations!PointerValid,
         Stored!Generations!EndedRunWhole, Stored!Generations!NoGen
<1> QED
  BY <1>1, <1>2, <1>3

LEMMA SameConfig ==
  /\ Config!Init => Stored!Init
  /\ Config!Next => Stored!Next
  /\ Stored!Unbroken /\ Stored!NotTakenForEmpty /\ Stored!KeysKept =>
       Config!Unbroken /\ Config!NotTakenForEmpty /\ Config!KeysKept
<1>1. Config!Init => Stored!Init
  BY DEF Config!Init, Config!Kinds, Config!Inodes, Config!NoFile, Config!Idle, Config!Whole,
         Config!Empty, Stored!Init, Stored!Kinds, Stored!Inodes,
         Stored!NoFile, Stored!Idle, Stored!Whole, Stored!Empty,
         Config!Cardinality, Stored!Cardinality
<1>2. Config!Next => Stored!Next
  BY DEF Config!Next, Config!Call, Config!UpdateUserSettings, Config!UpdateAgentSettings,
         Config!SaveWebServerConfig, Config!GetUserSettings, Config!AddFavorite,
         Config!RemoveFavorite, Config!ToggleServerConfig, Config!UpdateCliConfig,
         Config!UpdateCodexHooks, Config!SetCodexFeature, Config!UpdateCodexConfig,
         Config!AddCodexServer, Config!RemoveCodexServer, Config!ToggleCodexSkill,
         Config!ToggleCodexPlugin, Config!ReadMissing, Config!ReadFile, Config!ReadError,
         Config!Open, Config!Fill, Config!Rename, Config!WriteFails, Config!Crash,
         Config!Return, Config!Unparsed, Config!Parse, Config!Found, Config!FoundNothing,
         Config!Target, Config!Unused, Config!Fresh, Config!Text, Config!Written,
         Config!InForce, Config!Busy, Config!Idle, Config!Inodes, Config!NoFile,
         Config!Whole, Config!Empty, Config!Torn, Config!counters, Stored!Next, Stored!Call,
         Stored!UpdateUserSettings, Stored!UpdateAgentSettings, Stored!SaveWebServerConfig,
         Stored!GetUserSettings, Stored!AddFavorite, Stored!RemoveFavorite,
         Stored!ToggleServerConfig, Stored!UpdateCliConfig, Stored!UpdateCodexHooks,
         Stored!SetCodexFeature, Stored!UpdateCodexConfig, Stored!AddCodexServer,
         Stored!RemoveCodexServer, Stored!ToggleCodexSkill, Stored!ToggleCodexPlugin,
         Stored!ReadMissing, Stored!ReadFile, Stored!ReadError, Stored!Open, Stored!Fill,
         Stored!Rename, Stored!WriteFails, Stored!Crash, Stored!Return, Stored!Unparsed,
         Stored!Parse, Stored!Found, Stored!FoundNothing, Stored!Target, Stored!Unused,
         Stored!Fresh, Stored!Text, Stored!Written, Stored!InForce, Stored!Busy,
         Stored!Idle, Stored!Inodes, Stored!NoFile, Stored!Whole, Stored!Empty, Stored!Torn,
         Stored!counters, Config!Cardinality, Stored!Cardinality
<1>3. Stored!Unbroken /\ Stored!NotTakenForEmpty /\ Stored!KeysKept =>
       Config!Unbroken /\ Config!NotTakenForEmpty /\ Config!KeysKept
  BY DEF Config!Unbroken, Config!NotTakenForEmpty, Config!KeysKept, Config!IsWhole,
         Config!NoFile, Config!Busy, Config!Idle, Stored!Unbroken,
         Stored!NotTakenForEmpty, Stored!KeysKept, Stored!IsWhole,
         Stored!NoFile, Stored!Busy, Stored!Idle
<1> QED
  BY <1>1, <1>2, <1>3

-----------------------------------------------------------------------------

LEMMA SameIndexing ==
  /\ Indexing!Init => Stored!Indexing!Init
  /\ Indexing!Next => Stored!Indexing!Next
  /\ Stored!Indexing!KeptIsCurrent => Indexing!KeptIsCurrent
<1>1. Indexing!Init => Stored!Indexing!Init
  BY DEF Indexing!Init, Indexing!Nothing, Indexing!NoEntry, Indexing!NoPrint,
         Indexing!NoBuild, Stored!Indexing!Init, Stored!Indexing!Nothing, Stored!Indexing!NoEntry,
         Stored!Indexing!NoPrint, Stored!Indexing!NoBuild
<1>2. Indexing!Next => Stored!Indexing!Next
  BY DEF Indexing!diskVars, Indexing!vars, Indexing!NoEntry, Indexing!NoPrint,
         Indexing!NoBuild, Indexing!Nothing, Indexing!Report, Indexing!WriteMeta,
         Indexing!Step, Indexing!CostOf, Indexing!Goto, Indexing!Begin, Indexing!ReadMeta,
         Indexing!Current, Indexing!TakePrint, Indexing!EntryOf, Indexing!Scan,
         Indexing!WriteIndex, Indexing!WriteManifest, Indexing!Publish, Indexing!WriteFails,
         Indexing!Expire, Indexing!Crash, Indexing!Next, Indexing!FoldLeft,
         Indexing!MapThenFoldSet, Indexing!Max, Indexing!Last, Stored!Indexing!diskVars,
         Stored!Indexing!vars, Stored!Indexing!NoEntry, Stored!Indexing!NoPrint, Stored!Indexing!NoBuild,
         Stored!Indexing!Nothing, Stored!Indexing!Report, Stored!Indexing!WriteMeta, Stored!Indexing!Step,
         Stored!Indexing!CostOf, Stored!Indexing!Goto, Stored!Indexing!Begin, Stored!Indexing!ReadMeta,
         Stored!Indexing!Current, Stored!Indexing!TakePrint, Stored!Indexing!EntryOf, Stored!Indexing!Scan,
         Stored!Indexing!WriteIndex, Stored!Indexing!WriteManifest, Stored!Indexing!Publish,
         Stored!Indexing!WriteFails, Stored!Indexing!Expire, Stored!Indexing!Crash, Stored!Indexing!Next,
         Stored!Indexing!FoldLeft, Stored!Indexing!MapThenFoldSet, Stored!Indexing!Max, Stored!Indexing!Last
<1>3. Stored!Indexing!KeptIsCurrent => Indexing!KeptIsCurrent
  BY DEF Indexing!KeptIsCurrent, Indexing!Current, Indexing!NoEntry,
         Stored!Indexing!KeptIsCurrent, Stored!Indexing!Current, Stored!Indexing!NoEntry
<1> QED
  BY <1>1, <1>2, <1>3

LEMMA SameScanning ==
  /\ Scanning!Init => Stored!Caches!Init
  /\ Scanning!Next => Stored!Caches!Next
  /\ Stored!Caches!KeptIsCurrent /\ Stored!Caches!AnswerCurrent =>
       Scanning!KeptIsCurrent /\ Scanning!AnswerCurrent
<1>1. Scanning!Init => Stored!Caches!Init
  BY DEF Scanning!Init, Scanning!Styles, Scanning!Nothing, Scanning!NoCall,
         Stored!Caches!Init, Stored!Caches!Styles, Stored!Caches!Nothing,
         Stored!Caches!NoCall
<1>2. Scanning!Next => Stored!Caches!Next
  BY DEF Scanning!diskVars, Scanning!vars, Scanning!Versions, Scanning!Results,
         Scanning!Nothing, Scanning!NoCall, Scanning!Busy, Scanning!Locked, Scanning!Write,
         Scanning!SoftDelete, Scanning!Begin, Scanning!Load, Scanning!Present,
         Scanning!TakePrint, Scanning!Fresh, Scanning!Listed, Scanning!Scan,
         Scanning!ScanDone, Scanning!WriteLocked, Scanning!Writing, Scanning!WriteShared,
         Scanning!CacheFile, Scanning!Written, Scanning!Rename, Scanning!WriteIndex,
         Scanning!WriteManifest, Scanning!Return, Scanning!WriteFails, Scanning!Expire,
         Scanning!Crash, Scanning!Step, Scanning!Next, Stored!Caches!diskVars,
         Stored!Caches!vars, Stored!Caches!Versions, Stored!Caches!Results,
         Stored!Caches!Nothing, Stored!Caches!NoCall, Stored!Caches!Busy,
         Stored!Caches!Locked, Stored!Caches!Write, Stored!Caches!SoftDelete,
         Stored!Caches!Begin, Stored!Caches!Load, Stored!Caches!Present,
         Stored!Caches!TakePrint, Stored!Caches!Fresh, Stored!Caches!Listed,
         Stored!Caches!Scan, Stored!Caches!ScanDone, Stored!Caches!WriteLocked,
         Stored!Caches!Writing, Stored!Caches!WriteShared,
         Stored!Caches!CacheFile, Stored!Caches!Written, Stored!Caches!Rename,
         Stored!Caches!WriteIndex, Stored!Caches!WriteManifest,
         Stored!Caches!Return, Stored!Caches!WriteFails, Stored!Caches!Expire,
         Stored!Caches!Crash, Stored!Caches!Step, Stored!Caches!Next
<1>3. Stored!Caches!KeptIsCurrent /\ Stored!Caches!AnswerCurrent =>
       Scanning!KeptIsCurrent /\ Scanning!AnswerCurrent
  BY DEF Scanning!KeptIsCurrent, Scanning!AnswerCurrent, Stored!Caches!KeptIsCurrent,
         Stored!Caches!AnswerCurrent
<1> QED
  BY <1>1, <1>2, <1>3

LEMMA SameResponses ==
  /\ Responses!Init => Stored!Responses!Init
  /\ Responses!Next => Stored!Responses!Next
  /\ Stored!Responses!AnsweredOnce /\ Stored!Responses!StillOffered =>
       Responses!AnsweredOnce /\ Responses!StillOffered
<1>1. Responses!Init => Stored!Responses!Init
  BY DEF Responses!Init, Responses!Silent, Responses!Nobody, Stored!Responses!Init,
         Stored!Responses!Silent, Stored!Responses!Nobody
<1>2. Responses!Next => Stored!Responses!Next
  BY DEF Responses!Steps, Responses!Nobody, Responses!Silent, Responses!Reduce,
         Responses!Keep, Responses!LastState, Responses!SummaryCard, Responses!Load,
         Responses!Deliver, Responses!Click, Responses!Return, Responses!GiveUp,
         Responses!Reply, Responses!Persist, Responses!Begin, Responses!Write,
         Responses!Finish, Responses!Withdraw, Responses!End, Responses!NoSession,
         Responses!Resume, Responses!Next, Responses!FoldLeft, Responses!MapThenFoldSet,
         Responses!Max, Responses!Min, Responses!SelectInSeq, Responses!Reverse,
         Responses!Last, Stored!Responses!Steps, Stored!Responses!Nobody,
         Stored!Responses!Silent, Stored!Responses!Reduce, Stored!Responses!Keep,
         Stored!Responses!LastState, Stored!Responses!SummaryCard, Stored!Responses!Load,
         Stored!Responses!Deliver, Stored!Responses!Click, Stored!Responses!Return,
         Stored!Responses!GiveUp, Stored!Responses!Reply, Stored!Responses!Persist,
         Stored!Responses!Begin, Stored!Responses!Write, Stored!Responses!Finish,
         Stored!Responses!Withdraw, Stored!Responses!End, Stored!Responses!NoSession,
         Stored!Responses!Resume, Stored!Responses!Next, Stored!Responses!FoldLeft,
         Stored!Responses!MapThenFoldSet, Stored!Responses!Max, Stored!Responses!Min,
         Stored!Responses!SelectInSeq, Stored!Responses!Reverse, Stored!Responses!Last
<1>3. Stored!Responses!AnsweredOnce /\ Stored!Responses!StillOffered =>
       Responses!AnsweredOnce /\ Responses!StillOffered
  BY DEF Responses!AnsweredOnce, Responses!StillOffered, Responses!Range,
         Stored!Responses!AnsweredOnce, Stored!Responses!StillOffered,
         Stored!Responses!Range
<1> QED
  BY <1>1, <1>2, <1>3

\* The hypotheses of the theorems about the parts.
LEMMA PartAssumptions == Stored!MarksDistinct /\ Stored!WritersFinite
BY StorageAssumption
   DEF Stored!MarksDistinct, Stored!Generations!NoGen, Stored!Generations!Free,
       Generations!NoGen, Generations!Free, Stored!WritersFinite, Stored!IsFiniteSet,
       IsFiniteSet

\* The inductive invariant of the chosen part.
StorageInv ==
  /\ part = "generations" => Stored!GenInv
  /\ part = "config" => Stored!ConfigInv
  /\ part = "runIndex" => Stored!IndexInv
  /\ part = "scanCaches" => Stored!CacheInv
  /\ part = "responses" => Stored!ResponseInv

LEMMA StorageStarts == StorageInit => StorageInv
<1> SUFFICES ASSUME StorageInit PROVE StorageInv
  OBVIOUS
<1>1. part = "generations" => Generations!Init
  BY DEF StorageInit
<1>2. part = "config" => Config!Init
  BY DEF StorageInit
<1>3. part = "runIndex" => Indexing!Init
  BY DEF StorageInit
<1>4. part = "scanCaches" => Scanning!Init
  BY DEF StorageInit
<1>5. part = "generations" => Stored!GenInv
  BY <1>1, SameGenerations, PartAssumptions, Stored!GenInvStarts
<1>6. part = "config" => Stored!ConfigInv
  BY <1>2, SameConfig, PartAssumptions, Stored!ConfigInvStarts
<1>7. part = "runIndex" => Stored!IndexInv
  BY <1>3, SameIndexing, Stored!IndexInvStarts
<1>8. part = "scanCaches" => Stored!CacheInv
  BY <1>4, SameScanning, Stored!CacheInvStarts
<1>9. part = "responses" => Responses!Init
  BY DEF StorageInit
<1>10. part = "responses" => Stored!ResponseInv
  BY <1>9, SameResponses, Stored!ResponseInvStarts
<1> QED
  BY <1>5, <1>6, <1>7, <1>8, <1>10 DEF StorageInv

LEMMA StorageStays == StorageInv /\ [StorageNext]_allVars => StorageInv'
<1> SUFFICES ASSUME StorageInv, [StorageNext]_allVars PROVE StorageInv'
  OBVIOUS
<1>1. part' = part
  BY DEF StorageNext, allVars
<1>2. ASSUME part = "generations" PROVE Stored!GenInv'
  <2>1. Generations!Next \/ UNCHANGED Stored!Generations!vars
    BY <1>2 DEF StorageNext, allVars, slots, Stored!Generations!vars,
                Stored!Generations!logVars, Stored!Generations!diskVars,
                Stored!Generations!lockVars
  <2>2. [Stored!Generations!Next]_Stored!Generations!vars
    BY <2>1, SameGenerations
  <2>3. Stored!GenInv
    BY <1>2 DEF StorageInv
  <2> QED
    BY <2>2, <2>3, PartAssumptions, Stored!GenInvStays
<1>3. ASSUME part = "config" PROVE Stored!ConfigInv'
  <2>1. Config!Next \/ UNCHANGED Stored!vars
    BY <1>3 DEF StorageNext, allVars, slots, Stored!vars, Stored!counters
  <2>2. [Stored!Next]_Stored!vars
    BY <2>1, SameConfig
  <2>3. Stored!ConfigInv
    BY <1>3 DEF StorageInv
  <2> QED
    BY <2>2, <2>3, PartAssumptions, Stored!ConfigInvStays
<1>4. ASSUME part = "runIndex" PROVE Stored!IndexInv'
  <2>1. Indexing!Next \/ UNCHANGED Stored!Indexing!vars
    BY <1>4 DEF StorageNext, allVars, slots, Stored!Indexing!vars
  <2>2. [Stored!Indexing!Next]_Stored!Indexing!vars
    BY <2>1, SameIndexing
  <2>3. Stored!IndexInv
    BY <1>4 DEF StorageInv
  <2> QED
    BY <2>2, <2>3, Stored!IndexInvStays
<1>5. ASSUME part = "scanCaches" PROVE Stored!CacheInv'
  <2>1. Scanning!Next \/ UNCHANGED Stored!Caches!vars
    BY <1>5 DEF StorageNext, allVars, slots, Stored!Caches!vars,
                Stored!Caches!diskVars
  <2>2. [Stored!Caches!Next]_Stored!Caches!vars
    BY <2>1, SameScanning
  <2>3. Stored!CacheInv
    BY <1>5 DEF StorageInv
  <2> QED
    BY <2>2, <2>3, Stored!CacheInvStays
<1>6. ASSUME part = "responses" PROVE Stored!ResponseInv'
  <2>1. Responses!Next \/ UNCHANGED Stored!Responses!vars
    BY <1>6 DEF StorageNext, allVars, slots, Stored!Responses!vars
  <2>2. [Stored!Responses!Next]_Stored!Responses!vars
    BY <2>1, SameResponses
  <2>3. Stored!ResponseInv
    BY <1>6 DEF StorageInv
  <2> QED
    BY <2>2, <2>3, Stored!ResponseInvStays
<1> QED
  BY <1>1, <1>2, <1>3, <1>4, <1>5, <1>6 DEF StorageInv

(* The generation a client pages through stays on disk, current.json names a *)
(* complete one, and the history of a run that has ended is whole, through   *)
(* any number of requests, builds, clean-ups, damages and crashes.          *)
THEOREM GenerationsAreKept == StorageSpec => []GenerationsKept
<1>1. StorageInv => GenerationsKept
  BY SameGenerations, PartAssumptions, Stored!GenInvSuffices DEF StorageInv, GenerationsKept
<1> QED
  BY <1>1, StorageStarts, StorageStays, PTL DEF StorageSpec

(* The configuration files stay whole, are never taken for empty where that  *)
(* is refused, and keep every key that nobody has cleared, for any number of *)
(* commands at the same time, failed reads and writes, and crashes.         *)
THEOREM ConfigIsKept == StorageSpec => []ConfigKept
<1>1. StorageInv => ConfigKept
  BY SameConfig, PartAssumptions, Stored!ConfigInvSuffices DEF StorageInv, ConfigKept
<1> QED
  BY <1>1, StorageStarts, StorageStays, PTL DEF StorageSpec

(* What the index of runs keeps of a run, and what the caches of usage,      *)
(* threads and prompts keep of a file, is not out of date when it is taken   *)
(* over, and what a scan returns is not older than its question.            *)
THEOREM IndexIsCurrent == StorageSpec => []IndexCurrent
<1>1. StorageInv => IndexCurrent
  <2>1. Stored!IndexInv => Indexing!KeptIsCurrent
    BY SameIndexing, Stored!IndexInvSuffices
  <2>2. Stored!CacheInv => Scanning!KeptIsCurrent /\ Scanning!AnswerCurrent
    BY SameScanning, Stored!CacheInvSuffices
  <2> QED
    BY <2>1, <2>2 DEF StorageInv, IndexCurrent
<1> QED
  BY <1>1, StorageStarts, StorageStays, PTL DEF StorageSpec

(* A request of the CLI is answered at most once, is not offered again once   *)
(* it may have been answered, whatever fails or restarts, and is offered on  *)
(* every page as long as it waits.                                         *)
THEOREM PromptIsAnswered == StorageSpec => []PromptAnswered
<1>1. StorageInv => PromptAnswered
  BY SameResponses, Stored!ResponseInvSuffices DEF StorageInv, PromptAnswered
<1> QED
  BY <1>1, StorageStarts, StorageStays, PTL DEF StorageSpec

(* Generations, configuration and indexes together: what is kept on disk and read again is  *)
(* there, whole and current.                                               *)
THEOREM AllIsKept == StorageSpec => []FilesKept
<1>1. GenerationsKept /\ ConfigKept /\ IndexCurrent => FilesKept
  BY DEF FilesKept
<1> QED
  BY <1>1, GenerationsAreKept, ConfigIsKept, IndexIsCurrent, PTL
=============================================================================
