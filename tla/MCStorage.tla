------------------------------ MODULE MCStorage ------------------------------
(***************************************************************************)
(* The instance of the modules about what is kept on disk: events.jsonl,     *)
(* the projection onto pages, the generations of pages, the imports of      *)
(* transcripts and of Codex threads, the run index, the caches of scans, the *)
(* answers to prompts, configuration.  As in MCServices the initial state chooses one *)
(* part, whose actions alone are taken then.                                *)
(***************************************************************************)
EXTENDS EventLog, TLC

CONSTANTS a1, a2, b1, b2       \* what the parts call by different names
CONSTANTS root, fork, m, big, state
CONSTANTS main, p, q           \* the scopes of a log
CONSTANTS Main, Agents, Tools, Home, Messages, MaxSubs, MaxEvents
CONSTANTS Gens, Clients, MaxLog, MaxCatchup
CONSTANTS Importers, MaxLines, MaxStops, Threads
CONSTANTS IndexRuns, MaxReports, MaxCost, MaxWrites
CONSTANTS Files, ScanCalls, MaxChanges
CONSTANTS Pages, MaxEnds
CONSTANTS Writers, Keys, MaxCalls

(* A sub-agent that starts a second one. *)
HomeOfTool == (p :> main) @@ (q :> p)

(* Threads of Codex: a call that ends in the next rollout, turns with usage,  *)
(* a text that two lines say, a call that two lines end in a turn without   *)
(* usage, a turn without a message of the user, a turn cut short, and three *)
(* rollouts.                                                               *)
L(kind, x) == <<kind, x>>
S == L("task_started", "")
U == L("user_message", "t")
C == L("function_call", "c")
E == L("exec_command_end", "c")
O == L("function_call_output", "c")
A == L("agent_message", "u")
M == L("message", "u")
T == L("token_count", "some")
N == L("token_count", "none")
D == L("task_complete", "")
X == L("turn_aborted", "")
SampleThreads ==
  {<< <<S, U, C>>, <<S, U, E, O>> >>, << <<S, U, T, D>>, <<S, U, T, D>> >>,
   << <<S, U, M, A>>, <<S, A, M>> >>, << <<S, U, C, E, O, N, D>>, <<S>> >>,
   << <<S, T, D, U, T, D>>, <<U>> >>, << <<S>>, <<S, U, C, X>> >>,
   << <<S, U>>, <<S, U>>, <<S, U>> >>}

(* The variables of the chosen part, but for those of EventLog. *)
VARIABLES
  part,
  s1, s2, s3, s4, s5, s6, s7, s8, s9, s10, s11, s12, s13, s14, s15, s16

slots == <<s1, s2, s3, s4, s5, s6, s7, s8, s9, s10, s11, s12, s13, s14, s15, s16>>
allVars == <<part, vars, slots>>

Projection ==
  INSTANCE HistoryProjection
  WITH length <- s1, tracker <- s2, builder <- s3, published <- s4
Generations ==
  INSTANCE HistoryGenerations
  WITH safe <- s1, terminal <- s2, dir <- s3, size <- s4, damaged <- s5,
       current <- s6, retained <- s7, shard <- s8, global <- s9, stage <- s10,
       gen <- s11, prev <- s12, keep <- s13, handed <- s14, calm <- s15,
       crashes <- s16
Import ==
  INSTANCE CliImport
  WITH file <- s1, torn <- s2, prompts <- s3, there <- s4, watermark <- s5,
       imported <- s6, usage <- s7, index <- s8, job <- s9, fits <- s10,
       passed <- s11, rough <- s12, stops <- s13
CodexImporting ==
  INSTANCE CodexImport
  WITH thread <- s1, written <- s2, there <- s3, listed <- s4, noUsage <- s5,
       log <- s6, index <- s7, job <- s8, rough <- s9, faults <- s10
Indexing ==
  INSTANCE RunIndex
  WITH imported <- s1, log <- s2, meta <- s3, index <- s4, manifest <- s5,
       young <- s6, build <- s7, slipped <- s8, crashes <- s9, Runs <- IndexRuns
Scanning ==
  INSTANCE ScanCaches
  WITH style <- s1, version <- s2, deleted <- s3, prints <- s4, kept <- s5,
       broken <- s6, tmp <- s7, memory <- s8, call <- s9, faults <- s10,
       Calls <- ScanCalls
Responses ==
  INSTANCE InteractionResponses
  WITH log <- s1, session <- s2, answers <- s3, card <- s4, cursor <- s5, call <- s6,
       ghost <- s7, blind <- s8, ends <- s9
Config ==
  INSTANCE ConfigFiles
  WITH kind <- s1, place <- s2, tmp <- s3, content <- s4, op <- s5, owed <- s6,
       raced <- s7, hollow <- s8, together <- s9, calls <- s10, faults <- s11

(* The marks for "none" are nobody's names, and there are finitely many       *)
(* writers of configuration files.                                         *)
ASSUME StorageAssumption ==
  /\ Generations!NoGen \notin Gens /\ Generations!Free \notin Clients
  /\ IsFiniteSet(Writers)

(* The slots from the k-th on, which the chosen part has no use for. *)
Off == "off"
Off14 == s14 = Off /\ s15 = Off /\ s16 = Off
Off12 == s12 = Off /\ s13 = Off /\ Off14
Off11 == s11 = Off /\ Off12
Off10 == s10 = Off /\ Off11
Off5 == s5 = Off /\ s6 = Off /\ s7 = Off /\ s8 = Off /\ s9 = Off /\ Off10
Off1 == s1 = Off /\ s2 = Off /\ s3 = Off /\ s4 = Off /\ Off5

rest14 == <<s14, s15, s16>>
rest12 == <<s12, s13, rest14>>
rest11 == <<s11, rest12>>
rest10 == <<s10, rest11>>
rest5 == <<s5, s6, s7, s8, s9, rest10>>

(* One part is chosen. *)
StorageInit ==
  /\ Init
  /\ \/ /\ part = "projection" /\ Projection!Init /\ Off5
     \/ /\ part = "generations" /\ Generations!Init
     \/ /\ part = "import" /\ Import!Init /\ Off14
     \/ /\ part = "codexImport" /\ CodexImporting!Init /\ Off11
     \/ /\ part = "runIndex" /\ Indexing!Init /\ Off10
     \/ /\ part = "scanCaches" /\ Scanning!Init /\ Off11
     \/ /\ part = "responses" /\ Responses!Init /\ Off10
     \/ /\ part = "config" /\ Config!Init /\ Off12
     \/ part = "eventLog" /\ Off1

StorageNext ==
  /\ UNCHANGED part
  /\ \/ part = "eventLog" /\ Next /\ UNCHANGED slots
     \/ part = "projection" /\ Projection!Next /\ UNCHANGED <<vars, rest5>>
     \/ part = "generations" /\ Generations!Next /\ UNCHANGED vars
     \/ part = "import" /\ Import!Next /\ UNCHANGED <<vars, rest14>>
     \/ part = "codexImport" /\ CodexImporting!Next /\ UNCHANGED <<vars, rest11>>
     \/ part = "runIndex" /\ Indexing!Next /\ UNCHANGED <<vars, rest10>>
     \/ part = "scanCaches" /\ Scanning!Next /\ UNCHANGED <<vars, rest11>>
     \/ part = "responses" /\ Responses!Next /\ UNCHANGED <<vars, rest10>>
     \/ part = "config" /\ Config!Next /\ UNCHANGED <<vars, rest12>>

StorageSpec == StorageInit /\ [][StorageNext]_allVars

Interchangeable == Permutations({a1, a2}) \cup Permutations({b1, b2})

-----------------------------------------------------------------------------
(* The properties of the parts; those of EventLog need no new name. *)

(* Every variable of the chosen part has its type. *)
TypesOK ==
  CASE part = "eventLog" -> TypeOK
    [] part = "projection" -> Projection!TypeOK
    [] part = "generations" -> Generations!TypeOK
    [] part = "import" -> Import!TypeOK
    [] part = "codexImport" -> CodexImporting!TypeOK
    [] part = "runIndex" -> Indexing!TypeOK
    [] part = "scanCaches" -> Scanning!TypeOK
    [] part = "responses" -> Responses!TypeOK
    [] part = "config" -> Config!TypeOK

(* What a history page has shown never changes when the log grows, and no   *)
(* message and no tool is shown twice.                                     *)
PublishedStays ==
  part = "projection" => Projection!PublishedStays /\ Projection!EntriesUnique

(* The generation a client pages through stays on disk, current.json names a *)
(* complete one, and the history of a run that has ended is whole.          *)
GenerationsKept ==
  part = "generations" =>
    Generations!HandedStays /\ Generations!PointerValid /\ Generations!EndedRunWhole

(* Transcript lines below the watermark are imported, and none twice but     *)
(* where its key was lost.  Of a Codex thread the same holds, its calls are  *)
(* shown and paired, usage that lacks is said to lack, and turns stay apart. *)
(* What the run index takes from the log, the cost of a run, is what was     *)
(* reported.                                                               *)
TakenExactly ==
  /\ part = "import" => Import!ImportExact
  /\ part = "codexImport" =>
       /\ CodexImporting!OnceEach /\ CodexImporting!CallsShown
       /\ CodexImporting!CallsPaired /\ CodexImporting!UsageHonest
       /\ CodexImporting!TurnsApart
  /\ part = "runIndex" => Indexing!CostExact

(* What the comments of the code promise of a retry, and the code does not   *)
(* keep; no run checks the two.                                            *)
RetryImportsNothingTwice == part = "import" => Import!RetryImportsNothingTwice
RetrySkipsWritten == part = "codexImport" => CodexImporting!RetrySkipsWritten

(* What the run index keeps is current, and so is what the caches of usage,  *)
(* threads and prompts keep.                                                *)
IndexCurrent ==
  /\ part = "runIndex" => Indexing!KeptIsCurrent
  /\ part = "scanCaches" => Scanning!KeptIsCurrent /\ Scanning!AnswerCurrent

(* A request of the CLI is answered at most once, and offered on every page  *)
(* as long as it waits.                                                     *)
PromptAnswered == part = "responses" => Responses!AnsweredOnce /\ Responses!StillOffered

(* The configuration files stay whole, are never taken for empty where that  *)
(* is refused, and keep every key that nobody has cleared.                  *)
ConfigKept ==
  part = "config" => Config!Unbroken /\ Config!NotTakenForEmpty /\ Config!KeysKept

(* What is kept on disk and read again, generations, configuration, indexes   *)
(* and caches, is there, whole and current.                                 *)
FilesKept == GenerationsKept /\ ConfigKept /\ IndexCurrent

=============================================================================
