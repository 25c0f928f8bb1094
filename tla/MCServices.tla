----------------------------- MODULE MCServices -----------------------------
(***************************************************************************)
(* The instance of the modules about sessions and what surrounds them: the  *)
(* commands and actors of a run, what a process is launched with, forks and *)
(* side questions, the Codex connection, its turns, pipe mode, the pages   *)
(* and the web server.  TLC checks them in one run, as a sum: the           *)
(* initial state chooses one part, whose actions alone are taken then, so   *)
(* the states of the parts add up and do not multiply.  The parts do not    *)
(* share state; what each takes from the others is said in its module.      *)
(***************************************************************************)
EXTENDS SessionLifecycle, TLC

CONSTANTS a1, a2, b1, b2       \* what the parts call by different names
CONSTANTS Root, Children, Reqs, MaxThreads, MaxPerThread, MaxBytes, Sizes, MaxTickets
CONSTANTS Values, MaxTurns, MaxActs, MaxUpdates, MaxProcs, MaxRefusals
CONSTANTS Sends, MaxStops, MaxUpsets
CONSTANTS main, p, q, u        \* the main thread and three calls; platforms
CONSTANTS info, plugin, chat, side   \* processes that read the credentials
CONSTANTS Viewers, Words, Uses, Top, Parent, MaxSays, MaxMishaps
CONSTANTS Chats, Fresh, MaxLog, MaxOps
CONSTANTS Callers, Asked, MaxServers, MaxRefused
CONSTANTS MaxRuns, MaxSessions, MaxQuestions, MaxLines
CONSTANTS Gated, Passing, Ungated, MaxExpired, MaxFaults
CONSTANTS Presets, Keyless, Custom, DefaultModels, MaxEdits

(* An agent that calls a tool, and a second call of the main thread. *)
ParentOfUse == (p :> main) @@ (q :> p) @@ (u :> main)

(* The variables of the chosen part, but for those of SessionLifecycle. *)
VARIABLES
  part,
  s1, s2, s3, s4, s5, s6, s7, s8, s9, s10, s11, s12, s13, s14, s15, s16, s17, s18

slots == <<s1, s2, s3, s4, s5, s6, s7, s8, s9, s10, s11, s12, s13, s14, s15, s16, s17,
           s18>>
allVars == <<part, vars, slots>>

Codex ==
  INSTANCE CodexAppServer
  WITH driver <- s1, engine <- s2, fate <- s3, open <- s4, atServer <- s5
Turning ==
  INSTANCE CodexTurns
  WITH saved <- s1, choice <- s2, actor <- s3, toServer <- s4, fromServer <- s5,
       server <- s6, made <- s7, cards <- s8, calls <- s9, turns <- s10, acts <- s11,
       reports <- s12, procs <- s13, refusals <- s14, missed <- s15, want <- s16,
       ran <- s17, texts <- s18
Pipe ==
  INSTANCE PipeChat
  WITH task <- s1, fate <- s2, seqOf <- s3, timedOut <- s4, removed <- s5, slot <- s6,
       stop <- s7, meta <- s8, copy <- s9, shown <- s10, verdict <- s11, mixed <- s12,
       taken <- s13, refused <- s14, late <- s15, rewound <- s16, stops <- s17,
       upsets <- s18
Timeline ==
  INSTANCE ChatTimeline
  WITH mode <- s1, turn <- s2, use <- s3, sent <- s4, emitted <- s5, last <- s6,
       stale <- s7, cards <- s8, seen <- s9, reloaded <- s10, crossed <- s11,
       queue <- s12, users <- s13, said <- s14, refused <- s15, mishaps <- s16
View ==
  INSTANCE RunView
  WITH page <- s1, gen <- s2, ops <- s3, holding <- s4, buffer <- s5, log <- s6,
       alive <- s7, wire <- s8, mishaps <- s9
Web ==
  INSTANCE WebServer
  WITH settings <- s1, holder <- s2, serve <- s3, generation <- s4, port <- s5,
       warned <- s6, handle <- s7, tasks <- s8, refused <- s9, launched <- s10,
       unsaved <- s11, slipped <- s12
Forking ==
  INSTANCE Forks
  WITH agent <- s1, meta <- s2, log <- s3, session <- s4, owner <- s5, gone <- s6,
       proc <- s7, job <- s8, turns <- s9, cut <- s10, early <- s11, behind <- s12,
       shared <- s13, faults <- s14
Aside ==
  INSTANCE SideQuestions
  WITH agent <- s1, asked <- s2, panel <- s3, call <- s4, cli <- s5, wrote <- s6,
       reader <- s7, wire <- s8, mixed <- s9
Login ==
  INSTANCE Credentials
  WITH server <- s1, file <- s2, user <- s3, gate <- s4, expired <- s5, lost <- s6,
       raced <- s7, faults <- s8
Provider ==
  INSTANCE ProviderEnv
  WITH settings <- s1, shell <- s2, run <- s3, process <- s4, reachable <- s5,
       edits <- s6

(* The marks for "none" are nobody's names, no configuration asks for port 0, *)
(* and a process deals with the gate in one way.                           *)
ASSUME ServicesAssumption ==
  /\ Pipe!NoChild \notin Sends
  /\ {Web!Launch, Web!Nobody} \cap Callers = {} /\ Asked \subseteq Nat \ {0}
  /\ Login!None \notin Login!Users
  /\ Gated \cap Passing = {} /\ Gated \cap Ungated = {} /\ Passing \cap Ungated = {}
  /\ Provider!None \notin Provider!Platforms

(* The slots from the k-th on, which the chosen part has no use for. *)
Off == "off"
Off17 == s17 = Off /\ s18 = Off
Off15 == s15 = Off /\ s16 = Off /\ Off17
Off13 == s13 = Off /\ s14 = Off /\ Off15
Off10 == s10 = Off /\ s11 = Off /\ s12 = Off /\ Off13
Off9 == s9 = Off /\ Off10
Off7 == s7 = Off /\ s8 = Off /\ Off9
Off6 == s6 = Off /\ Off7
Off1 == s1 = Off /\ s2 = Off /\ s3 = Off /\ s4 = Off /\ s5 = Off /\ Off6

rest17 == <<s17, s18>>
rest15 == <<s15, s16, rest17>>
rest13 == <<s13, s14, rest15>>
rest10 == <<s10, s11, s12, rest13>>
rest9 == <<s9, rest10>>
rest7 == <<s7, s8, rest9>>
rest6 == <<s6, rest7>>

(* One part is chosen. *)
ServicesInit ==
  /\ Init
  /\ \/ /\ part = "codex" /\ Codex!Init /\ Off6
     \/ /\ part = "codexTurns" /\ Turning!Init
     \/ /\ part = "pipe" /\ Pipe!Init
     \/ /\ part = "timeline" /\ Timeline!Init /\ Off17
     \/ /\ part = "runView" /\ View!Init /\ Off10
     \/ /\ part = "webServer" /\ Web!Init /\ Off13
     \/ /\ part = "forks" /\ Forking!Init /\ Off15
     \/ /\ part = "sideQuestions" /\ Aside!Init /\ Off10
     \/ /\ part = "credentials" /\ Login!Init /\ Off9
     \/ /\ part = "providerEnv" /\ Provider!Init /\ Off7
     \/ part = "lifecycle" /\ Off1

ServicesNext ==
  /\ UNCHANGED part
  /\ \/ part = "lifecycle" /\ Next /\ UNCHANGED slots
     \/ part = "codex" /\ Codex!Next /\ UNCHANGED <<vars, rest6>>
     \/ part = "codexTurns" /\ Turning!Next /\ UNCHANGED vars
     \/ part = "pipe" /\ Pipe!Next /\ UNCHANGED vars
     \/ part = "timeline" /\ Timeline!Next /\ UNCHANGED <<vars, rest17>>
     \/ part = "runView" /\ View!Next /\ UNCHANGED <<vars, rest10>>
     \/ part = "webServer" /\ Web!Next /\ UNCHANGED <<vars, rest13>>
     \/ part = "forks" /\ Forking!Next /\ UNCHANGED <<vars, rest15>>
     \/ part = "sideQuestions" /\ Aside!Next /\ UNCHANGED <<vars, rest10>>
     \/ part = "credentials" /\ Login!Next /\ UNCHANGED <<vars, rest9>>
     \/ part = "providerEnv" /\ Provider!Next /\ UNCHANGED <<vars, rest7>>

ServicesSpec == ServicesInit /\ [][ServicesNext]_allVars

Interchangeable == Permutations({a1, a2}) \cup Permutations({b1, b2})

-----------------------------------------------------------------------------
(* The properties of the parts; those of SessionLifecycle need no new name. *)

(* Every variable of the chosen part has its type. *)
TypesOK ==
  CASE part = "lifecycle" -> TypeOK
    [] part = "codex" -> Codex!TypeOK
    [] part = "codexTurns" -> Turning!TypeOK
    [] part = "pipe" -> Pipe!TypeOK
    [] part = "timeline" -> Timeline!TypeOK
    [] part = "runView" -> View!TypeOK
    [] part = "webServer" -> Web!TypeOK
    [] part = "forks" -> Forking!TypeOK
    [] part = "sideQuestions" -> Aside!TypeOK
    [] part = "credentials" -> Login!TypeOK
    [] part = "providerEnv" -> Provider!TypeOK

(* Every interactive request of a Codex server is answered, just once,      *)
(* although the messages of threads nobody has claimed stay within their    *)
(* limits, and a turn that counts as started has reached its thread, unless *)
(* the server named none.  The turns of a thread run one at a time, in order *)
(* and with the settings chosen for them; who steers them, calls the server  *)
(* or reads what it reports is served.                                      *)
CodexTrue ==
  /\ part = "codex" => Codex!OneReply /\ Codex!BufferBounded /\ Codex!TurnReachesThread
  /\ part = "codexTurns" => /\ Turning!SettingsKept /\ Turning!OneTurnAtATime
                            /\ Turning!SteersNoStranger /\ Turning!NobodyWaits
                            /\ Turning!CardsCurrent

(* The status of a run in pipe mode is what became of its process, on which  *)
(* page and meta.json agree; and no process of a run is out of reach, works  *)
(* beside another for longer than it takes to replace it, or has its number. *)
PipeTrue ==
  part = "pipe" => /\ Pipe!OwnVerdict /\ Pipe!Settled
                   /\ Pipe!OneProcess /\ Pipe!OwnCards

(* The calls and the messages of a conversation are on the page as they are, *)
(* and the page shows all of the conversation the user went to last, and it  *)
(* alone; a side question is answered in its panel; and a fork goes on in a  *)
(* session of its own that remembers what the fork shows.                   *)
TimelineTrue ==
  /\ part = "timeline" => Timeline!CardsTrue /\ Timeline!MessagesTrue
  /\ part = "runView" => /\ View!RouteShown /\ View!OneRun /\ View!Whole
                         /\ View!PhaseTrue /\ View!Released
  /\ part = "sideQuestions" => Aside!AnswerOfQuestion /\ Aside!Settled /\ Aside!ErrorShown
  /\ part = "forks" => Forking!OwnSession /\ Forking!OneProcess /\ Forking!Remembered

(* The page shows the port that is served, there is one server, and the next *)
(* launch starts what runs now.                                            *)
WebServerTrue ==
  part = "webServer" => Web!StatusHonest /\ Web!OneServer /\ Web!SettingsFollow

(* A process has the credential, URL and model of its run, and the processes *)
(* that pass the gate do not race for the credentials of the user.          *)
LaunchTrue ==
  /\ part = "providerEnv" => Provider!ProviderEnvTrue
  /\ part = "credentials" => Login!CredentialsTrue

(* What is launched, the web server or a CLI, is what was configured.       *)
LaunchesTrue == WebServerTrue /\ LaunchTrue

=============================================================================
