---------------------------- MODULE ConfigFiles ----------------------------
(***************************************************************************)
(* The configuration files that several commands read, change and write    *)
(* back, each in its own way and none under a lock: settings.json           *)
(* (storage/settings.rs), prompt-favorites.json (favorites.rs),             *)
(* ~/.claude.json and ~/.claude/settings.json of the Claude CLI             *)
(* (mcp_registry.rs, cli_config.rs), hooks.json and config.toml of Codex    *)
(* (cli_config.rs, mcp_registry.rs, plugins.rs).                            *)
(*                                                                         *)
(* A behaviour is about one file, of some kind; its commands come from the  *)
(* window and from the clients of the web server.  fs::write empties a file  *)
(* and then fills it; whoever has it open keeps its inode when the name is   *)
(* given to another.  A file is a set of keys: settings, favourites,        *)
(* disabled servers, features, whatever its commands set and clear.         *)
(***************************************************************************)
EXTENDS Integers, FiniteSets

CONSTANTS
  Writers,    \* commands that run at the same time
  Keys,
  MaxCalls,   \* bound: commands
  MaxFaults   \* bound: failed reads, failed writes, deaths of the application

Kinds == {"settings", "favorites", "claudeJson", "cliSettings", "hooks", "codexToml"}

Inodes == 0..(Cardinality(Writers) + 2)
NoFile == -1
Idle == [step |-> "none"]

VARIABLES
  kind,       \* which of the files it is
  place,      \* the inode its name stands for, or NoFile
  tmp,        \* that of the temporary name all writers share, or NoFile
  content,    \* of each inode: whether its text is whole, and its keys
  op,         \* what each writer is about
  owed,       \* history: the keys of the file if commands followed each other
  raced,      \* history: the keys whose change was undone by a command that
              \* had read before it
  hollow,     \* history: a file that was there was taken for an empty one
  together,   \* history: two commands overlapped
  calls, faults

counters == <<calls, faults>>
vars == <<kind, place, tmp, content, op, owed, raced, hollow, together, counters>>

Texts == [text : {"whole", "empty", "torn"}, keys : SUBSET Keys]
Whole(keys) == [text |-> "whole", keys |-> keys]
Empty == [text |-> "empty", keys |-> {}]
Torn == [text |-> "torn", keys |-> {}]

TypeOK ==
  /\ kind \in Kinds
  /\ place \in Inodes \cup {NoFile} /\ tmp \in Inodes \cup {NoFile}
  /\ content \in [Inodes -> Texts]
  /\ \A w \in Writers : op[w] = Idle \/
       /\ op[w].step \in {"read", "open", "fill", "rename"}
       /\ op[w].key \in Keys /\ op[w].base \subseteq Keys /\ op[w].stale \subseteq Keys
       /\ op[w].inode \in Inodes \cup {NoFile} /\ op[w].defaults \in BOOLEAN
  /\ owed \subseteq Keys /\ raced \subseteq Keys
  /\ hollow \in BOOLEAN /\ together \in BOOLEAN
  /\ calls \in 0..MaxCalls /\ faults \in 0..MaxFaults

(* A file from before, or none. *)
Init ==
  /\ kind \in Kinds
  /\ owed \in SUBSET Keys
  /\ place \in {0, NoFile} /\ (place = NoFile => owed = {})
  /\ tmp = NoFile
  /\ content = [i \in Inodes |-> IF i = 0 THEN Whole(owed) ELSE Empty]
  /\ op = [w \in Writers |-> Idle]
  /\ raced = {} /\ hollow = FALSE /\ together = FALSE
  /\ calls = 0 /\ faults = 0

Busy == {w \in Writers : op[w] # Idle}

-----------------------------------------------------------------------------
(* The commands: what they may do to a key, and how they take a file that    *)
(* is not as expected.  lax: one that cannot be read or parsed is empty;     *)
(* careless: one that cannot be read is; strict: they end when there is      *)
(* none; exact: they end when the key is as it should be.                    *)

Call(w, which, does, how) ==
  /\ kind = which /\ op[w] = Idle /\ calls < MaxCalls
  /\ calls' = calls + 1
  /\ together' = (together \/ Busy # {})
  /\ \E k \in Keys, do \in does :
       op' = [op EXCEPT ![w] = [step |-> "read", do |-> do, key |-> k, how |-> how, base |-> {},
                                stale |-> {}, inode |-> NoFile, defaults |-> FALSE]]
  /\ UNCHANGED <<kind, place, tmp, content, owed, raced, hollow, faults>>

UpdateUserSettings(w) == Call(w, "settings", {"set", "clear"}, "lax")
UpdateAgentSettings(w) == Call(w, "settings", {"set"}, "lax")
SaveWebServerConfig(w) == Call(w, "settings", {"set", "clear"}, "lax")
GetUserSettings(w) == Call(w, "settings", {"nothing"}, "lax")

AddFavorite(w) == Call(w, "favorites", {"set"}, "exact")
RemoveFavorite(w) == Call(w, "favorites", {"clear"}, "exact")

ToggleServerConfig(w) == Call(w, "claudeJson", {"set", "clear"}, "strict")

UpdateCliConfig(w) == Call(w, "cliSettings", {"set", "clear"}, "lax")

UpdateCodexHooks(w) == Call(w, "hooks", {"set", "clear"}, "firm")

SetCodexFeature(w) == Call(w, "codexToml", {"set", "clear"}, "firm")
UpdateCodexConfig(w) == Call(w, "codexToml", {"set", "clear"}, "firm")
AddCodexServer(w) == Call(w, "codexToml", {"set"}, "firm")
RemoveCodexServer(w) == Call(w, "codexToml", {"clear"}, "strict")
ToggleCodexSkill(w) == Call(w, "codexToml", {"set", "clear"}, "careless")
ToggleCodexPlugin(w) == Call(w, "codexToml", {"set", "clear"}, "firm")

-----------------------------------------------------------------------------
(* Reading *)

Return(w) == op' = [op EXCEPT ![w] = Idle]

Unparsed == [ok |-> FALSE, keys |-> {}]

(* The beginning of a TOML file may be a shorter TOML file; that of a JSON   *)
(* file is none.                                                            *)
Parse(text) ==
  IF text.text = "whole" THEN {[ok |-> TRUE, keys |-> text.keys]}
  ELSE IF kind # "codexToml" THEN {Unparsed}
  ELSE {[ok |-> TRUE, keys |-> {}]} \cup (IF text.text = "torn" THEN {Unparsed} ELSE {})

Found(w, keys) ==
  IF op[w].do = "nothing" \/ (op[w].how = "exact" /\ (op[w].do = "set") = (op[w].key \in keys))
  THEN Return(w)
  ELSE op' = [op EXCEPT ![w].step = "open", ![w].base = keys]

(* Default settings are saved before they are used. *)
FoundNothing(w) ==
  IF kind = "settings" THEN op' = [op EXCEPT ![w].step = "open", ![w].defaults = TRUE]
  ELSE Found(w, {})

ReadMissing(w) ==
  /\ op[w].step = "read" /\ place = NoFile
  /\ IF op[w].how = "strict" THEN Return(w) ELSE FoundNothing(w)
  /\ UNCHANGED <<kind, place, tmp, content, owed, raced, hollow, together, counters>>

ReadFile(w) ==
  /\ op[w].step = "read" /\ place # NoFile
  /\ \E seen \in Parse(content[place]) :
       IF seen.ok THEN Found(w, seen.keys) /\ hollow' = (hollow \/ content[place].text # "whole")
       ELSE IF op[w].how = "lax" THEN FoundNothing(w) /\ hollow' = TRUE
       ELSE Return(w) /\ UNCHANGED hollow
  /\ UNCHANGED <<kind, place, tmp, content, owed, raced, together, counters>>

(* Too many files are open, or the file is locked. *)
ReadError(w) ==
  /\ op[w].step = "read" /\ place # NoFile /\ faults < MaxFaults
  /\ faults' = faults + 1
  /\ IF op[w].how \in {"lax", "careless"} THEN FoundNothing(w) /\ hollow' = TRUE
     ELSE Return(w) /\ UNCHANGED hollow
  /\ UNCHANGED <<kind, place, tmp, content, owed, raced, together, calls>>

-----------------------------------------------------------------------------
(* Writing *)

\* Mutant: ~/.claude.json is written in place.
TargetInPlace ==
  CASE kind = "settings" -> "own"
    [] kind = "favorites" -> "tmp"
    [] OTHER -> "place"

(* Where the text goes first: to a temporary file of the writer's own, to    *)
(* the temporary file of all, or into the file.                             *)
Target ==
  CASE kind \in {"settings", "claudeJson"} -> "own"
    [] kind = "favorites" -> "tmp"
    [] OTHER -> "place"

Unused == Inodes \ ({place, tmp} \cup {op[w].inode : w \in Busy})
Fresh == CHOOSE i \in Unused : TRUE

(* The file is created, or emptied. *)
Open(w) ==
  /\ op[w].step = "open"
  /\ LET i == CASE Target = "place" /\ place # NoFile -> place
                [] Target = "tmp" /\ tmp # NoFile -> tmp
                [] OTHER -> Fresh
     IN /\ content' = [content EXCEPT ![i] = Empty]
        /\ op' = [op EXCEPT ![w].inode = i, ![w].step = "fill"]
        /\ place' = IF Target = "place" THEN i ELSE place
        /\ tmp' = IF Target = "tmp" THEN i ELSE tmp
  /\ UNCHANGED <<kind, owed, raced, hollow, together, counters>>

Text(o) ==
  IF o.defaults THEN {}
  ELSE IF o.do = "set" THEN o.base \cup {o.key} ELSE o.base \ {o.key}

(* w is done with a text: with the defaults it goes on to its own change. *)
Written(w) ==
  IF ~op[w].defaults THEN Idle
  ELSE IF op[w].do = "nothing" THEN Idle
  ELSE [op[w] EXCEPT !.step = "open", !.defaults = FALSE, !.inode = NoFile]

(* The text of w is in force.  Those who have read before do not know of it, *)
(* and what w did not know of is undone.                                    *)
InForce(w) ==
  LET key == IF op[w].defaults THEN {} ELSE {op[w].key}
  IN /\ owed' = IF op[w].do = "set" THEN owed \cup key ELSE owed \ key
     /\ raced' = (raced \cup op[w].stale) \ key
     /\ op' = [v \in Writers |->
                 CASE v = w -> Written(w)
                   [] v # w /\ op[v] # Idle /\ op[v].step # "read" ->
                        [op[v] EXCEPT !.stale = @ \cup key]
                   [] OTHER -> op[v]]

(* A file that another has filled in the meantime may be left with the end   *)
(* of his text.                                                             *)
Fill(w) ==
  /\ op[w].step = "fill"
  /\ LET i == op[w].inode
     IN /\ \E text \in {Whole(Text(op[w]))} \cup (IF content[i] = Empty THEN {} ELSE {Torn}) :
             content' = [content EXCEPT ![i] = text]
        /\ IF Target = "place" THEN InForce(w)
           ELSE op' = [op EXCEPT ![w].step = "rename"] /\ UNCHANGED <<owed, raced>>
  /\ UNCHANGED <<kind, place, tmp, hollow, together, counters>>

(* A shared temporary file may have been renamed, or made again, by another. *)
Rename(w) ==
  /\ op[w].step = "rename"
  /\ IF Target = "own" THEN place' = op[w].inode /\ UNCHANGED tmp /\ InForce(w)
     ELSE IF tmp # NoFile THEN place' = tmp /\ tmp' = NoFile /\ InForce(w)
     ELSE Return(w) /\ UNCHANGED <<place, tmp, owed, raced>>
  /\ UNCHANGED <<kind, content, hollow, together, counters>>

(* The disk is full; what was written of the file stays. *)
WriteFails(w) ==
  /\ op[w].step = "fill" /\ faults < MaxFaults
  /\ faults' = faults + 1
  /\ content' = [content EXCEPT ![op[w].inode] = Torn]
  /\ Return(w)
  /\ UNCHANGED <<kind, place, tmp, owed, raced, hollow, together, calls>>

Crash ==
  /\ Busy # {} /\ faults < MaxFaults
  /\ faults' = faults + 1
  /\ op' = [w \in Writers |-> Idle]
  /\ UNCHANGED <<kind, place, tmp, content, owed, raced, hollow, together, calls>>

Next ==
  \/ \E w \in Writers :
       \/ UpdateUserSettings(w) \/ UpdateAgentSettings(w) \/ SaveWebServerConfig(w)
       \/ GetUserSettings(w)
       \/ AddFavorite(w) \/ RemoveFavorite(w)
       \/ ToggleServerConfig(w) \/ UpdateCliConfig(w)
       \/ UpdateCodexHooks(w) \/ SetCodexFeature(w) \/ UpdateCodexConfig(w)
       \/ AddCodexServer(w) \/ RemoveCodexServer(w) \/ ToggleCodexSkill(w) \/ ToggleCodexPlugin(w)
       \/ ReadMissing(w) \/ ReadFile(w) \/ ReadError(w)
       \/ Open(w) \/ Fill(w) \/ Rename(w) \/ WriteFails(w)
  \/ Crash

Spec == Init /\ [][Next]_vars

-----------------------------------------------------------------------------
(* Properties *)

IsWhole == place = NoFile \/ content[place].text = "whole"

(* A text that is broken can be explained.  settings.json and ~/.claude.json *)
(* never are, through crashes, failures and overlapping commands; the        *)
(* favourites only if two commands have overlapped; the files written in      *)
(* place while somebody writes, or after an overlap or a failure.            *)
Unbroken ==
  ~IsWhole =>
    /\ kind \notin {"settings", "claudeJson"}
    /\ kind = "favorites" => together
    /\ together \/ faults > 0 \/ \E w \in Busy : op[w].step = "fill" /\ op[w].inode = place

(* A file is taken for an empty one only by the kinds that would rather lose *)
(* it than refuse: settings.json when it cannot be read, ~/.claude/settings.json *)
(* also when it is met half written, config.toml when its beginning is a     *)
(* TOML file.                                                               *)
NotTakenForEmpty ==
  hollow =>
    /\ kind \in {"settings", "cliSettings", "codexToml"}
    /\ faults > 0 \/ (together /\ kind # "settings")

(* A key is in the file exactly if the last command about it has set it.     *)
(* Lost are only the changes of a command that another, which had read       *)
(* before, has overwritten; all keys of a file taken for an empty one; and   *)
(* of favourites, whose writers share their temporary file.                 *)
KeysKept ==
  IsWhole /\ ~hollow /\ ~(kind = "favorites" /\ together) =>
    LET keys == IF place = NoFile THEN {} ELSE content[place].keys
    IN \A k \in Keys \ raced : k \in keys <=> k \in owed

=============================================================================
