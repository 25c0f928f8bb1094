---------------------------- MODULE ProviderEnv ----------------------------
(***************************************************************************)
(* What the process of a run is given: where it runs, whose credential and  *)
(* URL it has, which model it is asked for.  A run keeps the platform, host *)
(* and model of its creation (storage::runs::create_run); everything else   *)
(* is resolved from the settings of the moment, for each of the commands    *)
(* that start a process (commands/session.rs, commands/chat.rs).            *)
(*                                                                         *)
(* A credential, a URL or a model is known by whose it is: "platform" for   *)
(* an entry of platform_credentials, "global" for the settings of the old   *)
(* single provider, "default" for known_provider_defaults.  Environment     *)
(* variables of other names (extra_env) go with the models and are left out.*)
(***************************************************************************)
EXTENDS Naturals

CONSTANTS
  Presets,        \* known platforms, which need a key and take a bearer token
  Keyless,        \* local proxies that need none (key_optional)
  Custom,         \* platforms, others than these, the app knows nothing of
  DefaultModels,  \* the known platforms whose defaults name models
  MaxEdits        \* bound: changes of the settings

VARIABLES
  settings,   \* settings.json
  shell,      \* what the app inherited, and what the shell files export
  run,        \* meta.json of the run
  process,    \* the last process started with these settings, and what it was given
  reachable,  \* the URL answers
  edits

vars == <<settings, shell, run, process, reachable, edits>>

None == "none"
Known == Presets \cup Keyless
Platforms == Known \cup Custom
Headers == {"key", "token"}               \* ANTHROPIC_API_KEY, ANTHROPIC_AUTH_TOKEN
Credentials == {None} \cup Headers
Entries ==
  [header : Headers, hasKey : BOOLEAN, url : BOOLEAN, models : {None, "set", "blank"}]
FullEntry == [header |-> "key", hasKey |-> TRUE, url |-> TRUE, models |-> "set"]
Absent == [header |-> "key", hasKey |-> FALSE, url |-> FALSE, models |-> "absent"]

Settings ==
  [mode : {"api", "cli"},                  \* auth_mode
   global : Credentials, url : BOOLEAN,    \* anthropic_api_key, anthropic_base_url
   entries : [Platforms -> Entries \cup {Absent}],
   active : Platforms \cup {None},         \* active_platform_id
   host : {"gone", "forwards", "bare"},    \* the remote host, and forward_api_key
   agentModel : BOOLEAN, perm : {None, "plan", "bypass"},
   provider : {None, "pinned", "open", "keyless"}]     \* codex_provider

Claude == {"start", "approve", "fork", "side"}
Codex == {"exec", "execResume", "appServer", "codexSide"}

NotGiven ==
  [kind |-> None, place |-> "local", header |-> None, whose |-> None, url |-> None,
   tiers |-> None, model |-> None, sandbox |-> None, flags |-> {}]

TypeOK ==
  /\ settings \in Settings
  /\ shell \in [inherited : Credentials, exported : Credentials, cliKey : BOOLEAN]
  /\ run \in [agent : {None, "claude", "codex"}, platform : Platforms \cup {None},
              host : {None, "name", "forwards", "bare"}, model : BOOLEAN,
              status : {"pending", "running", "failed"}]
  /\ process.kind \in Claude \cup Codex \cup {None}
  /\ process.whose \in {None, "platform", "placeholder", "global", "shell", "provider"}
  /\ process.url \in {None, "platform", "global", "default", "provider"}
  /\ process.model \in {None, "run", "agent", "user", "provider"}
  /\ reachable \in BOOLEAN
  /\ edits \in 0..MaxEdits

(* Settings in which one platform at most has an entry. *)
SomeSettings ==
  {[mode |-> m, global |-> g, url |-> g # None,
    entries |-> [[q \in Platforms |-> Absent] EXCEPT ![p] = e],
    active |-> a, host |-> h, agentModel |-> FALSE, perm |-> None, provider |-> None] :
     m \in {"api", "cli"}, g \in Credentials, p \in Platforms, a \in Platforms \cup {None},
     e \in {x \in Entries : x.hasKey \/ x.header = "key"} \cup {Absent}, h \in {"forwards", "bare"}}

(* The app inherits a token, or in CLI mode anything. *)
Init ==
  /\ settings \in {s \in SomeSettings :
        /\ s.active # None => \A p \in Platforms \ {s.active} : s.entries[p] = Absent
        /\ s.mode = "cli" => /\ s.host = "forwards" /\ s.active = None
                             /\ \A p \in Platforms : s.entries[p] \in {Absent, FullEntry}
        /\ s.global = "token" => \A p \in Platforms : s.entries[p] = Absent}
  /\ shell \in [inherited : Credentials, exported : Credentials, cliKey : BOOLEAN]
  /\ settings.mode = "api" => shell = [inherited |-> "token", exported |-> None, cliKey |-> FALSE]
  /\ run = [agent |-> None, platform |-> None, host |-> None, model |-> FALSE,
            status |-> "pending"]
  /\ process = NotGiven
  /\ reachable = TRUE
  /\ edits = 0

-----------------------------------------------------------------------------
(* What is resolved when a process is started                               *)

(* ResolvedAuth *)
Auth(header, whose, url, models) ==
  [header |-> header, whose |-> whose, url |-> url, models |-> models]
NoAuth == Auth(None, None, None, None)

(* What load makes of an entry (migrate_platform_credentials): the header of a *)
(* known platform is set right, its URL and models are added.               *)
Loaded(p) ==
  LET entry == settings.entries[p]
  IN [there |-> entry # Absent, hasKey |-> entry.hasKey,
      header |-> IF p \in Presets THEN "token" ELSE entry.header,
      url |-> IF entry.url THEN "platform" ELSE IF p \in Known THEN "default" ELSE None,
      models |-> IF entry.models = None /\ p \in DefaultModels THEN "default" ELSE entry.models]

(* resolve_remote_host: the snapshot; runs without one look the name up. *)
HostMissing == run.host = "name" /\ settings.host = "gone"
Host ==
  CASE run.host = None -> "local"
    [] run.host = "name" -> settings.host
    [] OTHER -> run.host

(* resolve_auth_env *)
GlobalAuth ==
  LET url == IF settings.url THEN "global" ELSE None
  IN IF Host = "bare" \/ settings.mode = "cli" THEN NoAuth
     ELSE Auth(settings.global, IF settings.global = None THEN None ELSE "global", url, None)

(* known_provider_defaults of the keyless proxies: all take a bearer token. *)
Default(p) ==
  Auth("token", "placeholder", "default", IF p \in DefaultModels THEN "default" ELSE None)

(* make_placeholder_auth: the header is the default's, whatever the entry     *)
(* says; the entry's URL and models go before.                              *)
Placeholder(p) ==
  IF Loaded(p).there THEN [Default(p) EXCEPT !.url = Loaded(p).url, !.models = Loaded(p).models]
  ELSE Default(p)

(* resolve_auth_env_for_platform *)
PlatformAuth(p) ==
  IF Host = "bare" THEN NoAuth
  ELSE IF p = None THEN GlobalAuth
  ELSE LET entry == Loaded(p)
       IN CASE entry.hasKey -> Auth(entry.header, "platform", entry.url, entry.models)
            [] p \in Keyless /\ ~entry.hasKey -> Placeholder(p)
            [] p \notin Keyless /\ ~entry.hasKey -> GlobalAuth

\* Mutant: the platform that is active now is used.
EffectivePlatformNow == IF settings.mode = "cli" THEN None ELSE settings.active

(* In CLI mode the platform is ignored: the CLI manages its own connection. *)
EffectivePlatform == IF settings.mode = "cli" THEN None ELSE run.platform

(* augment_with_shell_auth: in CLI mode, what the shell files export helps   *)
(* out, unless the process inherits a credential or the CLI has one.        *)
WithShell(auth) ==
  IF /\ settings.mode = "cli" /\ Host = "local" /\ auth.header = None
     /\ ~shell.cliKey /\ shell.inherited = None /\ shell.exported # None
  THEN [auth EXCEPT !.header = shell.exported, !.whose = "shell"]
  ELSE auth

(* build_adapter_settings: the explicit model, the agent's, the user's. *)
SettingsModel(explicit) ==
  IF explicit THEN "run" ELSE IF settings.agentModel THEN "agent" ELSE "user"

(* clear_model_if_provider_overrides *)
ModelArg(explicit, auth) ==
  IF auth.models # None /\ ~explicit /\ ~settings.agentModel THEN None
  ELSE SettingsModel(explicit)

(* resolve_model_tiers gives nothing when the anchor is blank. *)
Tiers(auth) == IF auth.models = "blank" THEN None ELSE auth.models

ClaudeProcess(kind, explicit) ==
  LET auth == PlatformAuth(EffectivePlatform)
      full == WithShell(auth)
  IN [kind |-> kind, place |-> Host, header |-> full.header, whose |-> full.whose,
      url |-> full.url, tiers |-> Tiers(full), model |-> ModelArg(explicit, auth),
      sandbox |-> None, flags |-> {}]

(* The credentials the process sees: the one it is given takes the place of  *)
(* both that it would inherit (env_remove, or an empty variable over SSH).  *)
Seen(given) ==
  IF given.header # None THEN {given.header}
  ELSE IF given.place = "local" THEN {shell.inherited} \ {None} ELSE {}

-----------------------------------------------------------------------------
(* What a Codex process is given                                            *)

Resumes(kind) == kind = "execResume"
ReadOnlyAsked == settings.perm = "plan"

(* --profile, --sandbox and --add-dir are not accepted by exec resume. *)
ExecFlags(kind) ==
  IF Resumes(kind) THEN {}
  ELSE {"profile"} \cup (IF ReadOnlyAsked THEN {"sandbox"} ELSE {"addDir"})

(* codex_sandbox_for *)
SandboxFor ==
  CASE settings.perm = "bypass" -> "full"
    [] ReadOnlyAsked -> "readOnly"
    [] OTHER -> "workspace"

(* A resumed exec keeps the sandbox it had, unless it bypasses all. *)
Sandbox(kind) ==
  CASE kind = "codexSide" -> "readOnly"
    [] Resumes(kind) /\ settings.perm # "bypass" -> "asBefore"
    [] OTHER -> SandboxFor

(* Names of Claude models are dropped, except on the app-server; the model    *)
(* the provider pins wins, except there.  The user's default is Claude's.   *)
CodexModel(kind) ==
  IF kind = "appServer" THEN SettingsModel(run.model)
  ELSE IF settings.provider = "pinned" THEN "provider"
  ELSE IF run.model THEN "run"
  ELSE IF kind # "codexSide" /\ settings.agentModel THEN "agent" ELSE None

CodexProcess(kind) ==
  LET has == settings.provider # None
  IN [kind |-> kind, place |-> "local",
      header |-> IF has /\ settings.provider # "keyless" THEN "envKey" ELSE None,
      whose |-> IF has /\ settings.provider # "keyless" THEN "provider" ELSE None,
      url |-> IF has THEN "provider" ELSE None, tiers |-> None,
      model |-> CodexModel(kind), sandbox |-> Sandbox(kind),
      flags |-> IF kind \in {"exec", "execResume"} THEN ExecFlags(kind) ELSE {}]

-----------------------------------------------------------------------------
(* Actions *)

(* start_run: the platform that is active now is the run's for good, and so   *)
(* is the host as it is now.                                                *)
CreateRun ==
  /\ run.agent = None
  /\ \E agent \in {"claude", "codex"}, p \in Platforms \cup {None},
        h \in {None, "name", "snapshot"}, m \in BOOLEAN :
       /\ agent = "codex" => p = None /\ h = None
       /\ agent = "codex" => settings.global = None /\ settings.mode = "cli"   \* bound
       /\ h # None => ~m                                                      \* bound
       /\ p # None => settings.active = None
       /\ run' = [agent |-> agent,
                  platform |-> IF agent = "claude" /\ p = None THEN settings.active ELSE p,
                  host |-> IF h = "snapshot" THEN settings.host ELSE h,
                  model |-> m, status |-> "pending"]
  /\ UNCHANGED <<settings, shell, process, reachable, edits>>

(* start_session, approve_session_tool, fork_session, side_question: only    *)
(* the first passes the run's own model on.                                 *)
Given(kind) ==
  IF kind \in Claude THEN ClaudeProcess(kind, kind = "start" /\ run.model)
  ELSE CodexProcess(kind)

(* preflight_check_base_url: local runs, and only where a session starts. *)
Checked(kind) == kind \in {"start", "approve"} /\ Host = "local"
Unreachable(kind) == Checked(kind) /\ Given(kind).url # None /\ ~reachable

Kinds == IF run.agent = "claude" THEN Claude ELSE IF run.agent = "codex" THEN Codex ELSE {}

Launch(kind) ==
  /\ kind \in Kinds
  /\ kind # "start" /\ kind \in Claude => run.status = "running"
  /\ ~HostMissing /\ ~Unreachable(kind)
  /\ process' = Given(kind)
  /\ run' = [run EXCEPT !.status = "running"]
  /\ UNCHANGED <<settings, shell, reachable, edits>>

(* A start that fails only marks a run that has never run. *)
FailPreflight(kind) ==
  /\ kind \in Kinds /\ ~HostMissing /\ Unreachable(kind)
  /\ kind = "approve" => run.status = "running"
  /\ run' = [run EXCEPT !.status = IF kind = "start" /\ run.status = "pending"
                                   THEN "failed" ELSE run.status]
  /\ UNCHANGED <<settings, shell, process, reachable, edits>>

(* The user changes one setting, or the provider becomes unreachable. *)
Edit ==
  /\ run.agent # None /\ edits < MaxEdits
  /\ edits' = edits + 1
  /\ \/ /\ run.agent = "claude"
        /\ \/ \E m \in {"api", "cli"} : settings' = [settings EXCEPT !.mode = m]
           \/ \E p \in Platforms \cup {None} : settings' = [settings EXCEPT !.active = p]
           \/ \E p \in Platforms : settings' = [settings EXCEPT !.entries[p] = Absent]
           \/ \E h \in {"gone", "bare"} : settings' = [settings EXCEPT !.host = h]
     \/ /\ run.agent = "codex"
        /\ \/ \E x \in {"plan", "bypass"} : settings' = [settings EXCEPT !.perm = x]
           \/ \E c \in {"pinned", "open", "keyless"} :
                settings' = [settings EXCEPT !.provider = c]
     \/ settings' = [settings EXCEPT !.agentModel = TRUE]
  /\ settings' # settings
  /\ process' = NotGiven
  /\ UNCHANGED <<run, shell, reachable>>

ProviderFails ==
  /\ run.agent = "claude" /\ reachable /\ edits < MaxEdits
  /\ edits' = edits + 1
  /\ reachable' = FALSE
  /\ UNCHANGED <<settings, shell, run, process>>

Next ==
  \/ CreateRun
  \/ \E kind \in Claude \cup Codex : Launch(kind) \/ FailPreflight(kind)
  \/ Edit
  \/ ProviderFails

Spec == Init /\ [][Next]_vars
-----------------------------------------------------------------------------
(* What a process may count on.                                             *)

ClaudeStarted == process.kind \in Claude

(* A process never sees two credentials, whatever it would inherit: the CLI  *)
(* would choose between them.                                               *)
OneCredential == ClaudeStarted => \A x, y \in Seen(process) : x = y

(* A credential and the URL it is sent to are of the same provider, which has  *)
(* a URL unless the app knows nothing of it; in CLI mode, or on a host that *)
(* is not to be given any, neither is set.  The header is the one a known   *)
(* platform takes, whatever its entry says.                                 *)
OwnUrl ==
  ClaudeStarted =>
    /\ process.whose = "platform"
         => process.url \in {"platform", IF run.platform \in Known THEN "default" ELSE None}
    /\ process.whose = "global" => process.url \in {"global", None}
    /\ process.whose = "placeholder" => process.url \in {"platform", "default"}
    /\ process.url \in {"platform", "default"} => process.whose \in {"platform", "placeholder"}
    /\ process.whose \in {"platform", "placeholder"} /\ run.platform \in Presets
         => process.header = "token"
    /\ settings.mode = "cli" => process.url = None
    /\ process.place = "bare" => process.header = None /\ process.url = None

(* A run stays with the platform of its creation, whichever is active now,   *)
(* as long as that can be used at all.                                      *)
OwnPlatform ==
  /\ ClaudeStarted /\ settings.mode = "api" /\ process.place # "bare" /\ run.platform # None
  /\ run.platform \in Keyless \/ settings.entries[run.platform].hasKey
  => process.whose \in {"platform", "placeholder"}

(* A run on a host never starts a process here, even when the host has left  *)
(* the settings since.                                                      *)
StaysRemote ==
  ClaudeStarted => process.place \in (IF run.host = None THEN {"local"} ELSE {"forwards", "bare"})

(* A session is asked for the model its run was created with; without one     *)
(* the user's default never overrides the models of the platform.           *)
OwnModel ==
  /\ process.kind = "start" /\ run.model => process.model = "run"
  /\ ClaudeStarted /\ process.tiers # None => process.model # "user"

(* A Codex process is asked for no model that only Claude has; a resumed one  *)
(* gets no flag it refuses; a side question may only read; and all of them   *)
(* reach the provider that is configured.                                   *)
CodexFits ==
  process.kind \in Codex =>
    /\ process.kind # "appServer" => process.model # "user"
    /\ process.kind = "execResume" => process.flags = {}
    /\ process.kind = "codexSide" => process.sandbox = "readOnly"
    /\ ReadOnlyAsked /\ process.kind # "execResume" => process.sandbox = "readOnly"
    /\ "addDir" \in process.flags => process.sandbox # "readOnly"
    /\ (process.url = "provider") <=> (settings.provider # None)

ProviderEnvTrue ==
  OneCredential /\ OwnUrl /\ OwnPlatform /\ StaysRemote /\ OwnModel /\ CodexFits
=============================================================================
