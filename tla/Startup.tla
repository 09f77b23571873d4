-------------------------------- MODULE Startup --------------------------------
(***************************************************************************)
(* The start of the backend (backend/src/main.rs, run): arguments, the     *)
(* configuration file and its validation (lib.rs, load_app_config;         *)
(* access.rs, validate_access_config), the authentication and access       *)
(* initializers, and then either the access check of CheckWalk or the      *)
(* server behind the gate of AuthGate. One step per call of run.           *)
(*                                                                         *)
(* Texts are abstract. A path or a pattern of the access block is what it  *)
(* is between its slashes: [forbidden, segments], where forbidden says     *)
(* that it has a backslash or a NUL in it and segments may be Empty, Dot   *)
(* or DotDot: "/a" is <<Empty, "a">>, "./a" is <<Dot, "a">>.               *)
(***************************************************************************)
EXTENDS CheckWalk, AuthGate

CONSTANTS
  Startups,     \* [args, files, debug, disableAuth, bindable] to start with
  GroupsOf,     \* the group names in a --groups argument, blank ones dropped
  FileNames,    \* arguments that name a file, among them DefaultFiles
  DefaultFiles, \* <<config.yaml, config.json>> of the working directory
  IsJson,       \* the file names that end in .json
  IsYaml,       \* the file names that end in .yaml or .yml
  Empty,        \* a segment without text
  Absent        \* an option, a block or a file that is not there

\* What the lists of an access block can hold as text.
RawPath == [forbidden : BOOLEAN, segments : Seq(Names \cup {Empty, DotDot}) \ {<<>>}]
RawPattern == [forbidden : BOOLEAN, segments : Seq(Globs \cup {Empty, DotDot}) \ {<<>>}]
RawEntry == [path : RawPath, deny : Seq(RawPattern)]
RawGrant == [group : Groups \cup {Empty}, delete : BOOLEAN, allow : Seq(RawEntry)]
AccessBlock == [allow : Seq(RawPath), deny : Seq(RawPattern), grants : Seq(RawGrant)]

ASSUME StartupsAssumption ==
  \A s \in Startups : \A f \in FileNames :
    s.files[f] # Absent => s.files[f].access \in AccessBlock \cup {Absent}

VARIABLES
  startup,   \* what the process was started with, never changed
  phase,     \* how far run has come
  options,   \* the result of resolve_startup_options
  config,    \* CONFIG, Absent until initialized
  auth,      \* AUTH, "None" until initialized
  status,    \* the exit status
  printed    \* the report was printed

startVars == <<startup, phase, options, config, auth, status, printed>>
vars == <<walkVars, startVars>>

Init ==
  /\ InitWalk
  /\ startup \in Startups
  /\ phase = "arguments"
  /\ options = Absent /\ config = Absent /\ auth = "None"
  /\ status = Absent /\ printed = FALSE

\* An error ends the process before anything is served.
Fail ==
  /\ phase' = "exited" /\ status' = 1
  /\ UNCHANGED <<startup, options, config, auth, printed>>

--------------------------------------------------------------------------------
(* Arguments. *)

\* --groups takes the next argument, whatever it is; a later one wins.
TakeArgument(parsed, arg) ==
  CASE parsed.expecting -> [parsed EXCEPT !.expecting = FALSE, !.groups = arg]
    [] ~parsed.expecting /\ arg = "--check-access" -> [parsed EXCEPT !.check = TRUE]
    [] ~parsed.expecting /\ arg = "--groups"       -> [parsed EXCEPT !.expecting = TRUE]
    [] OTHER -> [parsed EXCEPT !.positional = Append(@, arg)]

Arguments(args) ==
  FoldLeft(TakeArgument,
           [check |-> FALSE, groups |-> Absent, positional |-> <<>>, expecting |-> FALSE],
           args)

\* resolve_config_path: the argument, or the first default file there is.
ConfigPaths(positional) ==
  CASE Len(positional) > 1 -> <<>>
    [] Len(positional) = 1 -> positional
    [] OTHER -> SelectSeq(DefaultFiles, LAMBDA f : startup.files[f] # Absent)

Usage(parsed) ==
  /\ ~parsed.expecting
  /\ parsed.check <=> parsed.groups # Absent
  /\ parsed.groups # Absent => GroupsOf[parsed.groups] # {}
  /\ ConfigPaths(parsed.positional) # <<>>

ResolveOptions ==
  /\ phase = "arguments"
  /\ LET parsed == Arguments(startup.args)
     IN IF Usage(parsed)
          THEN /\ options' = [check  |-> parsed.check,
                              groups |-> IF parsed.check THEN GroupsOf[parsed.groups] ELSE {},
                              path   |-> Head(ConfigPaths(parsed.positional))]
               /\ phase' = "config"
               /\ UNCHANGED <<startup, config, auth, status, printed>>
          ELSE Fail
  /\ UNCHANGED walkVars

--------------------------------------------------------------------------------
(* The access block. *)

\* normalize_relative_path: one leading slash, then one leading `./`.
WithoutSlash(s) == IF Len(s) > 1 /\ Head(s) = Empty THEN Tail(s) ELSE s
WithoutDotSlash(s) == IF Len(s) > 1 /\ Head(s) = Dot THEN Tail(s) ELSE s
Normalized(raw) == WithoutDotSlash(WithoutSlash(raw.segments))

HasBadSegment(s) == \E i \in 1..Len(s) : s[i] \in {Empty, DotDot}

\* Nothing is left of the path of the root. A `.` on its own is not stripped
\* and stays a name.
ValidAllow(raw) ==
  /\ ~raw.forbidden
  /\ Normalized(raw) = <<Empty>> \/ ~HasBadSegment(Normalized(raw))
AllowPath(raw) == IF Normalized(raw) = <<Empty>> THEN <<>> ELSE Normalized(raw)

ValidDeny(raw) == ~raw.forbidden /\ ~HasBadSegment(Normalized(raw))

\* Faulty variant (TypeOK): a grant needs no allow entry.
ValidAccessWithoutEntries(block) ==
  /\ \A r \in Range(block.allow) : ValidAllow(r)
  /\ \A r \in Range(block.deny) : ValidDeny(r)
  /\ IsInjective(block.allow) /\ IsInjective(block.deny)
  /\ \A g \in Range(block.grants) :
       /\ g.group # Empty
       /\ \A e \in Range(g.allow) :
            ValidAllow(e.path) /\ \A r \in Range(e.deny) : ValidDeny(r)

\* validate_access_config: duplicates are looked for in the global lists, as
\* they are written.
ValidAccess(block) ==
  /\ \A r \in Range(block.allow) : ValidAllow(r)
  /\ \A r \in Range(block.deny) : ValidDeny(r)
  /\ IsInjective(block.allow) /\ IsInjective(block.deny)
  /\ \A g \in Range(block.grants) :
       /\ g.group # Empty
       /\ g.allow # <<>>
       /\ \A e \in Range(g.allow) :
            ValidAllow(e.path) /\ \A r \in Range(e.deny) : ValidDeny(r)

ValidatedGrant(g) ==
  [delete |-> g.delete,
   allow  |-> {[path |-> AllowPath(e.path), deny |-> {Normalized(r) : r \in Range(e.deny)}]
                 : e \in Range(g.allow)}]

\* block.grants are the grants in the order of their keys, their group names
\* trimmed: of two keys that differ in blanks the later one stays.
LastOf(grants, group) == grants[Max({i \in DOMAIN grants : grants[i].group = group})]

Validated(block) ==
  [globalAllow |-> {AllowPath(r) : r \in Range(block.allow)},
   globalDeny  |-> {Normalized(r) : r \in Range(block.deny)},
   grants      |-> [group \in {g.group : g \in Range(block.grants)}
                      |-> ValidatedGrant(LastOf(block.grants, group))]]

--------------------------------------------------------------------------------
(* The rest of the configuration. *)

\* validate_https_url: https, or http to a loopback host.
ValidUrl(url) == url.scheme = "https" \/ (url.scheme = "http" /\ url.loopback)

ValidOidc(block) ==
  /\ ValidUrl(block.issuer)
  /\ ~block.clientBlank
  /\ ValidUrl(block.redirectUri)
  /\ block.redirectUri.callback
  /\ block.redirectUri.scheme = "https" => block.cookieSecure = TRUE
  /\ block.key # "short"

\* A blank key is an absent one, an absent cookieSecure is FALSE.
ValidatedOidc(block) ==
  [ownKey       |-> block.key = "long",
   cookieSecure |-> block.cookieSecure = TRUE,
   redirectUri  |-> block.redirectUri]

\* parse_config_file by the extension; a JSON text is YAML too.
Parses(name, file) ==
  CASE name \in IsJson -> file.format = "json"
    [] name \in IsYaml -> file.format \in {"yaml", "json"}
    [] OTHER -> file.format \in {"yaml", "json"}

Loads(name, file) ==
  /\ file # Absent
  /\ Parses(name, file)
  /\ file.sharedRoot = "directory"
  /\ file.listenAddress # "blank"
  /\ file.oidc # Absent => ValidOidc(file.oidc)
  /\ file.access # Absent => ValidAccess(file.access)

\* The text of the configuration file. An argument need not name one.
ConfigFile ==
  IF options.path \in FileNames THEN startup.files[options.path] ELSE Absent

\* initialize_app_config
LoadConfig ==
  /\ phase = "config"
  /\ LET file == ConfigFile
     IN IF Loads(options.path, file)
          THEN /\ config' =
                    [oidc   |-> IF file.oidc = Absent THEN Absent
                                ELSE ValidatedOidc(file.oidc),
                     access |-> IF file.access = Absent THEN Absent
                                ELSE Validated(file.access)]
               /\ phase' = "auth"
               /\ UNCHANGED <<startup, options, auth, status, printed>>
          ELSE Fail
  /\ UNCHANGED walkVars

--------------------------------------------------------------------------------
(* Authentication, access, and what the process then is for. *)

\* Faulty variant (ServedWithoutSession): any build honors the variable.
BackdoorInAnyBuild == startup.disableAuth

\* YAFM_DISABLE_AUTH=1, honored by debug builds only.
Backdoor == startup.debug /\ startup.disableAuth

\* initialize_auth_disabled_for_tests, or initialize_auth and
\* initialize_access, which need their blocks.
InitializeAuth ==
  /\ phase = "auth"
  /\ CASE Backdoor ->
            /\ auth' = "Disabled" /\ phase' = "mode"
            /\ UNCHANGED <<startup, options, config, status, printed>>
       [] ~Backdoor /\ (config.oidc = Absent \/ config.access = Absent) -> Fail
       [] OTHER ->
            /\ auth' = "Oidc" /\ phase' = "mode"
            /\ UNCHANGED <<startup, options, config, status, printed>>
  /\ UNCHANGED walkVars

BeginCheck ==
  /\ phase = "mode" /\ options.check
  /\ IF config.access = Absent
       THEN Fail /\ UNCHANGED walkVars
       ELSE /\ StartCheck(config.access, options.groups)
            /\ phase' = "check"
            /\ UNCHANGED <<startup, options, config, auth, status, printed>>

Check == phase = "check" /\ StepCheck /\ UNCHANGED startVars

Meanwhile == phase = "check" /\ Unlink /\ UNCHANGED startVars

CheckFailed == phase = "check" /\ walk = "failed" /\ Fail /\ UNCHANGED walkVars

\* Faulty variant (StartupEnds): after the report the server starts.
PrintReportAndServe ==
  /\ phase = "check" /\ walk = "done"
  /\ printed' = TRUE /\ phase' = "serving"
  /\ UNCHANGED <<startup, options, config, auth, status, walkVars>>

PrintReport ==
  /\ phase = "check" /\ walk = "done"
  /\ printed' = TRUE
  /\ phase' = "exited" /\ status' = 0
  /\ UNCHANGED <<startup, options, config, auth, walkVars>>

\* TcpListener::bind and axum::serve.
Serve ==
  /\ phase = "mode" /\ ~options.check
  /\ IF startup.bindable
       THEN phase' = "serving" /\ UNCHANGED <<startup, options, config, auth, status, printed>>
       ELSE Fail
  /\ UNCHANGED walkVars

Run ==
  \/ ResolveOptions \/ LoadConfig \/ InitializeAuth \/ BeginCheck
  \/ Check \/ CheckFailed \/ PrintReport \/ Serve

Next == Run \/ Meanwhile

\* The process goes on with its own startup.
Spec == Init /\ [][Next]_vars /\ WF_vars(Run)

--------------------------------------------------------------------------------
(* The startup's own state; a configuration that validate_access_config      *)
(* accepted is one the other modules assume (IsAccessConfig).                *)
TypeOK ==
  /\ WalkTypeOK
  /\ phase \in {"arguments", "config", "auth", "mode", "check", "serving", "exited"}
  /\ auth \in AuthStates
  /\ config # Absent /\ config.access # Absent => IsAccessConfig(config.access)
  /\ status \in {Absent, 0, 1}
  /\ printed \in BOOLEAN

(* Authentication is mandatory (auth.rs, AuthState): a process that serves   *)
(* answers a request without a session from the share only when it is a      *)
(* debug build started with YAFM_DISABLE_AUTH=1; every other one has both    *)
(* an oidc and an access block, and the cookie it sets never travels in      *)
(* clear text except to the host itself.                                     *)
ServedWithoutSession ==
  phase = "serving" /\ ~(startup.debug /\ startup.disableAuth) =>
    /\ \A kind \in PathKinds \ {"auth"} : ~Served(GateDecision(auth, kind, FALSE))
    /\ config.access # Absent
    /\ config.oidc.cookieSecure \/ config.oidc.redirectUri.loopback

(* Every start ends one of three ways: serving, as it was asked to; an exit  *)
(* with status 0 and the report printed, when --check-access asked for it;   *)
(* or an exit with status 1 and nothing printed (main.rs, run).              *)
StartupEnds ==
  <>[](\/ phase = "serving" /\ ~options.check /\ ~printed
       \/ phase = "exited" /\ status = 0 /\ options.check /\ printed
       \/ phase = "exited" /\ status = 1 /\ ~printed)
================================================================================
