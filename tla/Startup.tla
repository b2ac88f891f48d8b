------------------------------ MODULE Startup ------------------------------
(***************************************************************************)
(* How a server process comes up (config.py, startup.py, api.py,           *)
(* RIFRuntime.__init__): settings are merged from rif.toml and the RIF_*   *)
(* variables and memoised, the environments file is read from the          *)
(* directory they name, an environment is chosen, and the lifespan handler *)
(* publishes the settings.  Both files may be edited between any two of    *)
(* those steps; the variables of a process are fixed when it starts.       *)
(*                                                                         *)
(* Three settings stand for the eleven: posture (a blank value fails       *)
(* validation, like port and mode), environment (a blank one is None) and  *)
(* config_dir (a blank one is the default, like host and data_dir).        *)
(***************************************************************************)
EXTENDS Posture

CONSTANTS Names,      \* environment names
          Dirs,       \* directories that config_dir may name
          MaxEdits,   \* bound: edits of the two files
          NoFile,     \* a file that is not there
          Malformed,  \* text that tomllib, or yaml, cannot parse
          Misshapen,  \* YAML that RuntimeConfig does not accept, TOML with an unknown key
          Unbuilt,    \* what is not built yet
          ConfigError, TOMLDecodeError, YAMLError, ValueError

Unset     == "unset"
Blank     == "blank"        \* a value of no characters
Invalid   == "typo"         \* a value that pydantic rejects
Errors    == {ConfigError, TOMLDecodeError, YAMLError, ValueError}

(* What a source (the file, or the variables) says of each setting. *)
Sources == [posture     : {"normal", "locked", Unset, Blank, Invalid},
            environment : Names \cup {Unset, Blank},
            config_dir  : Dirs \cup {Unset, Blank}]
Texts     == Sources \cup {NoFile, Malformed, Misshapen}   \* of rif.toml
Silent    == [k \in {"posture", "environment", "config_dir"} |-> Unset]
Settings  == [posture     : Postures,
              environment : Names \cup {Unset},
              config_dir  : Dirs]
Configs   == [default_environment : Names, environments : SUBSET Names]

(* The names and the directories are real values, and what stands for a file *)
(* or an error that is not one of them is told apart from all of those.      *)
ASSUME StartupAssumption ==
    /\ "production" \in Names
    /\ "config" \in Dirs
    /\ MaxEdits \in Nat
    /\ Names \cap {Unset, Blank} = {}
    /\ Dirs \cap {Unset, Blank} = {}
    /\ {NoFile, Malformed, Misshapen} \cap Sources = {}
    /\ {NoFile, Malformed, Misshapen} \cap Configs = {}
    /\ NoFile # Malformed /\ NoFile # Misshapen /\ Malformed # Misshapen
    /\ Unbuilt \notin Settings
    /\ Errors \cap (Names \cup Settings \cup Configs) = {}

VARIABLES toml,      \* rif.toml
          yaml,      \* each directory's environments.yaml
          edits,     \* how many edits were made
          pc,        \* where the process is
          environ,   \* its RIF_* variables
          settings,  \* config._settings, the memo
          runtime,   \* the RIFRuntime it built
          app,       \* app.state.settings
          read,      \* history: rif.toml as load_settings read it
          found,     \* history: environments.yaml as load_config read it
          labelled   \* history: the refusal named the configuration

boot_vars == <<toml, yaml, edits, pc, environ, settings, runtime, app, read, found, labelled>>

(* _apply_env_overrides: a variable that is set, blank or not, replaces the key. *)
overlay(file, e) == [k \in DOMAIN file |-> IF e[k] = Unset THEN file[k] ELSE e[k]]

(* The validators of the sections, on values validation accepts. *)
validated(d) ==
    [posture     |-> IF d.posture = Unset THEN "normal" ELSE d.posture,
     environment |-> IF d.environment = Blank THEN Unset ELSE d.environment,
     config_dir  |-> IF d.config_dir \in {Unset, Blank} THEN "config" ELSE d.config_dir]

(* A variable replaces a value that is wrong, but never an unknown key.      *)
load_settings(file, e) ==
    LET d == overlay(IF file = NoFile THEN Silent ELSE file, e)
    IN  CASE file = Malformed -> TOMLDecodeError
          [] file = Misshapen -> ConfigError
          [] OTHER -> IF d.posture \in {Blank, Invalid} THEN ConfigError ELSE validated(d)

(* Mutant: the settings are loaded anew at every use, if the file still loads. *)
get_settings_reload(memo, file, e) ==
    LET s == load_settings(file, e)
    IN  IF memo # Unbuilt /\ s \in Errors THEN memo ELSE s

(* get_settings: loaded on first access, then the memo. *)
get_settings(memo, file, e) == IF memo = Unbuilt THEN load_settings(file, e) ELSE memo

(* With no environments file the one profile takes the configured name. *)
load_config(file, s) ==
    CASE file = NoFile ->
             LET name == IF s.environment = Unset THEN "production" ELSE s.environment
             IN  [default_environment |-> name, environments |-> {name}]
      [] file = Malformed -> YAMLError
      [] file = Misshapen -> ValueError
      [] OTHER            -> file

(* Mutants: a name without a profile falls back to the default, or is taken. *)
configured_environment_default(s, config) ==
    IF s.environment \in config.environments THEN s.environment
    ELSE config.default_environment

configured_environment_taken(s, config) ==
    IF s.environment = Unset THEN config.default_environment ELSE s.environment

(* _configured_environment: only an unset name falls back to the default. *)
configured_environment(s, config) ==
    CASE s.environment = Unset                -> config.default_environment
      [] s.environment \in config.environments -> s.environment
      [] OTHER                                -> ValueError
-----------------------------------------------------------------------------
EditToml == /\ edits < MaxEdits
            /\ edits' = edits + 1
            /\ \E t \in Texts : toml' = t
            /\ UNCHANGED <<yaml, pc, environ, settings, runtime, app, read, found, labelled>>

EditYaml == /\ edits < MaxEdits
            /\ edits' = edits + 1
            /\ \E d \in Dirs, y \in Configs \cup {NoFile, Malformed, Misshapen} :
                   yaml' = [yaml EXCEPT ![d] = y]
            /\ UNCHANGED <<toml, pc, environ, settings, runtime, app, read, found, labelled>>

Launch == /\ pc = "down"
          /\ pc' = "importing"
          /\ environ' \in Sources
          /\ UNCHANGED <<toml, yaml, edits, settings, runtime, app, read, found, labelled>>

Refuse(named) == /\ pc' = "refused"
                 /\ labelled' = named

(* api.py calls validate_config() at import: only a ConfigError is labelled. *)
ValidateConfig ==
    /\ pc = "importing"
    /\ read' = toml
    /\ LET s == get_settings(settings, toml, environ)
       IN  IF s \in Errors
           THEN Refuse(s = ConfigError) /\ UNCHANGED settings
           ELSE pc' = "validated" /\ settings' = s /\ UNCHANGED labelled
    /\ UNCHANGED <<toml, yaml, edits, environ, runtime, app, found>>

(* RIFRuntime() under configuration_diagnostics: only a ValueError is labelled. *)
BuildRuntime ==
    /\ pc = "validated"
    /\ LET s    == get_settings(settings, toml, environ)
           file == yaml[s.config_dir]
           c    == load_config(file, s)
           name == IF c \in Errors THEN c ELSE configured_environment(s, c)
       IN  /\ found' = file
           /\ IF name \in Errors
              THEN Refuse(name = ValueError) /\ UNCHANGED runtime
              ELSE /\ pc' = "built"
                   /\ runtime' = [environment  |-> name,
                                  environments |-> c.environments,
                                  floor        |-> s.posture]
                   /\ UNCHANGED labelled
    /\ UNCHANGED <<toml, yaml, edits, environ, settings, app, read>>

(* config_lifespan validates again, which the memo makes free, and serves. *)
Serve ==
    /\ pc = "built"
    /\ LET s == get_settings(settings, toml, environ)
       IN  IF s \in Errors
           THEN Refuse(s = ConfigError) /\ UNCHANGED app
           ELSE pc' = "serving" /\ app' = s /\ UNCHANGED labelled
    /\ UNCHANGED <<toml, yaml, edits, environ, settings, runtime, read, found>>

Exit == /\ pc \in {"serving", "refused"}
        /\ pc' = "down"
        /\ environ' = Silent /\ labelled' = TRUE
        /\ settings' = Unbuilt /\ runtime' = Unbuilt /\ app' = Unbuilt
        /\ read' = NoFile /\ found' = NoFile
        /\ UNCHANGED <<toml, yaml, edits>>

BootInit == /\ toml \in Texts
            /\ yaml = [d \in Dirs |-> NoFile]
            /\ edits = 0
            /\ pc = "down" /\ environ = Silent /\ labelled = TRUE
            /\ settings = Unbuilt /\ runtime = Unbuilt /\ app = Unbuilt
            /\ read = NoFile /\ found = NoFile

BootNext == EditToml \/ EditYaml \/ Launch \/ ValidateConfig \/ BuildRuntime \/ Serve \/ Exit

BootSpec == BootInit /\ [][BootNext]_boot_vars
-----------------------------------------------------------------------------
(* The values each variable takes; the memo only ever holds validated settings. *)
BootTyped ==
    /\ toml \in Texts
    /\ yaml \in [Dirs -> Configs \cup {NoFile, Malformed, Misshapen}]
    /\ edits \in 0..MaxEdits
    /\ pc \in {"down", "importing", "validated", "built", "serving", "refused"}
    /\ environ \in Sources
    /\ settings \in Settings \cup {Unbuilt}
    /\ app \in Settings \cup {Unbuilt}
    /\ runtime \in [environment : Names, environments : SUBSET Names, floor : Postures]
                       \cup {Unbuilt}
    /\ read \in Texts
    /\ found \in Configs \cup {NoFile, Malformed, Misshapen}
    /\ labelled \in BOOLEAN

(* What the process was told of setting k: its variable, else the file as read. *)
asked(k) == IF environ[k] # Unset THEN environ[k]
            ELSE IF read \in Sources THEN read[k] ELSE Unset

(* A process that serves, serves the environment and the posture floor it was *)
(* asked for: an unknown name refuses to start, it never swaps the profile    *)
(* (RIFRuntime._configured_environment, the precedence of RIF_* variables).   *)
AskedIsServed ==
    pc = "serving" =>
        /\ asked("environment") \in Names => runtime.environment = asked("environment")
        /\ asked("posture") \in Postures => runtime.floor = asked("posture")

(* The settings the lifespan handler publishes are the ones the runtime was *)
(* built from, however rif.toml was edited in between (get_settings).       *)
OneConfiguration ==
    pc = "serving" =>
        /\ runtime.floor = app.posture
        /\ app.environment # Unset => runtime.environment = app.environment

(* A process that serves without a profile to decide by, so that every call  *)
(* of it fails, has one cause: nothing was asked for and the environments    *)
(* file it found names a default it does not define                          *)
(* (RIFRuntime._configured_environment, runtime.py:117).                     *)
MissingProfileIsTheDefault ==
    (pc = "serving" /\ runtime.environment \notin runtime.environments) =>
        /\ asked("environment") \in {Unset, Blank}
        /\ found \in Configs /\ runtime.environment = found.default_environment

(* config.py:64 and :140 say a blank variable is treated "as absent", "as *)
(* unset": the environment rif.toml names would then still be served.     *)
(* Not kept by the code: see Departures in README.md.                     *)
BlankIsUnset ==
    pc = "serving" /\ environ.environment = Blank /\ read \in Sources =>
        (read.environment \in Names => runtime.environment = read.environment)

(* startup.py:42 says invalid configuration must stop the process "rather than  *)
(* boot a half-configured runtime": one that serves has a profile to decide by. *)
(* Not kept by the code: see Departures in README.md.                           *)
ServesDefinedProfile == pc = "serving" => runtime.environment \in runtime.environments

(* startup.py:20 says the diagnostic "is identical wherever the failure *)
(* surfaces": every refusal names the configuration as its cause.       *)
(* Not kept by the code: see Departures in README.md.                   *)
RefusalsAreLabelled == pc = "refused" => labelled
=============================================================================
