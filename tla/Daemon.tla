------------------------------- MODULE Daemon -------------------------------
(***************************************************************************)
(* `animus serve` from its start to a focus: main and cmd_serve            *)
(* (src/bin/animus.rs), init_telemetry (src/telemetry/mod.rs),             *)
(* FacultyRegistry::load_from_dir (src/faculty/mod.rs) and the lookup in   *)
(* process_work.  Several daemons load one directory, whose files may be   *)
(* edited meanwhile; the registry is never loaded again.  A focus then     *)
(* runs the hooks of the faculty it was given (Focus).                     *)
(***************************************************************************)
EXTENDS Focus

CONSTANTS
  Daemons,
  Launchers,    \* who starts them: animus (main), or a program that embeds the library
  Files,        \* the entries of the directory
  Definitions,  \* records [name, orient, consolidate]: what a file may define
  MaxEdits      \* bound: edits of the directory

Bad == [name |-> "bad"]       \* a .toml file that cannot be parsed
Other == [name |-> "other"]   \* a file that is not .toml, or none at all
NoDef == [name |-> "none"]
Names == {d.name : d \in Definitions}

ASSUME DaemonAssumption ==
  /\ Launchers \subseteq {"animus", "embedding"} /\ MaxEdits \in Nat
  /\ {Bad, Other, NoDef} \cap Definitions = {} /\ NoDef.name \notin Names
  /\ \A d \in Definitions : d.orient \in BOOLEAN /\ d.consolidate \in BOOLEAN

VARIABLES
  dir,         \* dir[f]: what the file holds
  edits,
  stage,       \* stage[d]: how far the daemon is
  subscriber,  \* subscriber[d]: the process has a global tracing subscriber
  cause,       \* cause[d]: why it exited with an error
  unread,      \* unread[d]: entries read_dir has not yielded yet
  registry,    \* registry[d][n]: the faculty of that name, or NoDef
  stale,       \* history: the directory was edited since the load began
  focused      \* the name whose focus runs, or NoDef's

dirVars == <<dir, edits>>
daemonVars == <<stage, subscriber, cause, unread, registry, stale>>
allVars == <<vars, dirVars, daemonVars, focused>>

Empty == [n \in Names |-> NoDef]

DaemonTypeOK ==
  /\ FocusTypeOK
  /\ dir \in [Files -> Definitions \cup {Bad, Other}] /\ edits \in 0..MaxEdits
  /\ stage \in [Daemons -> {"down", "starting", "connecting", "loading", "ready"}]
  /\ subscriber \in [Daemons -> BOOLEAN] /\ stale \in [Daemons -> BOOLEAN]
  /\ cause \in [Daemons -> {"none", "logger", "environment", "directory"}]
  /\ unread \in [Daemons -> SUBSET Files]
  /\ registry \in [Daemons -> [Names -> Definitions \cup {NoDef}]]
  /\ focused \in Names \cup {NoDef.name}
  /\ \A d \in Daemons, n \in Names : registry[d][n] # NoDef => registry[d][n].name = n

DaemonInit ==
  /\ Init /\ ~orient /\ ~consolidate
  /\ dir \in [Files -> Definitions \cup {Bad, Other}] /\ edits = 0
  /\ stage = [d \in Daemons |-> "down"]
  /\ subscriber = [d \in Daemons |-> FALSE]
  /\ cause = [d \in Daemons |-> "none"]
  /\ unread = [d \in Daemons |-> {}]
  /\ registry = [d \in Daemons |-> Empty]
  /\ stale = [d \in Daemons |-> FALSE]
  /\ focused = NoDef.name

-----------------------------------------------------------------------------
(* Start                                                                   *)

Exit(d, why) ==
  /\ stage' = [stage EXCEPT ![d] = "down"]
  /\ cause' = [cause EXCEPT ![d] = why]
  /\ subscriber' = [subscriber EXCEPT ![d] = FALSE]
  /\ unread' = [unread EXCEPT ![d] = {}]
  /\ registry' = [registry EXCEPT ![d] = Empty]
  /\ stale' = [stale EXCEPT ![d] = FALSE]

(* main installs a subscriber that logs to stderr before it looks at the   *)
(* command.  An embedding program does not.                                *)
Launch(d) ==
  /\ stage[d] = "down"
  /\ stage' = [stage EXCEPT ![d] = "starting"]
  /\ \E by \in Launchers : subscriber' = [subscriber EXCEPT ![d] = (by = "animus")]
  /\ cause' = [cause EXCEPT ![d] = "none"]
  /\ UNCHANGED <<unread, registry, stale>>

(* try_init, with or without exporters, refuses to replace a subscriber.   *)
InitTelemetry(d) ==
  /\ stage[d] = "starting"
  /\ IF subscriber[d] THEN Exit(d, "logger")
     ELSE /\ stage' = [stage EXCEPT ![d] = "connecting"]
          /\ subscriber' = [subscriber EXCEPT ![d] = TRUE]
          /\ UNCHANGED <<cause, unread, registry, stale>>

(* The database is connected and migrated, the queue created, and          *)
(* load_from_dir opens the directory.                                      *)
Connect(d) ==
  /\ stage[d] = "connecting"
  /\ stage' = [stage EXCEPT ![d] = "loading"]
  /\ unread' = [unread EXCEPT ![d] = Files]
  /\ UNCHANGED <<subscriber, cause, registry, stale>>

(* A variable that is not set, an exporter that cannot be built, or an     *)
(* error of the database, the queue or the listener.                       *)
StartFails(d) ==
  /\ stage[d] \in {"starting", "connecting"} \/ (stage[d] = "loading" /\ unread[d] = {})
  /\ Exit(d, "environment")

-----------------------------------------------------------------------------
(* load_from_dir                                                           *)

(* Mutant: a bad file ends the loop, and what was loaded is kept.          *)
MutLoadEntry(d, f) ==
  /\ stage[d] = "loading" /\ f \in unread[d]
  /\ unread' = [unread EXCEPT ![d] = IF dir[f] = Bad THEN {} ELSE @ \ {f}]
  /\ registry' = IF dir[f] \in Definitions
                 THEN [registry EXCEPT ![d][dir[f].name] = dir[f]] ELSE registry
  /\ UNCHANGED <<stage, subscriber, cause, stale>>

(* Entries come in any order; of two with one name the later one stays.    *)
LoadEntry(d, f) ==
  /\ stage[d] = "loading" /\ f \in unread[d] /\ dir[f] # Bad
  /\ unread' = [unread EXCEPT ![d] = @ \ {f}]
  /\ registry' = IF dir[f] = Other THEN registry
                 ELSE [registry EXCEPT ![d][dir[f].name] = dir[f]]
  /\ UNCHANGED <<stage, subscriber, cause, stale>>

(* A file that cannot be read, or read but not parsed, ends the daemon.    *)
LoadFails(d) ==
  /\ stage[d] = "loading" /\ \E f \in unread[d] : dir[f] # Other
  /\ Exit(d, "directory")

Ready(d) ==
  /\ stage[d] = "loading" /\ unread[d] = {}
  /\ stage' = [stage EXCEPT ![d] = "ready"]
  /\ UNCHANGED <<subscriber, cause, unread, registry, stale>>

(* Ctrl-C, or the end of the process for another reason.                   *)
Quit(d) == stage[d] = "ready" /\ Exit(d, "none")

Start(d) ==
  \/ Launch(d) \/ InitTelemetry(d) \/ Connect(d) \/ StartFails(d)
  \/ (\E f \in Files : LoadEntry(d, f)) \/ LoadFails(d) \/ Ready(d) \/ Quit(d)

(* Somebody rewrites, adds or removes a definition.                        *)
Edit(f) ==
  /\ edits < MaxEdits
  /\ \E c \in Definitions \cup {Bad, Other} : c # dir[f] /\ dir' = [dir EXCEPT ![f] = c]
  /\ edits' = edits + 1
  /\ stale' = [d \in Daemons |-> stage[d] \in {"loading", "ready"}]
  /\ UNCHANGED <<vars, stage, subscriber, cause, unread, registry, focused>>

-----------------------------------------------------------------------------
(* A focus                                                                 *)

(* process_work clones the faculty's definition; Focus::create makes an    *)
(* empty directory and the hooks run.  From here on the model follows the  *)
(* focus: daemons and directory, which it does not look at again, are      *)
(* forgotten.                                                              *)
Dispatch(d, n) ==
  /\ focused = NoDef.name /\ stage[d] = "ready" /\ registry[d][n] # NoDef
  /\ focused' = n
  /\ orient' = registry[d][n].orient /\ consolidate' = registry[d][n].consolidate
  /\ todo' = PhaseList(orient', consolidate')
  /\ UNCHANGED <<running, children, exits, files, path, result>>
  /\ dir' = [f \in Files |-> Other] /\ edits' = MaxEdits
  /\ stage' = [c \in Daemons |-> "down"] /\ cause' = [c \in Daemons |-> "none"]
  /\ subscriber' = [c \in Daemons |-> FALSE] /\ stale' = [c \in Daemons |-> FALSE]
  /\ unread' = [c \in Daemons |-> {}] /\ registry' = [c \in Daemons |-> Empty]

FocusStep(step) ==
  focused # NoDef.name /\ step /\ UNCHANGED <<dirVars, daemonVars, focused>>

DaemonNext ==
  \/ /\ focused = NoDef.name
     /\ \/ \E d \in Daemons : Start(d) /\ UNCHANGED <<vars, dirVars, focused>>
        \/ \E f \in Files : Edit(f)
        \/ \E d \in Daemons, n \in Names : Dispatch(d, n)
  \/ FocusStep(Next)

DaemonSpec == DaemonInit /\ [][DaemonNext]_allVars

-----------------------------------------------------------------------------
(* Properties                                                              *)

Defines(f, n) == dir[f] \in Definitions /\ dir[f].name = n
NamesUnique == \A f, g \in Files, n \in Names : Defines(f, n) /\ Defines(g, n) => f = g

(* Daemons that loaded the directory as it is have the same registry, the  *)
(* one it defines, whatever order its entries came in, if no name is       *)
(* defined twice: a bad file stops a daemon, it never leaves it with some  *)
(* of the faculties.                                                       *)
PlanesAgree ==
  NamesUnique =>
    \A d \in Daemons : stage[d] = "ready" /\ ~stale[d] =>
      \A n \in Names :
        /\ \A f \in Files : Defines(f, n) => registry[d][n] = dir[f]
        /\ registry[d][n] # NoDef => \E f \in Files : Defines(f, n)

(* Every focus ends with one result, which stays.                          *)
FocusEnds == focused # NoDef.name ~> [](result # Pending)

(* main: "`serve` overrides this with OTel": the logger that main has      *)
(* installed does not keep the daemon from starting.                       *)
ServeOverridesLogger == \A d \in Daemons : cause[d] # "logger"
=============================================================================
