-------------------------------- MODULE Focus --------------------------------
(***************************************************************************)
(* Focus::run (src/engine/focus.rs): the hooks of a faculty in order, one  *)
(* process each, in a directory of the focus's own, and the outcome read   *)
(* from what they leave there.  The hooks are external: between spawn and  *)
(* exit a hook writes its own output file in any number of steps, and what *)
(* it leaves may be incomplete.  A hook may leave a child running that     *)
(* goes on writing after the hook has exited; Focus::run does not wait for *)
(* it.                                                                     *)
(***************************************************************************)
EXTENDS Naturals, Sequences

CONSTANTS
  Children   \* phases whose hooks may leave a child running

ASSUME ChildrenAssumption == Children \subseteq {"orient", "engage", "consolidate"}

VARIABLES
  orient, consolidate,  \* the faculty has these optional hooks
  todo,      \* the phases still to come
  running,   \* the phase whose hook runs, or NoPhase
  children,  \* phases whose hook left a child running
  exits,     \* exits[p]: how the hook of p ended
  files,     \* files[p]: what p-out.json holds
  path,      \* the phase whose output file is chosen, or NoPhase
  result     \* the FocusResult

vars == <<orient, consolidate, todo, running, children, exits, files, path, result>>

NoPhase == "none"
Phases == {"orient", "engage", "consolidate"}

\* A file is absent, holds part of a JSON document, or a whole one.
Contents == {"absent", "part", "whole"}

Pending == [kind |-> "pending"]
Failed(phase) == [kind |-> "failed", phase |-> phase]
Completed(phase) == [kind |-> "completed", data |-> phase]

FocusTypeOK ==
  /\ orient \in BOOLEAN /\ consolidate \in BOOLEAN
  /\ \A k \in DOMAIN todo : todo[k] \in Phases
  /\ running \in Phases \cup {NoPhase}
  /\ children \subseteq Phases
  /\ exits \in [Phases -> {"none", "success", "failure", "not_spawned"}]
  /\ files \in [Phases -> Contents]
  /\ path \in {NoPhase, "engage", "consolidate"}
  /\ \A k \in DOMAIN todo : exits[todo[k]] = "none"
  /\ result \in {Pending} \cup {Failed(p) : p \in Phases} \cup {Completed(p) : p \in Phases}

(* The hooks of a faculty in the order of their phases.                    *)
PhaseList(hasOrient, hasConsolidate) ==
  (IF hasOrient THEN <<"orient">> ELSE <<>>) \o <<"engage">>
    \o (IF hasConsolidate THEN <<"consolidate">> ELSE <<>>)

(* Focus::create made an empty directory; the phase list is built.         *)
Init ==
  /\ orient \in BOOLEAN /\ consolidate \in BOOLEAN
  /\ todo = PhaseList(orient, consolidate)
  /\ running = NoPhase /\ children = {}
  /\ exits = [p \in Phases |-> "none"]
  /\ files = [p \in Phases |-> "absent"]
  /\ path = NoPhase
  /\ result = Pending

config == <<orient, consolidate>>

-----------------------------------------------------------------------------
(* The hooks                                                               *)

(* A hook, or a child it left behind, writes or removes its output file.   *)
Write(p) ==
  /\ p = running \/ p \in children
  /\ files' \in {[files EXCEPT ![p] = c] : c \in Contents}
  /\ UNCHANGED <<config, todo, running, children, exits, path, result>>

-----------------------------------------------------------------------------
(* Focus::run                                                              *)

Idle == running = NoPhase /\ result = Pending

(* Mutant: the phase stays on the list.                                    *)
MutSpawn ==
  /\ Idle /\ todo # <<>>
  /\ running' = Head(todo)
  /\ UNCHANGED <<config, todo, children, exits, files, path, result>>

Spawn ==
  /\ Idle /\ todo # <<>>
  /\ running' = Head(todo)
  /\ todo' = Tail(todo)
  /\ UNCHANGED <<config, children, exits, files, path, result>>

(* The command cannot be started: run_hook returns the error.              *)
SpawnFails ==
  /\ Idle /\ todo # <<>>
  /\ exits' = [exits EXCEPT ![Head(todo)] = "not_spawned"]
  /\ result' = Failed(Head(todo))
  /\ todo' = Tail(todo)
  /\ UNCHANGED <<config, running, children, files, path>>

HookExits(status) ==
  /\ running # NoPhase
  /\ exits' = [exits EXCEPT ![running] = status]
  /\ running' = NoPhase
  /\ children' \in {children} \cup (IF running \in Children THEN {children \cup {running}} ELSE {})
  /\ UNCHANGED <<config, todo, files, path>>

HookSucceeds == HookExits("success") /\ UNCHANGED result

(* Mutant: a failed hook is only logged.                                   *)
MutHookFails == HookExits("failure") /\ UNCHANGED result

(* Mutant: the phase reported is the one that comes next.                  *)
MutHookFailsNext ==
  HookExits("failure") /\ result' = Failed(IF todo = <<>> THEN "consolidate" ELSE Head(todo))

(* A status other than 0, or a signal: run returns.                        *)
HookFails == HookExits("failure") /\ result' = Failed(running)

(* Mutant: engage-out.json is preferred.                                   *)
MutChoosePath ==
  /\ Idle /\ todo = <<>> /\ path = NoPhase
  /\ path' = IF files["engage"] # "absent" THEN "engage" ELSE "consolidate"
  /\ UNCHANGED <<config, todo, running, children, exits, files, result>>

(* consolidate-out.json if it exists, else engage-out.json.                *)
ChoosePath ==
  /\ Idle /\ todo = <<>> /\ path = NoPhase
  /\ path' = IF files["consolidate"] # "absent" THEN "consolidate" ELSE "engage"
  /\ UNCHANGED <<config, todo, running, children, exits, files, result>>

(* The file is read and parsed.  Whichever file it was, a missing or bad   *)
(* one is reported as a failure of the consolidate phase.                  *)
ReadOutcome ==
  /\ Idle /\ path # NoPhase
  /\ result' = IF files[path] = "whole" THEN Completed(path) ELSE Failed("consolidate")
  /\ UNCHANGED <<config, todo, running, children, exits, files, path>>

(* The steps of Focus::run and the ends of hooks that it awaits.           *)
Run == Spawn \/ SpawnFails \/ HookSucceeds \/ HookFails \/ ChoosePath \/ ReadOutcome

Next == (\E p \in Phases : Write(p)) \/ Run

Spec == Init /\ [][Next]_vars

-----------------------------------------------------------------------------
(* Properties                                                              *)

Ran(p) == exits[p] # "none"
Configured(p) == p = "engage" \/ (p = "orient" /\ orient) \/ (p = "consolidate" /\ consolidate)

(* A completed focus ran every hook of its faculty to success; a failed    *)
(* one ran none after the hook that failed.                                *)
AllHooksSucceeded ==
  /\ result.kind = "completed" =>
       \A p \in Phases : Configured(p) <=> exits[p] = "success"
  /\ \A p \in Phases : exits[p] \in {"failure", "not_spawned"} =>
       result # Pending /\ running = NoPhase

(* The outcome is a whole document, and that of the last hook which left   *)
(* one: engage's only if consolidate left nothing.                         *)
OutcomeIsLastWord ==
  result.kind = "completed" /\ children = {} =>
    /\ files[result.data] = "whole"
    /\ result.data = "engage" => files["consolidate"] = "absent"

(* The phase a failure names is the one whose hook failed, or else the     *)
(* outcome file is at fault.                                               *)
BlameIsRight ==
  result.kind = "failed" =>
    \/ exits[result.phase] \in {"failure", "not_spawned"}
    \/ /\ \A p \in Phases : Configured(p) => exits[p] = "success"
       /\ children = {} => files[path] # "whole"
=============================================================================
