------------------------------- MODULE Animus -------------------------------
(***************************************************************************)
(* The binary: main (src/bin/animus.rs) runs one command of the line.      *)
(* `llm complete` is LlmCommand and `work submit` a client of WorkStore;   *)
(* the others are composed here.                                           *)
(***************************************************************************)
EXTENDS Daemon, WorkShow

VARIABLE command   \* serve or work

animusVars == <<allVars, workVars, command>>

AnimusTypeOK == DaemonTypeOK /\ WorkTypeOK /\ command \in {"serve", "work"}

(* Only the daemon looks at the directory.                                 *)
AnimusInit ==
  /\ DaemonInit /\ WorkInit
  /\ command \in {"serve", "work"}
  /\ command = "work" => dir = [f \in Files |-> Other]

AnimusNext ==
  \/ command = "serve" /\ DaemonNext /\ UNCHANGED <<workVars, command>>
  \/ command = "work" /\ WorkNext /\ UNCHANGED <<allVars, command>>

AnimusSpec == AnimusInit /\ [][AnimusNext]_animusVars

(* A hook ends; the task that awaits it is scheduled.  There is no timeout *)
(* on hooks in the code, so the first is an assumption on faculties.       *)
AnimusFairSpec == AnimusSpec /\ WF_allVars(command = "serve" /\ FocusStep(Run))
=============================================================================
