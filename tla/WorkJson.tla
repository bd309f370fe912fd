------------------------------ MODULE WorkJson ------------------------------
(***************************************************************************)
(* What a focus is told about its item.  process_work fetches the row      *)
(* before it claims the item (src/engine/control.rs) and Focus::create     *)
(* writes that copy to work.json for the hooks, two UPDATEs later.  In     *)
(* between another plane may run the item, and clients may requeue it.     *)
(* This module adds the copy to the actions of ControlPlane.               *)
(***************************************************************************)
EXTENDS ControlPlane

VARIABLES
  fetched,    \* fetched[w]: attempts in the local variable item
  work_json,  \* work_json[w]: attempts in the file of w's focus
  overtaken   \* history: another plane has executed w's item meanwhile

jsonVars == <<fetched, work_json, overtaken>>
allVars == <<vars, jsonVars>>

JsonInit ==
  /\ Init
  /\ fetched = [w \in Planes |-> 0]
  /\ work_json = [w \in Planes |-> 0]
  /\ overtaken = [w \in Planes |-> FALSE]

(* process_work holds the copy, or a hook can read it.  In all other states *)
(* the variables have their initial values.                                *)
HasCopy == {"claiming", "starting", "creating", "focus"}
Passes(w, from, to) == pc[w] = from /\ pc'[w] = to

(* Mutant: the row is fetched again once it says running.                  *)
MutFetch ==
  fetched' = [w \in Planes |->
    IF pc'[w] \notin HasCopy \ {"focus"} THEN 0
    ELSE IF Passes(w, "starting", "creating") THEN attempts'[cur[w]] ELSE fetched[w]]

(* get_work_item fills the variable; it goes out of scope with the call.   *)
Fetch ==
  fetched' = [w \in Planes |->
    IF pc'[w] \notin HasCopy \ {"focus"} THEN 0
    ELSE IF Passes(w, "routing", "claiming") THEN attempts[cur[w]] ELSE fetched[w]]

(* Focus::create writes the variable to a new directory.                   *)
WriteJson ==
  work_json' = [w \in Planes |->
    IF pc'[w] \notin HasCopy THEN 0
    ELSE IF Passes(w, "creating", "focus") THEN fetched[w] ELSE work_json[w]]

Overtake ==
  overtaken' = [w \in Planes |->
    /\ pc'[w] \in HasCopy
    /\ overtaken[w] \/ \E v \in Planes \ {w} : Executes(v, cur[w])']

JsonNext == Next /\ Fetch /\ WriteJson /\ Overtake

JsonSpec == JsonInit /\ [][JsonNext]_allVars

-----------------------------------------------------------------------------
(* Properties                                                              *)

(* work.json counts the attempts before this one, as hooks that want to    *)
(* tell a first attempt from a retry need.  It is behind only if another   *)
(* plane executed the item meanwhile, and never ahead, whatever clients    *)
(* requeue.                                                                *)
JsonTellsAttempts ==
  \A w \in Planes : pc[w] = "focus" =>
    /\ work_json[w] < attempts[cur[w]]
    /\ ~overtaken[w] => work_json[w] = attempts[cur[w]] - 1
=============================================================================
