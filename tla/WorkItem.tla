------------------------------ MODULE WorkItem ------------------------------
(***************************************************************************)
(* The life cycle of a work item (src/model/work.rs): its states, the      *)
(* transitions State::can_transition_to allows, and the classes of states  *)
(* that the work item table and its partial unique index single out.       *)
(***************************************************************************)

States == {"created", "queued", "claimed", "running",
           "completed", "failed", "dead", "merged"}

(* Mutant: duplicates may also be merged after they were queued.           *)
MutTransitionsMergeQueued ==
  {<<"created", "queued">>, <<"created", "merged">>,
   <<"queued", "claimed">>, <<"queued", "dead">>, <<"queued", "merged">>,
   <<"claimed", "running">>, <<"claimed", "queued">>,
   <<"running", "completed">>, <<"running", "failed">>,
   <<"failed", "queued">>, <<"failed", "dead">>}

Transitions ==
  {<<"created", "queued">>, <<"created", "merged">>,
   <<"queued", "claimed">>, <<"queued", "dead">>,
   <<"claimed", "running">>, <<"claimed", "queued">>,
   <<"running", "completed">>, <<"running", "failed">>,
   <<"failed", "queued">>, <<"failed", "dead">>}

CanTransitionTo(from, to) == <<from, to>> \in Transitions

Terminal == {"completed", "dead", "merged"}

(* The states the partial unique index on (faculty, dedup_key) covers:     *)
(* NOT IN ('completed', 'dead', 'merged').                                 *)
Indexed == States \ {"completed", "dead", "merged"}
=============================================================================
