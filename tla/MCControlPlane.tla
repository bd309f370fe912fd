--------------------------- MODULE MCControlPlane ---------------------------
(* ControlPlane on small sets for TLC. *)
EXTENDS ControlPlane, TLC

CONSTANTS f1, f2, k1

MCFaculties == {f1, f2}
MCKeys == {k1}

(* A slot to contend for, and work of a second faculty without a key.      *)
MCRequests ==
  {[faculty |-> f1, dedup_key |-> k1], [faculty |-> f2, dedup_key |-> NoKey]}
MCOneSlot == {[faculty |-> f1, dedup_key |-> k1]}

(* What the state machine offers a client that leaves running items alone: *)
(* retry a failed item, requeue one whose plane seems to be gone.          *)
MCRetries == {<<"failed", "queued">>, <<"claimed", "queued">>}

(* A client that also cancels items, and declares running ones failed, as  *)
(* an operator would after a crash, in order to retry them.                *)
MCRescues == MCRetries \cup {<<"queued", "dead">>, <<"running", "failed">>}

NoMoves == {}

Symmetric == Permutations(WorkIds) \cup Permutations(Planes)
=============================================================================
