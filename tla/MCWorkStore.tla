----------------------------- MODULE MCWorkStore -----------------------------
(* WorkStore on small sets for TLC. *)
EXTENDS WorkStore, TLC

CONSTANTS f1, f2, k1

(* One slot that can be contended, the same key under another faculty,     *)
(* and work without a key.                                                 *)
MCRequests ==
  {[faculty |-> f1, dedup_key |-> k1],
   [faculty |-> f2, dedup_key |-> k1],
   [faculty |-> f1, dedup_key |-> NoKey]}
(* A single slot for everyone: the most contention three clients can make. *)
MCOneSlot == {[faculty |-> f1, dedup_key |-> k1]}
MCFaculties == {f1, f2}
MCKeys == {k1}

Symmetric == Permutations(WorkIds)
=============================================================================
