------------------------------- MODULE WorkOnce -------------------------------
(***************************************************************************)
(* What the engine promises about work (DESIGN.md, "Work-Once Guarantee"), *)
(* with no table, queue, transaction or message in sight.  Work that is    *)
(* accepted is pending until one executor begins it; only that executor    *)
(* settles it; a submission whose slot is taken is attached to a piece of  *)
(* work that was accepted for the slot; nothing leaves the records.        *)
(***************************************************************************)
EXTENDS FiniteSets

CONSTANTS
  Work,         \* identities of submissions
  Slots,        \* what two submissions share when they are duplicates
  NoSlot,       \* the slot of a submission that is never a duplicate
  Executors,    \* what executes work
  Nobody        \* no original

VARIABLES
  slot,        \* slot[i] of the submission, given
  phase,       \* phase[i] of the submission's life
  original,    \* original[i]: what i, a duplicate, is attached to
  executors    \* executors[i]: who is executing i

vars == <<slot, phase, original, executors>>

Phases == {"unknown", "pending", "executing", "completed", "failed",
           "dropped", "duplicate"}
Live == {"pending", "executing", "failed"}

Init ==
  /\ slot \in [Work -> Slots]
  /\ phase = [i \in Work |-> "unknown"]
  /\ original = [i \in Work |-> Nobody]
  /\ executors = [i \in Work |-> {}]

Duplicates(i, j) == slot[i] # NoSlot /\ slot[i] = slot[j]

Accept(i) ==
  /\ phase[i] = "unknown"
  /\ \A j \in Work : Duplicates(i, j) => phase[j] \notin Live
  /\ phase' = [phase EXCEPT ![i] = "pending"]
  /\ UNCHANGED <<slot, original, executors>>

\* The original may have been settled since it was looked up.
Attach(i) ==
  /\ phase[i] = "unknown"
  /\ \E j \in Work \ {i} :
       /\ Duplicates(i, j) /\ phase[j] \notin {"unknown", "duplicate"}
       /\ original' = [original EXCEPT ![i] = j]
  /\ phase' = [phase EXCEPT ![i] = "duplicate"]
  /\ UNCHANGED <<slot, executors>>

Begin(i, e) ==
  /\ phase[i] = "pending" /\ executors[i] = {}
  /\ phase' = [phase EXCEPT ![i] = "executing"]
  /\ executors' = [executors EXCEPT ![i] = {e}]
  /\ UNCHANGED <<slot, original>>

Settle(i, e) ==
  /\ phase[i] = "executing" /\ executors[i] = {e}
  /\ \E r \in {"completed", "failed"} : phase' = [phase EXCEPT ![i] = r]
  /\ executors' = [executors EXCEPT ![i] = {}]
  /\ UNCHANGED <<slot, original>>

\* A failure strikes: the work stays on record as executing, by nobody.
Vanish(i, e) ==
  /\ executors[i] = {e}
  /\ executors' = [executors EXCEPT ![i] = {}]
  /\ UNCHANGED <<slot, phase, original>>

Retry(i) ==
  /\ phase[i] = "failed"
  /\ phase' = [phase EXCEPT ![i] = "pending"]
  /\ UNCHANGED <<slot, original, executors>>

Drop(i) ==
  /\ phase[i] \in {"pending", "failed"}
  /\ phase' = [phase EXCEPT ![i] = "dropped"]
  /\ UNCHANGED <<slot, original, executors>>

Next ==
  \E i \in Work :
    \/ Accept(i) \/ Attach(i) \/ Retry(i) \/ Drop(i)
    \/ \E e \in Executors : Begin(i, e) \/ Settle(i, e) \/ Vanish(i, e)

Spec == Init /\ [][Next]_vars
=============================================================================
