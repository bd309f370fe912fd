-------------------------- MODULE ControlPlaneProofs --------------------------
(***************************************************************************)
(* Proofs about WorkStore and ControlPlane, for any sets of planes, items, *)
(* requests, faculties and faults, any number of concurrent submissions    *)
(* and clients, and any bounds.                                            *)
(*                                                                         *)
(* DedupUnique, MergedIntoOriginal and ResolvedIffTerminal are not         *)
(* inductive alone: whether a merge names an original depends on what      *)
(* SelectCanonical read statements earlier, and whether an insert may      *)
(* proceed on the rows of open transactions.  SubmissionInv says what each *)
(* point of submit_work has established and keeps while others run.        *)
(***************************************************************************)
EXTENDS ControlPlane, FiniteSetTheorems, TLAPS

-----------------------------------------------------------------------------
(* The store                                                               *)

Original(c) == state[c] \notin {"absent", "merged"}

(* What submit_work knows: before its COMMIT no row of it is visible; the  *)
(* canonical item it has selected is an original of its slot; originals,   *)
(* and only they, have been sent to the queue.                             *)
SubmissionInv ==
  \A i \in WorkIds :
    /\ sub[i] \in {"idle", "inserting", "inserted", "conflict", "selected"} => state[i] = "absent"
    /\ sub[i] = "selected" =>
         /\ canonical[i] \in WorkIds
         /\ SameSlot(i, canonical[i])
         /\ Original(canonical[i])
    /\ Original(i) <=> queue[i] # "none"

StoreInv ==
  /\ StoreTypeOK
  /\ SubmissionInv
  /\ DedupUnique
  /\ MergedIntoOriginal
  /\ ResolvedIffTerminal

LEMMA InitStoreInv == StoreInit => StoreInv
BY IdAssumption DEF StoreInit, StoreInv, StoreTypeOK, SubmissionInv, DedupUnique,
   MergedIntoOriginal, ResolvedIffTerminal, SubmitPCs, InQueue, States, Original,
   SameSlot, Keyed, Occupies, Active, Indexed, Terminal

(* A row that takes a transition was committed and active; what it becomes *)
(* is neither "created" nor "merged", so an original stays one.            *)
LEMMA TransitionFacts ==
  ASSUME StoreTypeOK, NEW i \in WorkIds, NEW from, NEW to,
         CanTransitionTo(from, to), state[i] = from
  PROVE  /\ Active(i)
         /\ to \in States \ {"absent", "created", "merged"}
         /\ from \notin Terminal
BY DEF StoreTypeOK, CanTransitionTo, Transitions, Active, Indexed, States, Terminal

(* Every statement keeps the columns and locals within their types.        *)
LEMMA TypeStep ==
  ASSUME StoreTypeOK, NEW i \in WorkIds
  PROVE  /\ Submit(i) => StoreTypeOK'
         /\ ClientTransition(i) => StoreTypeOK'
         /\ ClientRetire(i) => StoreTypeOK'
         /\ ClientQueue(i) => StoreTypeOK'
         /\ VisibilityTimeout(i) => StoreTypeOK'
<1>. USE DEF StoreTypeOK
<1>. USE DEF columns, SubmitPCs, InQueue, States, At, Goto
<1>1. Submit(i) => StoreTypeOK'
  <2>0. Begin(i) => StoreTypeOK'
    BY DEF Begin
  <2>1. InsertRow(i) => StoreTypeOK'
    BY DEF InsertRow
  <2>2. InsertConflict(i) => StoreTypeOK'
    BY DEF InsertConflict
  <2>3. SelectCanonical(i) => StoreTypeOK'
    BY DEF SelectCanonical
  <2>4. CanonicalGone(i) => StoreTypeOK'
    BY DEF CanonicalGone
  <2>5. MergeCommit(i) => StoreTypeOK'
    BY DEF MergeCommit
  <2>6. QueueCommit(i) => StoreTypeOK'
    BY DEF QueueCommit
  <2>7. Reply(i) => StoreTypeOK'
    BY DEF Reply
  <2>8. SubmitFails(i) => StoreTypeOK'
    BY DEF SubmitFails
  <2>. QED  BY <2>0, <2>1, <2>2, <2>3, <2>4, <2>5, <2>6, <2>7, <2>8 DEF Submit, SubmitStep
<1>2. ClientTransition(i) => StoreTypeOK'
  <2>. SUFFICES ASSUME NEW from \in States, NEW to \in States, TransitionState(i, from, to),
                       UNCHANGED <<request, sub, canonical, queue>>
                PROVE  StoreTypeOK'
    BY DEF ClientTransition
  <2>. to \in States \ {"created"}
    BY TransitionFacts DEF TransitionState
  <2>. QED  BY DEF TransitionState
<1>3. ClientRetire(i) => StoreTypeOK'
  <2>1. ASSUME NEW result \in SUBSET {"data", "error"}, CompleteWork(i, result),
               UNCHANGED <<request, sub, canonical, queue>>
        PROVE  StoreTypeOK'
    BY <2>1 DEF CompleteWork
  <2>2. ASSUME FailWork(i), UNCHANGED <<request, sub, canonical, queue>>
        PROVE  StoreTypeOK'
    BY <2>2 DEF FailWork
  <2>. QED  BY <2>1, <2>2 DEF ClientRetire
<1>4. ClientQueue(i) => StoreTypeOK'
  BY DEF ClientQueue, ReadFromQueue, ArchiveMessage
<1>5. VisibilityTimeout(i) => StoreTypeOK'
  BY DEF VisibilityTimeout
<1>. QED  BY <1>1, <1>2, <1>3, <1>4, <1>5

(* The steps of submit_work.  Rows of other items stay, so an original     *)
(* stays one; only QueueCommit makes a new one, with its message.          *)
LEMMA SubmitStepInv ==
  ASSUME StoreInv, NEW i \in WorkIds, Submit(i)
  PROVE  StoreInv'
<1>. USE IdAssumption DEF StoreInv, At, Goto, columns, InQueue
<1>t. StoreTypeOK'
  BY TypeStep
<1>. DEFINE Facts == SubmissionInv /\ DedupUnique /\ MergedIntoOriginal /\ ResolvedIffTerminal
<1>1. CASE InsertRow(i)
  <2>1. SubmissionInv'
    BY <1>1, <1>t DEF InsertRow, StoreTypeOK, SubmissionInv, Original, SameSlot, Keyed
  <2>2. DedupUnique'
    BY <1>1, <1>t DEF InsertRow, StoreTypeOK, DedupUnique, SameSlot, Keyed, Occupies, Active
  <2>3. MergedIntoOriginal' /\ ResolvedIffTerminal'
    BY <1>1 DEF InsertRow, MergedIntoOriginal, ResolvedIffTerminal, SameSlot, Keyed
  <2>. QED  BY <1>t, <2>1, <2>2, <2>3
<1>2. CASE Begin(i) \/ InsertConflict(i) \/ CanonicalGone(i) \/ Reply(i) \/ SubmitFails(i)
  <2>1. SubmissionInv'
    BY <1>2, <1>t DEF Begin, InsertConflict, CanonicalGone, Reply, SubmitFails,
       StoreTypeOK, SubmissionInv, Original, SameSlot, Keyed
  <2>2. DedupUnique'
    BY <1>2, <1>t DEF Begin, InsertConflict, CanonicalGone, Reply, SubmitFails,
       StoreTypeOK, DedupUnique, SameSlot, Keyed, Occupies, Active
  <2>3. MergedIntoOriginal' /\ ResolvedIffTerminal'
    BY <1>2 DEF Begin, InsertConflict, CanonicalGone, Reply, SubmitFails,
       MergedIntoOriginal, ResolvedIffTerminal, SameSlot, Keyed
  <2>. QED  BY <1>t, <2>1, <2>2, <2>3
<1>3. CASE SelectCanonical(i)
  <2>1. SubmissionInv'
    <3>1. PICK c \in WorkIds : Candidate(i, c) /\ canonical' = [canonical EXCEPT ![i] = c]
      BY <1>3 DEF SelectCanonical
    <3>2. Original(c)
      BY <3>1 DEF Candidate, Active, Indexed, States, Original
    <3>. QED
      BY <1>3, <1>t, <3>1, <3>2 DEF SelectCanonical, StoreTypeOK, SubmissionInv, Original,
         SameSlot, Keyed, Candidate
  <2>2. DedupUnique'
    BY <1>3, <1>t DEF SelectCanonical, StoreTypeOK, DedupUnique, SameSlot, Keyed, Occupies, Active
  <2>3. MergedIntoOriginal' /\ ResolvedIffTerminal'
    BY <1>3 DEF SelectCanonical, MergedIntoOriginal, ResolvedIffTerminal, SameSlot, Keyed
  <2>. QED  BY <1>t, <2>1, <2>2, <2>3
<1>4. CASE MergeCommit(i)
  <2>0. state[i] = "absent"
    BY <1>4 DEF MergeCommit, SubmissionInv
  <2>1. SubmissionInv'
    BY <1>4, <1>t, <2>0 DEF MergeCommit, StoreTypeOK, SubmissionInv, Original, SameSlot, Keyed
  <2>2. DedupUnique'
    BY <1>4, <1>t, <2>0 DEF MergeCommit, StoreTypeOK, DedupUnique, SameSlot, Keyed,
       Occupies, Active, Indexed
  <2>3. MergedIntoOriginal'
    BY <1>4, <1>t, <2>0 DEF MergeCommit, StoreTypeOK, SubmissionInv, MergedIntoOriginal,
       Original, SameSlot, Keyed
  <2>4. ResolvedIffTerminal'
    BY <1>4, <1>t DEF MergeCommit, StoreTypeOK, ResolvedIffTerminal, Terminal
  <2>. QED  BY <1>t, <2>1, <2>2, <2>3, <2>4
<1>5. CASE QueueCommit(i)
  <2>0. state[i] = "absent"
    BY <1>5 DEF QueueCommit, SubmissionInv
  <2>1. SubmissionInv'
    BY <1>5, <1>t, <2>0 DEF QueueCommit, StoreTypeOK, SubmissionInv, Original, SameSlot, Keyed
  <2>2. DedupUnique'
    BY <1>5, <1>t, <2>0 DEF QueueCommit, StoreTypeOK, DedupUnique, SameSlot, Keyed,
       Occupies, Active, Indexed
  <2>3. MergedIntoOriginal'
    BY <1>5, <1>t, <2>0 DEF QueueCommit, StoreTypeOK, MergedIntoOriginal, SameSlot, Keyed
  <2>4. ResolvedIffTerminal'
    BY <1>5, <1>t, <2>0 DEF QueueCommit, StoreTypeOK, ResolvedIffTerminal, Terminal
  <2>. QED  BY <1>t, <2>1, <2>2, <2>3, <2>4
<1>. QED  BY <1>1, <1>2, <1>3, <1>4, <1>5 DEF Submit, SubmitStep

(* A committed active row moves on to a state that is not "merged".        *)
LEMMA RowMoves ==
  ASSUME StoreInv, StoreTypeOK', NEW i \in WorkIds, Active(i),
         NEW to \in States \ {"absent", "created", "merged"},
         state' = [state EXCEPT ![i] = to],
         resolved' = [resolved EXCEPT ![i] = @ \/ to \in Terminal],
         UNCHANGED <<merged_into, request, sub, canonical, queue>>
  PROVE  StoreInv'
<1>. USE DEF StoreInv
<1>0. state[i] \notin {"absent", "merged"} \cup Terminal
  BY DEF Active, Indexed, States, Terminal
<1>1. SubmissionInv'
  BY <1>0 DEF StoreTypeOK, SubmissionInv, Original, SameSlot, Keyed
<1>2. DedupUnique'
  BY <1>0 DEF StoreTypeOK, DedupUnique, SameSlot, Keyed, Occupies, Active
<1>3. MergedIntoOriginal'
  BY <1>0 DEF StoreTypeOK, MergedIntoOriginal, SameSlot, Keyed
<1>4. ResolvedIffTerminal'
  BY <1>0 DEF StoreTypeOK, ResolvedIffTerminal
<1>. QED  BY <1>1, <1>2, <1>3, <1>4

(* Reading, hiding, redelivering and archiving never unsend a message.     *)
LEMMA QueueMoves ==
  ASSUME StoreInv, StoreTypeOK', NEW i \in WorkIds, NEW to \in InQueue \cup {"archived"},
         queue[i] # "none", queue' = [queue EXCEPT ![i] = to],
         UNCHANGED <<request, sub, canonical, columns>>
  PROVE  StoreInv'
<1>. USE DEF StoreInv, columns, InQueue
<1>1. SubmissionInv'
  BY DEF StoreTypeOK, SubmissionInv, Original, SameSlot, Keyed
<1>2. DedupUnique'
  BY DEF DedupUnique, SameSlot, Keyed, Occupies, Active
<1>3. MergedIntoOriginal'
  BY DEF StoreTypeOK, MergedIntoOriginal, SameSlot, Keyed
<1>4. ResolvedIffTerminal'
  BY DEF ResolvedIffTerminal
<1>. QED  BY <1>1, <1>2, <1>3, <1>4

LEMMA StoreInvStep ==
  ASSUME StoreInv, [StoreNext]_storeVars
  PROVE  StoreInv'
<1>1. ASSUME NEW i \in WorkIds, Submit(i)  PROVE StoreInv'
  BY <1>1, SubmitStepInv
<1>2. ASSUME NEW i \in WorkIds, ClientTransition(i)  PROVE StoreInv'
  <2>1. StoreTypeOK'
    BY <1>2, TypeStep DEF StoreInv
  <2>2. PICK from \in States, to \in States : TransitionState(i, from, to)
    BY <1>2 DEF ClientTransition
  <2>3. Active(i) /\ to \in States \ {"absent", "created", "merged"}
    BY <2>2, TransitionFacts DEF TransitionState, StoreInv
  <2>. QED
    BY <1>2, <2>1, <2>2, <2>3, RowMoves DEF ClientTransition, TransitionState
<1>3. ASSUME NEW i \in WorkIds, ClientRetire(i)  PROVE StoreInv'
  <2>1. StoreTypeOK'
    BY <1>3, TypeStep DEF StoreInv
  <2>2. state[i] = "running" /\ Active(i)
    BY <1>3 DEF ClientRetire, CompleteWork, FailWork, Active, Indexed, States
  <2>3. UNCHANGED <<merged_into, request, sub, canonical, queue>>
    BY <1>3 DEF ClientRetire, CompleteWork, FailWork
  <2>4. CASE \E result \in SUBSET {"data", "error"} : CompleteWork(i, result)
    <3>1. /\ state' = [state EXCEPT ![i] = "completed"]
          /\ resolved' = [resolved EXCEPT ![i] = @ \/ "completed" \in Terminal]
      BY <2>4 DEF CompleteWork, Terminal
    <3>. QED  BY <2>1, <2>2, <2>3, <3>1, RowMoves DEF States
  <2>5. CASE FailWork(i)
    <3>1. resolved[i] = (resolved[i] \/ "failed" \in Terminal)
      BY DEF Terminal, StoreInv, StoreTypeOK
    <3>2. /\ state' = [state EXCEPT ![i] = "failed"]
          /\ resolved' = [resolved EXCEPT ![i] = @ \/ "failed" \in Terminal]
      BY <2>5, <3>1 DEF FailWork, StoreInv, StoreTypeOK
    <3>. QED  BY <2>1, <2>2, <2>3, <3>2, RowMoves DEF States
  <2>. QED  BY <1>3, <2>4, <2>5 DEF ClientRetire
<1>4. ASSUME NEW i \in WorkIds, ClientQueue(i) \/ VisibilityTimeout(i)  PROVE StoreInv'
  <2>1. StoreTypeOK'
    BY <1>4, TypeStep DEF StoreInv
  <2>2. \E to \in InQueue \cup {"archived"} : queue' = [queue EXCEPT ![i] = to]
    BY <1>4 DEF ClientQueue, ReadFromQueue, ArchiveMessage, VisibilityTimeout, InQueue
  <2>3. queue[i] # "none" /\ UNCHANGED <<request, sub, canonical, columns>>
    BY <1>4 DEF ClientQueue, ReadFromQueue, ArchiveMessage, VisibilityTimeout, InQueue
  <2>. QED  BY <2>1, <2>2, <2>3, QueueMoves
<1>5. ASSUME UNCHANGED storeVars  PROVE StoreInv'
  BY <1>5 DEF storeVars, columns, StoreInv, StoreTypeOK, SubmissionInv, Original, SameSlot,
     Keyed, DedupUnique, Occupies, Active, MergedIntoOriginal, ResolvedIffTerminal
<1>. QED  BY <1>1, <1>2, <1>3, <1>4, <1>5 DEF StoreNext

(* The strengthened invariant holds of every behaviour of the store.       *)
THEOREM StoreInvariant == StoreBehaviour => []StoreInv
<1>1. StoreInit => StoreInv
  BY InitStoreInv
<1>2. StoreInv /\ [StoreNext]_storeVars => StoreInv'
  BY StoreInvStep
<1>. QED  BY <1>1, <1>2, PTL DEF StoreBehaviour

(* Type correctness of the table, the queue and the open transactions.     *)
THEOREM StoreTypeCorrect == StoreBehaviour => []StoreTypeOK
<1>1. StoreInv => StoreTypeOK
  BY DEF StoreInv
<1>. QED  BY <1>1, StoreInvariant, PTL

(* Structural dedup: at most one active row per slot, for any number of    *)
(* submissions interleaved statement by statement.                         *)
THEOREM DedupIsUnique == StoreBehaviour => []DedupUnique
<1>1. StoreInv => DedupUnique
  BY DEF StoreInv
<1>. QED  BY <1>1, StoreInvariant, PTL

(* No statement writes a terminal row.                                     *)
LEMMA TerminalStep ==
  ASSUME StoreInv, [StoreNext]_storeVars
  PROVE  \A i \in WorkIds : TerminalFrozen(i)
<1>1. ASSUME NEW j \in WorkIds, Submit(j)  PROVE \A i \in WorkIds : TerminalFrozen(i)
  <2>1. CASE MergeCommit(j) \/ QueueCommit(j)
    <3>1. state[j] \notin Terminal
      BY <2>1 DEF MergeCommit, QueueCommit, At, StoreInv, SubmissionInv, Terminal
    <3>. QED
      BY <2>1, <3>1 DEF MergeCommit, QueueCommit, TerminalFrozen, StoreInv, StoreTypeOK
  <2>2. CASE UNCHANGED columns
    BY <2>2 DEF TerminalFrozen, columns
  <2>. QED
    BY <1>1, <2>1, <2>2 DEF Submit, SubmitStep, Begin, InsertRow, InsertConflict, SelectCanonical,
       CanonicalGone, Reply, SubmitFails
<1>2. ASSUME NEW j \in WorkIds, ClientTransition(j)  PROVE \A i \in WorkIds : TerminalFrozen(i)
  <2>1. PICK from \in States, to \in States : TransitionState(j, from, to)
    BY <1>2 DEF ClientTransition
  <2>2. state[j] \notin Terminal
    BY <2>1, TransitionFacts DEF TransitionState, StoreInv
  <2>. QED  BY <2>1, <2>2 DEF TransitionState, TerminalFrozen, StoreInv, StoreTypeOK
<1>3. ASSUME NEW j \in WorkIds, ClientRetire(j)  PROVE \A i \in WorkIds : TerminalFrozen(i)
  BY <1>3 DEF ClientRetire, CompleteWork, FailWork, Terminal, TerminalFrozen, StoreInv, StoreTypeOK
<1>4. ASSUME NEW j \in WorkIds, ClientQueue(j) \/ VisibilityTimeout(j)
      PROVE  \A i \in WorkIds : TerminalFrozen(i)
  BY <1>4 DEF ClientQueue, VisibilityTimeout, TerminalFrozen, columns
<1>. QED  BY <1>1, <1>2, <1>3, <1>4 DEF StoreNext, storeVars, columns, TerminalFrozen

(* A terminal row is never written again.                                  *)
THEOREM TerminalIsFrozen == StoreBehaviour => TerminalRowsFrozen
<1>1. StoreInv /\ [StoreNext]_storeVars => [\A i \in WorkIds : TerminalFrozen(i)]_storeVars
  BY TerminalStep
<1>. QED  BY <1>1, StoreInvariant, PTL DEF StoreBehaviour, TerminalRowsFrozen

(* merged_into leads to an original of the same slot in one step.          *)
THEOREM MergeFindsOriginal == StoreBehaviour => []MergedIntoOriginal
<1>1. StoreInv => MergedIntoOriginal
  BY DEF StoreInv
<1>. QED  BY <1>1, StoreInvariant, PTL

(* resolved_at is set exactly on terminal rows.                            *)
THEOREM ResolvedIsTerminal == StoreBehaviour => []ResolvedIffTerminal
<1>1. StoreInv => ResolvedIffTerminal
  BY DEF StoreInv
<1>. QED  BY <1>1, StoreInvariant, PTL

-----------------------------------------------------------------------------
(* The planes                                                              *)

(* process_work holds an item exactly while it is under way.               *)
PlanesHold ==
  /\ pc \in [Planes -> PlanePCs]
  /\ cur \in [Planes -> WorkIds \cup {NoId}]
  /\ \A w \in Planes : pc[w] \in Resting <=> cur[w] = NoId
  /\ permit \in [Planes -> BOOLEAN]

LEMMA PlanesHoldStep ==
  ASSUME PlanesHold, [Next]_vars
  PROVE  PlanesHold'
<1>. USE IdAssumption DEF PlanesHold, PlanePCs, Resting
<1>1. ASSUME NEW i \in WorkIds, SubmitWork(i)  PROVE PlanesHold'
  BY <1>1 DEF SubmitWork, planeVars
<1>2. ASSUME NEW i \in WorkIds, MoveItem(i)  PROVE PlanesHold'
  BY <1>2 DEF MoveItem, planeVars
<1>3. ASSUME NEW i \in WorkIds, Reappear(i)  PROVE PlanesHold'
  BY <1>3 DEF Reappear, planeVars
<1>4. ASSUME NEW w \in Planes, NEW i \in WorkIds, Receive(w, i)  PROVE PlanesHold'
  BY <1>4 DEF Receive
<1>5. ASSUME NEW w \in Planes, Route(w)  PROVE PlanesHold'
  BY <1>5 DEF Route, Step, Return
<1>6. ASSUME NEW w \in Planes, Claim(w)  PROVE PlanesHold'
  BY <1>6 DEF Claim, Step
<1>7. ASSUME NEW w \in Planes, ClaimMiss(w)  PROVE PlanesHold'
  BY <1>7 DEF ClaimMiss, Return
<1>8. ASSUME NEW w \in Planes, Start(w)  PROVE PlanesHold'
  BY <1>8 DEF Start, Step
<1>9. ASSUME NEW w \in Planes, StartMiss(w)  PROVE PlanesHold'
  BY <1>9 DEF StartMiss, Return
<1>10. ASSUME NEW w \in Planes, CreateFocus(w)  PROVE PlanesHold'
  BY <1>10 DEF CreateFocus, Step
<1>11. ASSUME NEW w \in Planes, RunFocus(w)  PROVE PlanesHold'
  BY <1>11 DEF RunFocus, Step
<1>12. ASSUME NEW w \in Planes, Complete(w)  PROVE PlanesHold'
  BY <1>12 DEF Complete, Step
<1>13. ASSUME NEW w \in Planes, CompleteMiss(w)  PROVE PlanesHold'
  BY <1>13 DEF CompleteMiss, Return
<1>14. ASSUME NEW w \in Planes, Archive(w)  PROVE PlanesHold'
  BY <1>14 DEF Archive, Step
<1>15. ASSUME NEW w \in Planes, Fail(w)  PROVE PlanesHold'
  BY <1>15 DEF Fail, Step
<1>16. ASSUME NEW w \in Planes, FailMiss(w)  PROVE PlanesHold'
  BY <1>16 DEF FailMiss, Return
<1>17. ASSUME NEW w \in Planes, Cleanup(w)  PROVE PlanesHold'
  BY <1>17 DEF Cleanup, Return
<1>18. ASSUME NEW w \in Planes, CreateFocusFails(w)  PROVE PlanesHold'
  BY <1>18 DEF CreateFocusFails, Return
<1>19. ASSUME NEW w \in Planes, CleanupFails(w)  PROVE PlanesHold'
  BY <1>19 DEF CleanupFails, Return
<1>20. ASSUME NEW w \in Planes, Abandon(w)  PROVE PlanesHold'
  BY <1>20 DEF Abandon, Return
<1>21. ASSUME NEW w \in Planes, Shutdown(w)  PROVE PlanesHold'
  BY <1>21 DEF Shutdown
<1>22. ASSUME NEW w \in Planes, Stop(w)  PROVE PlanesHold'
  BY <1>22 DEF Stop
<1>23. ASSUME NEW w \in Planes, Crash(w)  PROVE PlanesHold'
  BY <1>23 DEF Crash
<1>24. ASSUME NEW w \in Planes, Restart(w)  PROVE PlanesHold'
  BY <1>24 DEF Restart
<1>25. ASSUME UNCHANGED vars  PROVE PlanesHold'
  BY <1>25 DEF vars, planeVars
<1>. QED
  BY <1>1, <1>2, <1>3, <1>4, <1>5, <1>6, <1>7, <1>8, <1>9, <1>10, <1>11,
     <1>12, <1>13, <1>14, <1>15, <1>16, <1>17, <1>18, <1>19, <1>20, <1>21,
     <1>22, <1>23, <1>24, <1>25 DEF Next, ProcessWork

THEOREM PlanesHoldAlways == Spec => []PlanesHold
<1>1. Init => PlanesHold
  BY DEF Init, PlanesHold, PlanePCs, Resting
<1>2. PlanesHold /\ [Next]_vars => PlanesHold'
  BY PlanesHoldStep
<1>. QED  BY <1>1, <1>2, PTL DEF Spec
-----------------------------------------------------------------------------
(* The planes are clients of the store                                     *)

(* A plane in process_work has an item in hand.                            *)
LEMMA InHand ==
  ASSUME PlanesHold, NEW w \in Planes, pc[w] \notin Resting
  PROVE  cur[w] \in WorkIds
BY DEF PlanesHold

LEMMA StoreStep ==
  ASSUME PlanesHold, [Next]_vars
  PROVE  [StoreNext]_storeVars
<1>. USE DEF StoreNext
<1>1. ASSUME NEW i \in WorkIds, SubmitWork(i)  PROVE StoreNext
  BY <1>1 DEF SubmitWork
<1>2. ASSUME NEW i \in WorkIds, MoveItem(i)  PROVE StoreNext
  <2>1. PICK m \in ClientMoves : /\ TransitionState(i, m[1], m[2])
                                 /\ m[2] = "queued" => attempts[i] < MaxAttempts
    BY <1>2 DEF MoveItem
  <2>2. m[1] \in States /\ m[2] \in States
    BY PlaneAssumption DEF Transitions, States
  <2>. QED  BY <1>2, <2>1, <2>2 DEF MoveItem, ClientTransition, submissions
<1>3. ASSUME NEW i \in WorkIds, Reappear(i)  PROVE StoreNext
  BY <1>3 DEF Reappear
<1>4. ASSUME NEW w \in Planes, NEW i \in WorkIds, Receive(w, i)  PROVE StoreNext
  BY <1>4 DEF Receive, ClientQueue, submissions
<1>5. ASSUME NEW w \in Planes, Claim(w) \/ Start(w)  PROVE StoreNext
  <2>1. cur[w] \in WorkIds
    BY <1>5, InHand DEF Claim, Start, Step, Resting
  <2>2. ClientTransition(cur[w])
    BY <1>5 DEF Claim, Start, ClientTransition, submissions, States
  <2>. QED  BY <2>1, <2>2
<1>6. ASSUME NEW w \in Planes, Complete(w) \/ Fail(w)  PROVE StoreNext
  <2>1. cur[w] \in WorkIds
    BY <1>6, InHand DEF Complete, Fail, Step, Resting
  <2>2. ClientRetire(cur[w])
    BY <1>6 DEF Complete, Fail, ClientRetire, submissions
  <2>. QED  BY <2>1, <2>2
<1>7. ASSUME NEW w \in Planes, Archive(w)  PROVE StoreNext
  <2>1. cur[w] \in WorkIds
    BY <1>7, InHand DEF Archive, Step, Resting
  <2>2. ClientQueue(cur[w])
    BY <1>7 DEF Archive, ClientQueue, submissions
  <2>. QED  BY <2>1, <2>2
<1>8. ASSUME NEW w \in Planes,
             \/ Route(w) \/ ClaimMiss(w) \/ StartMiss(w) \/ CreateFocus(w) \/ RunFocus(w)
             \/ CompleteMiss(w) \/ FailMiss(w) \/ Cleanup(w) \/ CreateFocusFails(w)
             \/ CleanupFails(w) \/ Abandon(w) \/ Shutdown(w) \/ Stop(w) \/ Crash(w) \/ Restart(w)
      PROVE  UNCHANGED storeVars
  BY <1>8 DEF Route, ClaimMiss, StartMiss, CreateFocus, RunFocus, CompleteMiss, FailMiss,
     Cleanup, CreateFocusFails, CleanupFails, Abandon, Shutdown, Stop, Crash, Restart
<1>9. ASSUME UNCHANGED vars  PROVE UNCHANGED storeVars
  BY <1>9 DEF vars
<1>. QED
  BY <1>1, <1>2, <1>3, <1>4, <1>5, <1>6, <1>7, <1>8, <1>9 DEF Next, ProcessWork

(* Whatever control planes, failures and clients do, the table and the     *)
(* queue see only legal calls: what is shown of the store holds here.      *)
THEOREM PlanesUseStore == Spec => StoreBehaviour
<1>1. Init => StoreInit
  BY DEF Init
<1>2. PlanesHold /\ [Next]_vars => [StoreNext]_storeVars
  BY StoreStep
<1>. QED  BY <1>1, <1>2, PlanesHoldAlways, PTL DEF Spec, StoreBehaviour

THEOREM PlanesKeepStoreInv == Spec => []StoreInv
BY PlanesUseStore, StoreInvariant, PTL

(* Deduplication holds with any number of planes resolving items.          *)
THEOREM PlanesKeepDedup == Spec => []DedupUnique
BY PlanesUseStore, DedupIsUnique, PTL

-----------------------------------------------------------------------------
(* Nothing is lost                                                         *)

(* A message is archived only for a completed item.  To be inductive the   *)
(* invariant must cover the plane that is about to archive it, whose item  *)
(* has to stay completed while others run.                                 *)
ArchivedInv ==
  /\ \A i \in WorkIds : queue[i] = "archived" => state[i] = "completed"
  /\ \A w \in Planes : pc[w] = "archiving" => state[cur[w]] = "completed"

LEMMA ArchivedInvStep ==
  ASSUME PlanesHold, StoreInv, ArchivedInv, [Next]_vars
  PROVE  ArchivedInv'
<1>. USE DEF ArchivedInv
<1>a. \A i \in WorkIds : state[i] = "completed" => state'[i] = "completed"
  BY StoreStep, TerminalStep DEF TerminalFrozen, Terminal
<1>b. ASSUME \A i \in WorkIds : queue'[i] = "archived" => queue[i] = "archived",
             \A w \in Planes : pc'[w] = "archiving" => pc[w] = "archiving" /\ cur'[w] = cur[w]
      PROVE  ArchivedInv'
  BY <1>a, <1>b, InHand DEF Resting
<1>. USE DEF PlanesHold, submissions
<1>1. ASSUME NEW i \in WorkIds, SubmitWork(i)  PROVE ArchivedInv'
  BY <1>1, <1>b DEF SubmitWork, Submit, SubmitStep, Begin, InsertRow, InsertConflict,
     SelectCanonical, CanonicalGone, MergeCommit, QueueCommit, Reply, SubmitFails,
     planeVars, StoreInv, StoreTypeOK
<1>2. ASSUME NEW i \in WorkIds, MoveItem(i)  PROVE ArchivedInv'
  BY <1>2, <1>b DEF MoveItem, planeVars
<1>3. ASSUME NEW i \in WorkIds, Reappear(i)  PROVE ArchivedInv'
  BY <1>3, <1>b DEF Reappear, VisibilityTimeout, planeVars, StoreInv, StoreTypeOK
<1>4. ASSUME NEW w \in Planes, NEW i \in WorkIds, Receive(w, i)  PROVE ArchivedInv'
  BY <1>4, <1>b DEF Receive, ReadFromQueue, StoreInv, StoreTypeOK
<1>5. ASSUME NEW w \in Planes, Complete(w)  PROVE ArchivedInv'
  <2>1. cur[w] \in WorkIds
    BY <1>5, InHand DEF Complete, Step, Resting
  <2>2. state'[cur[w]] = "completed"
    BY <1>5, <2>1 DEF Complete, CompleteWork, StoreInv, StoreTypeOK
  <2>. QED  BY <1>5, <1>a, <2>2, InHand DEF Complete, Step, Resting
<1>6. ASSUME NEW w \in Planes, Archive(w)  PROVE ArchivedInv'
  <2>1. cur[w] \in WorkIds /\ state'[cur[w]] = "completed"
    BY <1>6, <1>a, InHand DEF Archive, Step, Resting
  <2>2. \A i \in WorkIds : queue'[i] = "archived" => queue[i] = "archived" \/ i = cur[w]
    BY <1>6, <2>1 DEF Archive, ArchiveMessage, StoreInv, StoreTypeOK
  <2>. QED  BY <1>6, <1>a, <2>1, <2>2, InHand DEF Archive, Step, Resting
<1>7. ASSUME NEW w \in Planes,
             \/ Route(w) \/ Claim(w) \/ Start(w) \/ CreateFocus(w) \/ RunFocus(w) \/ Fail(w)
      PROVE  ArchivedInv'
  BY <1>7, <1>b DEF Route, Claim, Start, CreateFocus, RunFocus, Fail, Step, Return, storeVars
<1>8. ASSUME NEW w \in Planes,
             \/ ClaimMiss(w) \/ StartMiss(w) \/ CompleteMiss(w) \/ FailMiss(w) \/ Cleanup(w)
             \/ CreateFocusFails(w) \/ CleanupFails(w) \/ Abandon(w)
      PROVE  ArchivedInv'
  BY <1>8, <1>b DEF ClaimMiss, StartMiss, CompleteMiss, FailMiss, Cleanup, CreateFocusFails,
     CleanupFails, Abandon, Return, storeVars
<1>9. ASSUME NEW w \in Planes, Shutdown(w) \/ Stop(w) \/ Crash(w) \/ Restart(w)
      PROVE  ArchivedInv'
  BY <1>9, <1>b DEF Shutdown, Stop, Crash, Restart, storeVars
<1>10. ASSUME UNCHANGED vars  PROVE ArchivedInv'
  BY <1>10, <1>b DEF vars, storeVars, planeVars
<1>. QED
  BY <1>1, <1>2, <1>3, <1>4, <1>5, <1>6, <1>7, <1>8, <1>9, <1>10 DEF Next, ProcessWork

(* Every unfinished item keeps a message that planes can still receive,    *)
(* through any crashes, failures, redeliveries and client moves.           *)
THEOREM NothingIsLost == Spec => []NothingLost
<1>1. Init => ArchivedInv
  BY DEF Init, StoreInit, ArchivedInv
<1>2. PlanesHold /\ StoreInv /\ ArchivedInv /\ [Next]_vars => ArchivedInv'
  BY ArchivedInvStep
<1>3. StoreInv /\ ArchivedInv => NothingLost
  BY DEF StoreInv, StoreTypeOK, SubmissionInv, Original, ArchivedInv, NothingLost, InQueue
<1>. QED  BY <1>1, <1>2, <1>3, PlanesHoldAlways, PlanesKeepStoreInv, PTL DEF Spec

-----------------------------------------------------------------------------
(* One focus at a time                                                     *)

(* Clients leave it to planes to start items and to settle running ones.   *)
(* Otherwise a client may fail an item under its focus, requeue it, and a  *)
(* second focus starts beside the first.                                   *)
RunningLeftAlone == \A m \in ClientMoves : "running" \notin {m[1], m[2]}

(* Two planes may hold messages of one item, and both may even have        *)
(* claimed it when a client requeued it in between.  What keeps them apart *)
(* is the second compare-and-set: an executing plane implies "running",    *)
(* and only from "claimed" does another plane come to execute.             *)
OwnershipInv == FocusOwnsItem /\ AtMostOneFocus

LEMMA OwnershipInvStep ==
  ASSUME RunningLeftAlone, PlanesHold, StoreInv, OwnershipInv, [Next]_vars
  PROVE  OwnershipInv'
<1>. USE DEF OwnershipInv, FocusOwnsItem, AtMostOneFocus, Executes, Executing
<1>. USE DEF PlanesHold, submissions
<1>a. ASSUME \A i \in WorkIds : state[i] = "running" => state'[i] = "running",
             \A w \in Planes : pc'[w] \in Executing => pc[w] \in Executing /\ cur'[w] = cur[w]
      PROVE  OwnershipInv'
  BY <1>a
<1>1. ASSUME NEW i \in WorkIds, SubmitWork(i)  PROVE OwnershipInv'
  BY <1>1, <1>a DEF SubmitWork, Submit, SubmitStep, Begin, InsertRow, InsertConflict, At,
     SelectCanonical, CanonicalGone, MergeCommit, QueueCommit, Reply, SubmitFails,
     planeVars, columns, StoreInv, SubmissionInv, StoreTypeOK
<1>2. ASSUME NEW i \in WorkIds, MoveItem(i)  PROVE OwnershipInv'
  BY <1>2, <1>a DEF MoveItem, TransitionState, RunningLeftAlone, planeVars
<1>3. ASSUME NEW i \in WorkIds, Reappear(i)  PROVE OwnershipInv'
  BY <1>3, <1>a DEF Reappear, VisibilityTimeout, planeVars, columns
<1>4. ASSUME NEW w \in Planes, NEW i \in WorkIds, Receive(w, i)  PROVE OwnershipInv'
  BY <1>4, <1>a DEF Receive, columns
<1>5. ASSUME NEW w \in Planes, Claim(w)  PROVE OwnershipInv'
  BY <1>5, <1>a DEF Claim, Step, TransitionState
<1>6. ASSUME NEW w \in Planes, Start(w)  PROVE OwnershipInv'
  <2>1. cur[w] \in WorkIds
    BY <1>6, InHand DEF Start, Step, Resting
  <2>2. state[cur[w]] = "claimed" /\ state' = [state EXCEPT ![cur[w]] = "running"]
    BY <1>6 DEF Start, TransitionState
  <2>3. \A v \in Planes : ~ Executes(v, cur[w])
    BY <2>1, <2>2
  <2>4. cur' = cur /\ pc' = [pc EXCEPT ![w] = "creating"]
    BY <1>6 DEF Start, Step
  <2>. QED  BY <2>1, <2>2, <2>3, <2>4 DEF StoreInv, StoreTypeOK
<1>7. ASSUME NEW w \in Planes, CreateFocus(w) \/ RunFocus(w)  PROVE OwnershipInv'
  BY <1>7, <1>a DEF CreateFocus, RunFocus, Step, storeVars, columns
<1>8. ASSUME NEW w \in Planes, Complete(w) \/ Fail(w)  PROVE OwnershipInv'
  <2>1. cur[w] \in WorkIds /\ Executes(w, cur[w])
    BY <1>8, InHand DEF Complete, Fail, Step, Resting
  <2>2. \A v \in Planes : Executes(v, cur[w]) => v = w
    BY <2>1
  <2>3. cur' = cur /\ \A v \in Planes : pc'[v] \in Executing => pc[v] \in Executing /\ v # w
    BY <1>8 DEF Complete, Fail, Step
  <2>4. \A i \in WorkIds \ {cur[w]} : state'[i] = state[i]
    BY <1>8 DEF Complete, Fail, CompleteWork, FailWork, StoreInv, StoreTypeOK
  <2>. QED  BY <2>2, <2>3, <2>4
<1>9. ASSUME NEW w \in Planes,
             \/ Route(w) \/ ClaimMiss(w) \/ StartMiss(w) \/ CompleteMiss(w) \/ FailMiss(w)
             \/ Archive(w) \/ Cleanup(w) \/ CreateFocusFails(w) \/ CleanupFails(w) \/ Abandon(w)
      PROVE  OwnershipInv'
  BY <1>9, <1>a DEF Route, ClaimMiss, StartMiss, CompleteMiss, FailMiss, Archive, Cleanup,
     CreateFocusFails, CleanupFails, Abandon, Step, Return, storeVars, columns
<1>10. ASSUME NEW w \in Planes, Shutdown(w) \/ Stop(w) \/ Crash(w) \/ Restart(w)
       PROVE  OwnershipInv'
  BY <1>10, <1>a DEF Shutdown, Stop, Crash, Restart, storeVars, columns
<1>11. ASSUME UNCHANGED vars  PROVE OwnershipInv'
  BY <1>11, <1>a DEF vars, storeVars, planeVars, columns
<1>. QED
  BY <1>1, <1>2, <1>3, <1>4, <1>5, <1>6, <1>7, <1>8, <1>9, <1>10, <1>11 DEF Next, ProcessWork

THEOREM OwnershipHolds ==
  ASSUME RunningLeftAlone
  PROVE  Spec => []OwnershipInv
<1>1. Init => OwnershipInv
  BY DEF Init, OwnershipInv, FocusOwnsItem, AtMostOneFocus, Executes, Executing
<1>2. PlanesHold /\ StoreInv /\ OwnershipInv /\ [Next]_vars => OwnershipInv'
  BY OwnershipInvStep
<1>. QED  BY <1>1, <1>2, PlanesHoldAlways, PlanesKeepStoreInv, PTL DEF Spec

(* An item is executed by at most one focus at a time.                     *)
THEOREM OneFocus ==
  ASSUME RunningLeftAlone
  PROVE  Spec => []AtMostOneFocus
<1>1. OwnershipInv => AtMostOneFocus
  BY DEF OwnershipInv
<1>. QED  BY <1>1, OwnershipHolds, PTL

(* An executing plane still owns its item: its result will be stored.      *)
THEOREM FocusKeepsItem ==
  ASSUME RunningLeftAlone
  PROVE  Spec => []FocusOwnsItem
<1>1. OwnershipInv => FocusOwnsItem
  BY DEF OwnershipInv
<1>. QED  BY <1>1, OwnershipHolds, PTL

-----------------------------------------------------------------------------
(* The capacity counter                                                    *)

(* A plane on its way to a focus has passed the capacity check, and no one *)
(* else raises its counter.                                                *)
CapacityInv ==
  /\ faults \in Nat
  /\ active \in [Planes -> Nat]
  /\ ActiveCountsFoci
  /\ \A w \in Planes :
       pc[w] \in {"routing", "claiming", "starting", "creating"} => active[w] < MaxConcurrent

LEMMA CapacityInvStep ==
  ASSUME PlanesHold, CapacityInv, [Next]_vars
  PROVE  CapacityInv'
<1>. USE PlaneAssumption DEF PlanesHold, CapacityInv, ActiveCountsFoci, Step, Return, Fault
<1>1. ASSUME NEW i \in WorkIds, SubmitWork(i) \/ MoveItem(i) \/ Reappear(i)  PROVE CapacityInv'
  BY <1>1 DEF SubmitWork, MoveItem, Reappear, planeVars
<1>2. ASSUME NEW w \in Planes, NEW i \in WorkIds, Receive(w, i)  PROVE CapacityInv'
  BY <1>2 DEF Receive
<1>3. ASSUME NEW w \in Planes, Route(w) \/ Claim(w) \/ Start(w)  PROVE CapacityInv'
  BY <1>3 DEF Route, Claim, Start
<1>4. ASSUME NEW w \in Planes,
             ClaimMiss(w) \/ StartMiss(w) \/ CompleteMiss(w) \/ FailMiss(w) \/ Cleanup(w)
      PROVE  CapacityInv'
  BY <1>4 DEF ClaimMiss, StartMiss, CompleteMiss, FailMiss, Cleanup
<1>5. ASSUME NEW w \in Planes, CreateFocus(w)  PROVE CapacityInv'
  BY <1>5 DEF CreateFocus
<1>6. ASSUME NEW w \in Planes, RunFocus(w)  PROVE CapacityInv'
  BY <1>6 DEF RunFocus
<1>7. ASSUME NEW w \in Planes, Complete(w) \/ Archive(w) \/ Fail(w)  PROVE CapacityInv'
  BY <1>7 DEF Complete, Archive, Fail
<1>8. ASSUME NEW w \in Planes, CreateFocusFails(w)  PROVE CapacityInv'
  BY <1>8 DEF CreateFocusFails
<1>9. ASSUME NEW w \in Planes, CleanupFails(w) \/ Abandon(w)  PROVE CapacityInv'
  BY <1>9 DEF CleanupFails, Abandon
<1>10. ASSUME NEW w \in Planes, Shutdown(w) \/ Stop(w) \/ Restart(w)  PROVE CapacityInv'
  BY <1>10 DEF Shutdown, Stop, Restart
<1>11. ASSUME NEW w \in Planes, Crash(w)  PROVE CapacityInv'
  BY <1>11 DEF Crash
<1>12. ASSUME UNCHANGED vars  PROVE CapacityInv'
  BY <1>12 DEF vars, planeVars
<1>. QED
  BY <1>1, <1>2, <1>3, <1>4, <1>5, <1>6, <1>7, <1>8, <1>9, <1>10, <1>11, <1>12
     DEF Next, ProcessWork

LEMMA CapacityInvHolds == Spec => []CapacityInv
<1>1. Init => CapacityInv
  BY PlaneAssumption DEF Init, CapacityInv, ActiveCountsFoci
<1>2. PlanesHold /\ CapacityInv /\ [Next]_vars => CapacityInv'
  BY CapacityInvStep
<1>. QED  BY <1>1, <1>2, PlanesHoldAlways, PTL DEF Spec

(* active_foci is the number of running foci plus one per failure at most, *)
(* and never above max_concurrent.                                         *)
THEOREM CapacityHolds == Spec => []ActiveCountsFoci
<1>1. CapacityInv => ActiveCountsFoci
  BY DEF CapacityInv
<1>. QED  BY <1>1, CapacityInvHolds, PTL

-----------------------------------------------------------------------------
(* Focus directories, and type correctness                                 *)

UsesDir == {w \in Planes : pc[w] \in HasDir}

DirsInv ==
  /\ dirs \in Nat
  /\ Cardinality(UsesDir) <= dirs
  /\ RunningLeftAlone => dirs <= Cardinality(UsesDir) + faults

LEMMA UsesDirFinite == IsFiniteSet(UsesDir) /\ Cardinality(UsesDir) \in Nat
BY PlaneAssumption, FS_Subset, FS_CardinalityType DEF UsesDir

(* A plane that gives up its use of a directory leaves one user fewer.     *)
LEMMA UserLeaves ==
  ASSUME NEW w \in UsesDir, UsesDir' = UsesDir \ {w}
  PROVE  Cardinality(UsesDir)' = Cardinality(UsesDir) - 1 /\ Cardinality(UsesDir) >= 1
<1>1. Cardinality(UsesDir)' = Cardinality(UsesDir) - 1
  BY UsesDirFinite, FS_RemoveElement
<1>2. Cardinality(UsesDir) # 0
  BY UsesDirFinite, FS_EmptySet
<1>. QED  BY <1>1, <1>2, UsesDirFinite

LEMMA DirsInvStep ==
  ASSUME PlanesHold, OwnershipInv \/ ~RunningLeftAlone, faults \in Nat, DirsInv, [Next]_vars
  PROVE  DirsInv'
<1>. USE UsesDirFinite DEF DirsInv
<1>. USE DEF PlanesHold, HasDir
<1>a. ASSUME UsesDir' = UsesDir, dirs' = dirs, faults' \in {faults, faults + 1}
      PROVE  DirsInv'
  BY <1>a
<1>b. ASSUME NEW w \in UsesDir, UsesDir' = UsesDir \ {w}, dirs' = dirs, faults' = faults + 1
      PROVE  DirsInv'
  <2>1. Cardinality(UsesDir)' = Cardinality(UsesDir) - 1
    BY <1>b, UserLeaves
  <2>. QED  BY <1>b, <2>1
<1>1. ASSUME NEW i \in WorkIds, SubmitWork(i) \/ MoveItem(i) \/ Reappear(i)  PROVE DirsInv'
  BY <1>1, <1>a DEF SubmitWork, MoveItem, Reappear, planeVars, UsesDir
<1>2. ASSUME NEW w \in Planes, NEW i \in WorkIds, Receive(w, i)  PROVE DirsInv'
  BY <1>2, <1>a DEF Receive, UsesDir
<1>3. ASSUME NEW w \in Planes,
             \/ Route(w) \/ Claim(w) \/ ClaimMiss(w) \/ Start(w) \/ StartMiss(w) \/ RunFocus(w)
             \/ Complete(w) \/ Archive(w) \/ Fail(w)
      PROVE  DirsInv'
  BY <1>3, <1>a DEF Route, Claim, ClaimMiss, Start, StartMiss, RunFocus, Complete, Archive,
     Fail, Step, Return, UsesDir
<1>4. ASSUME NEW w \in Planes, CreateFocus(w)  PROVE DirsInv'
  <2>1. w \notin UsesDir /\ UsesDir' = UsesDir \cup {w}
    BY <1>4 DEF CreateFocus, Step, UsesDir
  <2>2. Cardinality(UsesDir)' = Cardinality(UsesDir) + 1
    BY <2>1, FS_AddElement
  <2>. QED  BY <1>4, <2>2 DEF CreateFocus
<1>5. ASSUME NEW w \in Planes, CompleteMiss(w) \/ FailMiss(w)  PROVE DirsInv'
  <2>1. w \in UsesDir /\ UsesDir' = UsesDir \ {w} /\ dirs' = dirs
    BY <1>5 DEF CompleteMiss, FailMiss, Return, UsesDir
  <2>2. Cardinality(UsesDir)' = Cardinality(UsesDir) - 1
    BY <2>1, UserLeaves
  <2>3. ~ RunningLeftAlone
    BY <1>5, InHand DEF CompleteMiss, FailMiss, Return, OwnershipInv, FocusOwnsItem, Executes,
       Executing, Resting
  <2>. QED  BY <2>1, <2>2, <2>3
<1>6. ASSUME NEW w \in Planes, Cleanup(w)  PROVE DirsInv'
  <2>1. w \in UsesDir /\ UsesDir' = UsesDir \ {w}
    BY <1>6 DEF Cleanup, Return, UsesDir
  <2>2. Cardinality(UsesDir)' = Cardinality(UsesDir) - 1 /\ Cardinality(UsesDir) >= 1
    BY <2>1, UserLeaves
  <2>3. dirs' = dirs - 1 /\ faults' = faults
    BY <1>6 DEF Cleanup
  <2>. QED  BY <2>2, <2>3
<1>7. ASSUME NEW w \in Planes, CreateFocusFails(w)  PROVE DirsInv'
  <2>1. UsesDir' = UsesDir
    BY <1>7 DEF CreateFocusFails, Return, UsesDir
  <2>. QED  BY <1>7, <2>1 DEF CreateFocusFails, Fault
<1>8. ASSUME NEW w \in Planes, CleanupFails(w) \/ Abandon(w) \/ Crash(w)  PROVE DirsInv'
  <2>1. /\ UsesDir' = UsesDir \ {w}
        /\ dirs' = dirs /\ faults' = faults + 1
    BY <1>8 DEF CleanupFails, Abandon, Crash, Fault, Return, UsesDir
  <2>2. CASE w \in UsesDir
    BY <2>1, <2>2, <1>b
  <2>3. CASE w \notin UsesDir
    BY <2>1, <2>3, <1>a
  <2>. QED  BY <2>2, <2>3
<1>9. ASSUME NEW w \in Planes, Shutdown(w) \/ Stop(w) \/ Restart(w)  PROVE DirsInv'
  BY <1>9, <1>a DEF Shutdown, Stop, Restart, UsesDir
<1>10. ASSUME UNCHANGED vars  PROVE DirsInv'
  BY <1>10, <1>a DEF vars, planeVars, UsesDir
<1>. QED
  BY <1>1, <1>2, <1>3, <1>4, <1>5, <1>6, <1>7, <1>8, <1>9, <1>10 DEF Next, ProcessWork

LEMMA InitDirs == Init => DirsInv
<1>1. Init => UsesDir = {}
  BY DEF Init, UsesDir, HasDir
<1>2. Init => Cardinality(UsesDir) = 0
  BY <1>1, FS_EmptySet
<1>. QED  BY <1>2 DEF Init, DirsInv

LEMMA DirsInvHolds == Spec => []DirsInv
<1>1. PlanesHold /\ CapacityInv /\ (OwnershipInv \/ ~RunningLeftAlone) /\ DirsInv /\ [Next]_vars
        => DirsInv'
  BY DirsInvStep DEF CapacityInv
<1>2. CASE RunningLeftAlone
  <2>1. Spec => []OwnershipInv
    BY <1>2, OwnershipHolds
  <2>. QED
    BY <1>1, <2>1, InitDirs, PlanesHoldAlways, CapacityInvHolds, PTL DEF Spec
<1>3. CASE ~RunningLeftAlone
  <2>1. PlanesHold /\ CapacityInv /\ DirsInv /\ [Next]_vars => DirsInv'
    BY <1>1, <1>3
  <2>. QED
    BY <2>1, InitDirs, PlanesHoldAlways, CapacityInvHolds, PTL DEF Spec
<1>. QED  BY <1>2, <1>3

(* Every focus directory is in use or the leftover of one failure.         *)
THEOREM DirsAccountedFor ==
  ASSUME RunningLeftAlone
  PROVE  Spec => []OneDirPerFault
<1>1. DirsInv => OneDirPerFault
  BY DEF DirsInv, OneDirPerFault, UsesDir
<1>. QED  BY <1>1, DirsInvHolds, PTL

(* Type correctness of planes and store.                                   *)
THEOREM TypeCorrect == Spec => []TypeOK
<1>1. StoreInv /\ PlanesHold /\ CapacityInv /\ DirsInv => TypeOK
  BY DEF TypeOK, PlaneTypeOK, StoreInv, PlanesHold, CapacityInv, DirsInv
<1>. QED  BY <1>1, PlanesKeepStoreInv, PlanesHoldAlways, CapacityInvHolds, DirsInvHolds, PTL

-----------------------------------------------------------------------------
(* What is stranded stays                                                  *)

(* The compare-and-set statements of a plane name states an item that is   *)
(* stranded or failed does not have, or the plane itself has it in hand.   *)
LEMMA StrandedStep ==
  ASSUME PlanesHold, StoreInv, [Next]_vars,
         NEW i \in WorkIds, Stranded(i) \/ state[i] = "failed", state'[i] # state[i]
  PROVE  <<state[i], state'[i]>> \in ClientMoves
<1>. USE DEF Stranded, StoreInv
<1>1. ASSUME NEW j \in WorkIds, SubmitWork(j)  PROVE FALSE
  <2>1. UNCHANGED state \/ MergeCommit(j) \/ QueueCommit(j)
    BY <1>1 DEF SubmitWork, Submit, SubmitStep, Begin, InsertRow, InsertConflict, SelectCanonical,
       CanonicalGone, Reply, SubmitFails, columns
  <2>2. MergeCommit(j) \/ QueueCommit(j) => state[j] = "absent"
    BY DEF MergeCommit, QueueCommit, At, SubmissionInv
  <2>3. MergeCommit(j) \/ QueueCommit(j) => \A k \in WorkIds \ {j} : state'[k] = state[k]
    BY DEF MergeCommit, QueueCommit, StoreTypeOK
  <2>. QED  BY <2>1, <2>2, <2>3
<1>2. ASSUME NEW j \in WorkIds, MoveItem(j)
      PROVE  <<state[i], state'[i]>> \in ClientMoves
  <2>1. PICK m \in ClientMoves : TransitionState(j, m[1], m[2])
    BY <1>2 DEF MoveItem
  <2>2. m = <<m[1], m[2]>>
    BY PlaneAssumption DEF Transitions
  <2>3. state[j] = m[1] /\ state' = [state EXCEPT ![j] = m[2]]
    BY <2>1 DEF TransitionState
  <2>4. i = j /\ state'[i] = m[2]
    BY <2>3 DEF StoreTypeOK
  <2>. QED  BY <2>2, <2>3, <2>4
<1>3. ASSUME NEW w \in Planes, Claim(w) \/ Start(w) \/ Complete(w) \/ Fail(w)  PROVE FALSE
  <2>1. cur[w] \in WorkIds
    BY <1>3, InHand DEF Claim, Start, Complete, Fail, Step, Resting
  <2>2. \A k \in WorkIds \ {cur[w]} : state'[k] = state[k]
    BY <1>3 DEF Claim, Start, Complete, Fail, TransitionState, CompleteWork, FailWork,
       StoreTypeOK
  <2>3. i = cur[w]
    BY <2>2
  <2>4. CASE Claim(w)
    BY <2>3, <2>4 DEF Claim, TransitionState
  <2>5. CASE Start(w) \/ Complete(w) \/ Fail(w)
    <3>1. pc[w] \in Executing \cup {"starting"} /\ state[cur[w]] \in {"claimed", "running"}
      BY <2>5 DEF Start, Complete, Fail, Step, Executing, TransitionState, CompleteWork, FailWork
    <3>. QED  BY <2>3, <3>1
  <2>. QED  BY <1>3, <2>4, <2>5
<1>4. ASSUME \/ \E j \in WorkIds : Reappear(j)
             \/ \E w \in Planes, j \in WorkIds : Receive(w, j)
             \/ \E w \in Planes :
                  \/ Route(w) \/ ClaimMiss(w) \/ StartMiss(w) \/ CreateFocus(w) \/ RunFocus(w)
                  \/ CompleteMiss(w) \/ Archive(w) \/ FailMiss(w) \/ Cleanup(w)
                  \/ CreateFocusFails(w) \/ CleanupFails(w) \/ Abandon(w)
                  \/ Shutdown(w) \/ Stop(w) \/ Crash(w) \/ Restart(w)
             \/ UNCHANGED vars
      PROVE  FALSE
  BY <1>4 DEF Reappear, VisibilityTimeout, Receive, Route, ClaimMiss, StartMiss, CreateFocus,
     RunFocus, CompleteMiss, Archive, FailMiss, Cleanup, CreateFocusFails, CleanupFails, Abandon,
     Shutdown, Stop, Crash, Restart, vars, storeVars, columns
<1>. QED  BY <1>1, <1>2, <1>3, <1>4 DEF Next, ProcessWork

(* No redelivery, poll, restart or submission takes up an item that is     *)
(* stranded or has failed: only a client's own transition does.            *)
THEOREM OnlyClientsRescue == Spec => StrandedStays
<1>1. PlanesHold /\ StoreInv /\ [Next]_vars =>
        [\A i \in WorkIds :
           (Stranded(i) \/ state[i] = "failed") /\ state'[i] # state[i]
             => <<state[i], state'[i]>> \in ClientMoves]_vars
  BY StrandedStep
<1>. QED  BY <1>1, PlanesHoldAlways, PlanesKeepStoreInv, PTL DEF Spec, StrandedStays

-----------------------------------------------------------------------------
(* The engine implements WorkOnce                                          *)

(* Steps that show nothing: the rows and executions stay what they are.    *)
LEMMA Stutters ==
  ASSUME UNCHANGED <<request, merged_into>>,
         \A i \in WorkIds : PhaseOf'[i] = PhaseOf[i],
         \A w \in Planes, i \in WorkIds : Executes(w, i)' <=> Executes(w, i)
  PROVE  UNCHANGED Promise!vars
<1>1. SlotOf' = SlotOf
  BY DEF SlotOf, Keyed
<1>2. PhaseOf' = PhaseOf
  BY DEF PhaseOf
<1>3. ExecutorsOf' = ExecutorsOf
  BY DEF ExecutorsOf
<1>. QED  BY <1>1, <1>2, <1>3 DEF Promise!vars

(* Submitting is accepting, attaching or nothing yet.                      *)
LEMMA SubmitMaps ==
  ASSUME PlanesHold, StoreInv, NEW i \in WorkIds, SubmitWork(i)
  PROVE  [Promise!Next]_Promise!vars
<1>. USE DEF StoreInv, At, Goto
<1>e. \A w \in Planes, j \in WorkIds : Executes(w, j)' <=> Executes(w, j)
  BY DEF SubmitWork, planeVars, Executes
<1>x. ExecutorsOf' = ExecutorsOf
  BY <1>e DEF ExecutorsOf
<1>r. UNCHANGED request
  BY DEF SubmitWork, Submit, SubmitStep, Begin, InsertRow, InsertConflict, SelectCanonical,
     CanonicalGone, MergeCommit, QueueCommit, Reply, SubmitFails
<1>s. SlotOf' = SlotOf
  BY <1>r DEF SlotOf, Keyed
<1>1. CASE QueueCommit(i)
  <2>1. state[i] = "absent" /\ state' = [state EXCEPT ![i] = "queued"] /\ UNCHANGED merged_into
    BY <1>1 DEF QueueCommit, SubmissionInv
  <2>2. PhaseOf[i] = "unknown" /\ PhaseOf' = [PhaseOf EXCEPT ![i] = "pending"]
    BY <2>1 DEF PhaseOf, StoreTypeOK
  <2>3. ASSUME NEW j \in WorkIds, Promise!Duplicates(i, j)  PROVE PhaseOf[j] \notin Promise!Live
    <3>1. i # j => SameSlot(i, j)
      BY <2>3, RequestAssumption DEF Promise!Duplicates, SlotOf, SameSlot, StoreTypeOK
    <3>2. i # j => ~ Active(j)
      BY <1>1, <3>1 DEF QueueCommit, DedupUnique, Occupies
    <3>. QED
      BY <2>2, <3>2 DEF Promise!Live, PhaseOf, Active, Indexed, States, StoreTypeOK
  <2>4. Promise!Accept(i)
    BY <1>s, <1>x, <2>1, <2>2, <2>3 DEF Promise!Accept
  <2>. QED  BY <2>4 DEF Promise!Next
<1>2. CASE MergeCommit(i)
  <2>1. state[i] = "absent" /\ state' = [state EXCEPT ![i] = "merged"]
    BY <1>2 DEF MergeCommit, SubmissionInv
  <2>2. PhaseOf[i] = "unknown" /\ PhaseOf' = [PhaseOf EXCEPT ![i] = "duplicate"]
    BY <2>1 DEF PhaseOf, StoreTypeOK
  <2>3. canonical[i] \in WorkIds \ {i} /\ SameSlot(i, canonical[i]) /\ Original(canonical[i])
    BY <1>2, <2>1 DEF MergeCommit, SubmissionInv, Original
  <2>4. Promise!Duplicates(i, canonical[i])
    BY <2>3, RequestAssumption DEF Promise!Duplicates, SlotOf, SameSlot, Keyed, StoreTypeOK
  <2>5. PhaseOf[canonical[i]] \notin {"unknown", "duplicate"}
    BY <2>3 DEF PhaseOf, Original, StoreTypeOK, States
  <2>6. merged_into' = [merged_into EXCEPT ![i] = canonical[i]]
    BY <1>2 DEF MergeCommit
  <2>7. Promise!Attach(i)
    BY <1>s, <1>x, <2>2, <2>3, <2>4, <2>5, <2>6 DEF Promise!Attach
  <2>. QED  BY <2>7 DEF Promise!Next
<1>3. CASE UNCHANGED columns
  <2>1. UNCHANGED <<state, merged_into>>
    BY <1>3 DEF columns
  <2>2. \A j \in WorkIds : PhaseOf'[j] = PhaseOf[j]
    BY <2>1 DEF PhaseOf
  <2>. QED  BY <1>e, <1>r, <2>1, <2>2, Stutters
<1>. QED
  BY <1>1, <1>2, <1>3 DEF SubmitWork, Submit, SubmitStep, Begin, InsertRow, InsertConflict,
     SelectCanonical, CanonicalGone, Reply, SubmitFails

(* A client that requeues shows nothing or retries; one that cancels drops. *)
LEMMA MoveMaps ==
  ASSUME RunningLeftAlone, StoreInv, NEW i \in WorkIds, MoveItem(i)
  PROVE  [Promise!Next]_Promise!vars
<1>. USE DEF StoreInv
<1>1. PICK m \in ClientMoves : TransitionState(i, m[1], m[2])
  BY DEF MoveItem
<1>2. <<m[1], m[2]>> \in {<<"queued", "claimed">>, <<"queued", "dead">>, <<"claimed", "queued">>,
                          <<"failed", "queued">>, <<"failed", "dead">>}
  BY <1>1, TransitionFacts DEF TransitionState, CanTransitionTo, Transitions, RunningLeftAlone
<1>3. state[i] = m[1] /\ state' = [state EXCEPT ![i] = m[2]]
  BY <1>1 DEF TransitionState
<1>4. UNCHANGED <<request, merged_into, pc, cur>>
  BY <1>1 DEF MoveItem, TransitionState, submissions, planeVars
<1>5. SlotOf' = SlotOf /\ ExecutorsOf' = ExecutorsOf
  BY <1>4 DEF SlotOf, Keyed, ExecutorsOf, Executes
<1>6. CASE m[1] \in {"queued", "claimed"} /\ m[2] \in {"queued", "claimed"}
  <2>1. PhaseOf' = PhaseOf
    BY <1>3, <1>6 DEF PhaseOf, StoreTypeOK
  <2>. QED  BY <1>4, <1>5, <2>1 DEF Promise!vars
<1>7. CASE m[1] = "failed" /\ m[2] = "queued"
  <2>1. PhaseOf[i] = "failed" /\ PhaseOf' = [PhaseOf EXCEPT ![i] = "pending"]
    BY <1>3, <1>7 DEF PhaseOf, StoreTypeOK
  <2>2. Promise!Retry(i)
    BY <1>4, <1>5, <2>1 DEF Promise!Retry
  <2>. QED  BY <2>2 DEF Promise!Next
<1>8. CASE m[1] \in {"queued", "failed"} /\ m[2] = "dead"
  <2>1. PhaseOf[i] \in {"pending", "failed"} /\ PhaseOf' = [PhaseOf EXCEPT ![i] = "dropped"]
    BY <1>3, <1>8 DEF PhaseOf, StoreTypeOK
  <2>2. Promise!Drop(i)
    BY <1>4, <1>5, <2>1 DEF Promise!Drop
  <2>. QED  BY <2>2 DEF Promise!Next
<1>. QED  BY <1>2, <1>6, <1>7, <1>8

(* The second compare-and-set begins the work.                             *)
LEMMA StartMaps ==
  ASSUME PlanesHold, StoreInv, OwnershipInv, NEW w \in Planes, Start(w)
  PROVE  Promise!Next
<1>. USE DEF PlanesHold, StoreInv
<1>0. PICK i \in WorkIds : i = cur[w]
  BY InHand DEF Start, Step, Resting
<1>1. /\ state[i] = "claimed" /\ state' = [state EXCEPT ![i] = "running"]
      /\ pc' = [pc EXCEPT ![w] = "creating"] /\ pc[w] = "starting"
      /\ UNCHANGED <<cur, request, merged_into>>
  BY <1>0 DEF Start, Step, TransitionState, submissions
<1>2. PhaseOf[i] = "pending" /\ PhaseOf' = [PhaseOf EXCEPT ![i] = "executing"]
  BY <1>1 DEF PhaseOf, StoreTypeOK
<1>3. \A v \in Planes : ~ Executes(v, i)
  BY <1>1 DEF OwnershipInv, FocusOwnsItem
<1>4. ExecutorsOf[i] = {}
  BY <1>3 DEF ExecutorsOf
<1>5. \A v \in Planes, j \in WorkIds :
        Executes(v, j)' <=> Executes(v, j) \/ (v = w /\ j = i)
  BY <1>0, <1>1 DEF Executes, Executing
<1>6. ExecutorsOf' = [ExecutorsOf EXCEPT ![i] = {w}]
  <2>1. {v \in Planes : Executes(v, i)}' = {w}
    BY <1>3, <1>5
  <2>2. \A j \in WorkIds \ {i} :
          {v \in Planes : Executes(v, j)}' = {v \in Planes : Executes(v, j)}
    BY <1>5
  <2>. QED  BY <2>1, <2>2 DEF ExecutorsOf
<1>7. SlotOf' = SlotOf
  BY <1>1 DEF SlotOf, Keyed
<1>8. Promise!Begin(i, w)
  BY <1>1, <1>2, <1>4, <1>6, <1>7 DEF Promise!Begin
<1>. QED  BY <1>8 DEF Promise!Next

(* A plane that stops executing leaves its item without an executor.       *)
LEMMA Leaves ==
  ASSUME PlanesHold, OwnershipInv, NEW w \in Planes, pc[w] \in Executing,
         pc'[w] \notin Executing,
         \A v \in Planes \ {w} : pc'[v] = pc[v] /\ cur'[v] = cur[v]
  PROVE  /\ cur[w] \in WorkIds
         /\ ExecutorsOf[cur[w]] = {w}
         /\ ExecutorsOf' = [ExecutorsOf EXCEPT ![cur[w]] = {}]
<1>1. cur[w] \in WorkIds /\ Executes(w, cur[w])
  BY InHand DEF Executes, Executing, Resting
<1>2. \A v \in Planes : Executes(v, cur[w]) => v = w
  BY <1>1 DEF OwnershipInv, AtMostOneFocus
<1>3. ExecutorsOf[cur[w]] = {w}
  BY <1>1, <1>2 DEF ExecutorsOf
<1>4. \A v \in Planes, j \in WorkIds : Executes(v, j)' <=> Executes(v, j) /\ v # w
  BY DEF Executes
<1>5. \A v \in Planes, j \in WorkIds : Executes(v, j) /\ v = w => j = cur[w]
  BY DEF Executes
<1>6. ExecutorsOf' = [ExecutorsOf EXCEPT ![cur[w]] = {}]
  BY <1>1, <1>2, <1>4, <1>5 DEF ExecutorsOf
<1>. QED  BY <1>1, <1>3, <1>6

(* complete_work and fail_work settle the work, by its only executor.      *)
LEMMA RetireMaps ==
  ASSUME PlanesHold, StoreInv, OwnershipInv, NEW w \in Planes, Complete(w) \/ Fail(w)
  PROVE  Promise!Next
<1>. USE DEF PlanesHold, StoreInv
<1>0. PICK i \in WorkIds : i = cur[w]
  BY InHand DEF Complete, Fail, Step, Resting
<1>1. PICK r \in {"completed", "failed"} :
        state[i] = "running" /\ state' = [state EXCEPT ![i] = r]
  BY <1>0 DEF Complete, Fail, CompleteWork, FailWork
<1>2. UNCHANGED <<cur, request, merged_into>>
  BY DEF Complete, Fail, Step, CompleteWork, FailWork, submissions
<1>3. pc[w] \in Executing /\ pc'[w] \notin Executing /\ \A v \in Planes \ {w} : pc'[v] = pc[v]
  BY DEF Complete, Fail, Step, Executing
<1>4. ExecutorsOf[i] = {w} /\ ExecutorsOf' = [ExecutorsOf EXCEPT ![i] = {}]
  BY <1>0, <1>2, <1>3, Leaves
<1>5. PhaseOf[i] = "executing" /\ PhaseOf' = [PhaseOf EXCEPT ![i] = r]
  BY <1>1 DEF PhaseOf, StoreTypeOK
<1>6. SlotOf' = SlotOf
  BY <1>2 DEF SlotOf, Keyed
<1>7. Promise!Settle(i, w)
  BY <1>1, <1>2, <1>4, <1>5, <1>6 DEF Promise!Settle
<1>. QED  BY <1>7 DEF Promise!Next

(* A plane that gives up or crashes vanishes, if it was executing.         *)
LEMMA GivingUpMaps ==
  ASSUME PlanesHold, OwnershipInv, NEW w \in Planes,
         pc'[w] \notin Executing,
         \A v \in Planes \ {w} : pc'[v] = pc[v] /\ cur'[v] = cur[v],
         UNCHANGED storeVars
  PROVE  [Promise!Next]_Promise!vars
<1>1. PhaseOf' = PhaseOf /\ SlotOf' = SlotOf /\ merged_into' = merged_into
  BY DEF storeVars, columns, PhaseOf, SlotOf, Keyed
<1>2. CASE pc[w] \in Executing
  <2>1. Promise!Vanish(cur[w], w)
    BY <1>1, <1>2, Leaves DEF Promise!Vanish
  <2>. QED  BY <1>2, <2>1, Leaves DEF Promise!Next
<1>3. CASE pc[w] \notin Executing
  <2>1. \A v \in Planes, j \in WorkIds : Executes(v, j)' <=> Executes(v, j)
    BY <1>3 DEF Executes
  <2>2. ExecutorsOf' = ExecutorsOf
    BY <2>1 DEF ExecutorsOf
  <2>. QED  BY <1>1, <2>2 DEF Promise!vars
<1>. QED  BY <1>2, <1>3

LEMMA PromiseStep ==
  ASSUME RunningLeftAlone, PlanesHold, StoreInv, OwnershipInv, [Next]_vars
  PROVE  [Promise!Next]_Promise!vars
<1>. USE DEF PlanesHold
<1>1. ASSUME NEW i \in WorkIds, SubmitWork(i) \/ MoveItem(i)
      PROVE  [Promise!Next]_Promise!vars
  BY <1>1, SubmitMaps, MoveMaps
<1>2. ASSUME NEW w \in Planes, Start(w) \/ Complete(w) \/ Fail(w)
      PROVE  [Promise!Next]_Promise!vars
  BY <1>2, StartMaps, RetireMaps
<1>3. ASSUME NEW w \in Planes,
             \/ ClaimMiss(w) \/ StartMiss(w) \/ CompleteMiss(w) \/ FailMiss(w) \/ Cleanup(w)
             \/ CreateFocusFails(w) \/ CleanupFails(w) \/ Abandon(w) \/ Crash(w)
      PROVE  [Promise!Next]_Promise!vars
  <2>1. /\ pc'[w] \notin Executing
        /\ \A v \in Planes \ {w} : pc'[v] = pc[v] /\ cur'[v] = cur[v]
    BY <1>3 DEF ClaimMiss, StartMiss, CompleteMiss, FailMiss, Cleanup, CreateFocusFails,
       CleanupFails, Abandon, Crash, Return, Executing
  <2>2. UNCHANGED storeVars
    BY <1>3 DEF ClaimMiss, StartMiss, CompleteMiss, FailMiss, Cleanup, CreateFocusFails,
       CleanupFails, Abandon, Crash
  <2>. QED  BY <2>1, <2>2, GivingUpMaps
<1>4. ASSUME NEW w \in Planes, Claim(w)  PROVE [Promise!Next]_Promise!vars
  <2>1. \A i \in WorkIds : PhaseOf'[i] = PhaseOf[i]
    BY <1>4 DEF Claim, TransitionState, PhaseOf, StoreInv, StoreTypeOK
  <2>2. \A v \in Planes, i \in WorkIds : Executes(v, i)' <=> Executes(v, i)
    BY <1>4 DEF Claim, Step, Executes, Executing
  <2>. QED  BY <1>4, <2>1, <2>2, Stutters DEF Claim, TransitionState, submissions
<1>5. ASSUME \/ \E i \in WorkIds : Reappear(i)
             \/ \E w \in Planes, i \in WorkIds : Receive(w, i)
             \/ \E w \in Planes :
                  \/ Route(w) \/ CreateFocus(w) \/ RunFocus(w) \/ Archive(w)
                  \/ Shutdown(w) \/ Stop(w) \/ Restart(w)
             \/ UNCHANGED vars
      PROVE  [Promise!Next]_Promise!vars
  <2>1. UNCHANGED <<state, request, merged_into>>
    BY <1>5 DEF Reappear, VisibilityTimeout, Receive, Route, CreateFocus, RunFocus, Archive,
       Shutdown, Stop, Restart, vars, storeVars, columns, submissions
  <2>2. \A i \in WorkIds : PhaseOf'[i] = PhaseOf[i]
    BY <2>1 DEF PhaseOf
  <2>3. \A v \in Planes, i \in WorkIds : Executes(v, i)' <=> Executes(v, i)
    BY <1>5 DEF Reappear, Receive, Route, CreateFocus, RunFocus, Archive, Shutdown, Stop,
       Restart, Step, Return, vars, planeVars, Executes, Executing
  <2>. QED  BY <2>1, <2>2, <2>3, Stutters
<1>. QED  BY <1>1, <1>2, <1>3, <1>4, <1>5 DEF Next, ProcessWork

(* The table, the queue and the planes together keep the work-once promise *)
(* of DESIGN.md: every behaviour is one of WorkOnce under the mapping.     *)
THEOREM EngineKeepsPromise ==
  ASSUME RunningLeftAlone
  PROVE  Spec => ImplementsWorkOnce
<1>1. Init => Promise!Init
  <2>. SUFFICES ASSUME Init  PROVE Promise!Init
    OBVIOUS
  <2>1. SlotOf \in [WorkIds -> Requests \cup {NoKey}]
    BY DEF Init, StoreInit, SlotOf
  <2>2. PhaseOf = [i \in WorkIds |-> "unknown"]
    BY DEF Init, StoreInit, PhaseOf
  <2>3. ExecutorsOf = [i \in WorkIds |-> {}]
    BY DEF Init, ExecutorsOf, Executes, Executing
  <2>. QED  BY <2>1, <2>2, <2>3 DEF Init, StoreInit, Promise!Init
<1>2. PlanesHold /\ StoreInv /\ OwnershipInv /\ [Next]_vars => [Promise!Next]_Promise!vars
  BY PromiseStep
<1>. QED
  BY <1>1, <1>2, PlanesHoldAlways, PlanesKeepStoreInv, OwnershipHolds, PTL
     DEF Spec, ImplementsWorkOnce, Promise!Spec
=============================================================================
