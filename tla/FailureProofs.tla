---------------------------- MODULE FailureProofs ----------------------------
(***************************************************************************)
(* Proofs about what failures leave behind: the outcome columns of items   *)
(* that failed and were retried, the items that planes leave stranded, and *)
(* the attempts that a retry is told of in work.json, for any number of    *)
(* planes, items and faults.                                               *)
(***************************************************************************)
EXTENDS WorkJson, ControlPlaneProofs

(* The statements that write the columns of an item, one item each.        *)
LEMMA RowStep ==
  ASSUME RunningLeftAlone, PlanesHold, StoreInv, [Next]_vars
  PROVE  \/ UNCHANGED <<state, attempts, outcome>>
         \/ \E i \in WorkIds :
              \/ /\ state[i] = "absent" /\ UNCHANGED <<attempts, outcome>>
                 /\ \E s \in {"queued", "merged"} : state' = [state EXCEPT ![i] = s]
              \/ /\ UNCHANGED <<attempts, outcome>>
                 /\ \E m \in ClientMoves : /\ <<m[1], m[2]>> \in Transitions
                                           /\ state[i] = m[1]
                                           /\ state' = [state EXCEPT ![i] = m[2]]
         \/ \E w \in Planes :
              \/ /\ Claim(w) /\ UNCHANGED <<attempts, outcome>>
                 /\ state[cur[w]] = "queued" /\ state' = [state EXCEPT ![cur[w]] = "claimed"]
              \/ /\ Start(w) /\ UNCHANGED outcome
                 /\ attempts' = [attempts EXCEPT ![cur[w]] = @ + 1]
                 /\ state[cur[w]] = "claimed" /\ state' = [state EXCEPT ![cur[w]] = "running"]
              \/ /\ Complete(w) /\ UNCHANGED attempts
                 /\ outcome' = [outcome EXCEPT ![cur[w]] = {"data"}]
                 /\ state[cur[w]] = "running" /\ state' = [state EXCEPT ![cur[w]] = "completed"]
              \/ /\ Fail(w) /\ UNCHANGED attempts
                 /\ outcome' = [outcome EXCEPT ![cur[w]] = @ \cup {"error"}]
                 /\ state[cur[w]] = "running" /\ state' = [state EXCEPT ![cur[w]] = "failed"]
<1>. USE DEF StoreInv
<1>1. ASSUME NEW i \in WorkIds, SubmitWork(i)
      PROVE  \/ UNCHANGED <<state, attempts, outcome>>
             \/ /\ state[i] = "absent" /\ UNCHANGED <<attempts, outcome>>
                /\ \E s \in {"queued", "merged"} : state' = [state EXCEPT ![i] = s]
  BY <1>1 DEF SubmitWork, Submit, SubmitStep, Begin, InsertRow, InsertConflict, SelectCanonical,
     CanonicalGone, MergeCommit, QueueCommit, Reply, SubmitFails, At, SubmissionInv, columns
<1>2. ASSUME NEW i \in WorkIds, MoveItem(i)
      PROVE  /\ UNCHANGED <<attempts, outcome>>
             /\ \E m \in ClientMoves : /\ <<m[1], m[2]>> \in Transitions
                                       /\ state[i] = m[1]
                                       /\ state' = [state EXCEPT ![i] = m[2]]
  <2>1. PICK m \in ClientMoves : TransitionState(i, m[1], m[2])
    BY <1>2 DEF MoveItem
  <2>2. attempts' = [attempts EXCEPT ![i] = @]
    BY <2>1 DEF TransitionState, RunningLeftAlone
  <2>3. attempts' = attempts
    BY <2>2 DEF StoreTypeOK
  <2>. QED  BY <2>1, <2>3 DEF TransitionState, CanTransitionTo
<1>3. ASSUME NEW w \in Planes, Claim(w)
      PROVE  /\ UNCHANGED <<attempts, outcome>>
             /\ state[cur[w]] = "queued" /\ state' = [state EXCEPT ![cur[w]] = "claimed"]
  BY <1>3 DEF Claim, TransitionState, StoreTypeOK
<1>4. ASSUME NEW w \in Planes, Start(w)
      PROVE  /\ UNCHANGED outcome /\ attempts' = [attempts EXCEPT ![cur[w]] = @ + 1]
             /\ state[cur[w]] = "claimed" /\ state' = [state EXCEPT ![cur[w]] = "running"]
  BY <1>4 DEF Start, TransitionState
<1>5. ASSUME NEW w \in Planes, Complete(w)
      PROVE  /\ UNCHANGED attempts /\ outcome' = [outcome EXCEPT ![cur[w]] = {"data"}]
             /\ state[cur[w]] = "running" /\ state' = [state EXCEPT ![cur[w]] = "completed"]
  BY <1>5 DEF Complete, CompleteWork
<1>6. ASSUME NEW w \in Planes, Fail(w)
      PROVE  /\ UNCHANGED attempts /\ outcome' = [outcome EXCEPT ![cur[w]] = @ \cup {"error"}]
             /\ state[cur[w]] = "running" /\ state' = [state EXCEPT ![cur[w]] = "failed"]
  BY <1>6 DEF Fail, FailWork
<1>7. ASSUME \/ \E i \in WorkIds : Reappear(i)
             \/ \E w \in Planes, i \in WorkIds : Receive(w, i)
             \/ \E w \in Planes :
                  \/ Route(w) \/ ClaimMiss(w) \/ StartMiss(w) \/ CreateFocus(w) \/ RunFocus(w)
                  \/ CompleteMiss(w) \/ Archive(w) \/ FailMiss(w) \/ Cleanup(w)
                  \/ CreateFocusFails(w) \/ CleanupFails(w) \/ Abandon(w)
                  \/ Shutdown(w) \/ Stop(w) \/ Crash(w) \/ Restart(w)
             \/ UNCHANGED vars
      PROVE  UNCHANGED <<state, attempts, outcome>>
  BY <1>7 DEF Reappear, VisibilityTimeout, Receive, Route, ClaimMiss, StartMiss, CreateFocus,
     RunFocus, CompleteMiss, Archive, FailMiss, Cleanup, CreateFocusFails, CleanupFails, Abandon,
     Shutdown, Stop, Crash, Restart, vars, storeVars, columns
<1>. QED  BY <1>1, <1>2, <1>3, <1>4, <1>5, <1>6, <1>7 DEF Next, ProcessWork

-----------------------------------------------------------------------------
(* The outcome columns                                                     *)

(* A running item has been started, and has no data yet: if it fails, the  *)
(* error is all that its row shows.                                        *)
OutcomeInv ==
  /\ OutcomeTellsAttempts
  /\ \A i \in WorkIds :
       /\ state[i] \in {"absent", "merged"} => attempts[i] = 0
       /\ state[i] = "running" => attempts[i] > 0 /\ outcome[i] \subseteq {"error"}

LEMMA OutcomeInvStep ==
  ASSUME RunningLeftAlone, PlanesHold, StoreInv, OutcomeInv, [Next]_vars
  PROVE  OutcomeInv'
<1>. USE DEF OutcomeInv, OutcomeTellsAttempts, StoreInv, StoreTypeOK
<1>1. CASE UNCHANGED <<state, attempts, outcome>>
  BY <1>1
<1>2. ASSUME NEW i \in WorkIds, state[i] = "absent", UNCHANGED <<attempts, outcome>>,
             NEW s \in {"queued", "merged"}, state' = [state EXCEPT ![i] = s]
      PROVE  OutcomeInv'
  BY <1>2
<1>3. ASSUME NEW i \in WorkIds, UNCHANGED <<attempts, outcome>>,
             NEW m \in ClientMoves, <<m[1], m[2]>> \in Transitions,
             state[i] = m[1], state' = [state EXCEPT ![i] = m[2]]
      PROVE  OutcomeInv'
  <2>1. m[1] \notin {"created", "running"} /\ m[2] # "running"
    BY <1>3 DEF RunningLeftAlone
  <2>2. /\ m[1] \in {"queued", "claimed", "failed"} /\ m[2] \in {"queued", "claimed", "dead"}
    BY <1>3, <2>1 DEF Transitions
  <2>. QED  BY <1>3, <2>2
<1>4. ASSUME NEW w \in Planes, Claim(w) \/ Start(w) \/ Complete(w) \/ Fail(w)
      PROVE  cur[w] \in WorkIds
  BY <1>4, InHand DEF Claim, Start, Complete, Fail, Step, Resting
<1>5. ASSUME NEW i \in WorkIds, UNCHANGED <<attempts, outcome>>,
             state[i] = "queued", state' = [state EXCEPT ![i] = "claimed"]
      PROVE  OutcomeInv'
  BY <1>5
<1>6. ASSUME NEW i \in WorkIds, UNCHANGED outcome, attempts' = [attempts EXCEPT ![i] = @ + 1],
             state[i] = "claimed", state' = [state EXCEPT ![i] = "running"]
      PROVE  OutcomeInv'
  BY <1>6
<1>7. ASSUME NEW i \in WorkIds, UNCHANGED attempts, outcome' = [outcome EXCEPT ![i] = {"data"}],
             state[i] = "running", state' = [state EXCEPT ![i] = "completed"]
      PROVE  OutcomeInv'
  BY <1>7
<1>8. ASSUME NEW i \in WorkIds, UNCHANGED attempts,
             outcome' = [outcome EXCEPT ![i] = @ \cup {"error"}],
             state[i] = "running", state' = [state EXCEPT ![i] = "failed"]
      PROVE  OutcomeInv'
  <2>1. outcome'[i] = {"error"} /\ attempts[i] > 0
    BY <1>8
  <2>. QED  BY <1>8, <2>1
<1>. QED  BY <1>1, <1>2, <1>3, <1>4, <1>5, <1>6, <1>7, <1>8, RowStep

(* A completed item shows its data and no error of an earlier attempt, an  *)
(* item that failed shows its error until a retry completes it.            *)
THEOREM OutcomeIsTold ==
  ASSUME RunningLeftAlone
  PROVE  Spec => []OutcomeTellsAttempts
<1>1. Init => OutcomeInv
  BY DEF Init, StoreInit, OutcomeInv, OutcomeTellsAttempts
<1>2. PlanesHold /\ StoreInv /\ OutcomeInv /\ [Next]_vars => OutcomeInv'
  BY OutcomeInvStep
<1>3. OutcomeInv => OutcomeTellsAttempts
  BY DEF OutcomeInv
<1>. QED  BY <1>1, <1>2, <1>3, PlanesHoldAlways, PlanesKeepStoreInv, PTL DEF Spec

-----------------------------------------------------------------------------
(* Stranded items                                                          *)

(* Clients leave it to planes to claim items, too: a client's claim        *)
(* strands an item without any failure.                                    *)
ClaimsLeftAlone == \A m \in ClientMoves : m[2] # "claimed"

(* A claimed item needs a plane that is about to start it, a running one a *)
(* plane that executes it.  An item may count as stranded only when the    *)
(* last of several planes that claimed it gives up, long after the failure *)
(* that dooms it; to be inductive the count must take it in at the failure.*)
Doomed(i) ==
  \/ state[i] = "claimed" /\ \A w \in Planes : ~ (pc[w] = "starting" /\ cur[w] = i)
  \/ state[i] = "running" /\ \A w \in Planes : ~ Executes(w, i)
DoomedItems == {i \in WorkIds : Doomed(i)}

DoomedInv ==
  /\ IsFiniteSet(DoomedItems)
  /\ Cardinality(DoomedItems) <= faults
  /\ faults \in Nat

(* A failure dooms at most the item its plane has in hand.                 *)
LEMMA DoomedCount ==
  ASSUME DoomedInv,
         \/ DoomedItems' \subseteq DoomedItems /\ faults' = faults
         \/ faults' = faults + 1 /\ \E x : DoomedItems' \subseteq DoomedItems \cup {x}
  PROVE  DoomedInv'
<1>. USE DEF DoomedInv
<1>1. CASE DoomedItems' \subseteq DoomedItems /\ faults' = faults
  <2>1. /\ IsFiniteSet(DoomedItems)' /\ Cardinality(DoomedItems)' <= Cardinality(DoomedItems)
    BY <1>1, FS_Subset
  <2>2. Cardinality(DoomedItems) \in Nat /\ Cardinality(DoomedItems)' \in Nat
    BY <2>1, FS_CardinalityType
  <2>. QED  BY <1>1, <2>1, <2>2
<1>2. ASSUME faults' = faults + 1, NEW x, DoomedItems' \subseteq DoomedItems \cup {x}
      PROVE  DoomedInv'
  <2>1. /\ IsFiniteSet(DoomedItems \cup {x})
        /\ Cardinality(DoomedItems \cup {x}) <= Cardinality(DoomedItems) + 1
    BY FS_AddElement, FS_CardinalityType
  <2>2. /\ IsFiniteSet(DoomedItems)'
        /\ Cardinality(DoomedItems)' <= Cardinality(DoomedItems \cup {x})
    BY <1>2, <2>1, FS_Subset
  <2>3. /\ Cardinality(DoomedItems) \in Nat /\ Cardinality(DoomedItems)' \in Nat
        /\ Cardinality(DoomedItems \cup {x}) \in Nat
    BY <2>1, <2>2, FS_CardinalityType
  <2>. QED  BY <1>2, <2>1, <2>2, <2>3
<1>. QED  BY <1>1, <1>2

LEMMA DoomedInvStep ==
  ASSUME RunningLeftAlone, ClaimsLeftAlone, PlanesHold, StoreInv, OwnershipInv, DoomedInv,
         [Next]_vars
  PROVE  DoomedInv'
<1>. USE DEF PlanesHold, StoreInv, StoreTypeOK, DoomedItems, Doomed, Executes
<1>a. ASSUME UNCHANGED <<state, faults>>,
             \A v \in Planes : pc[v] = "starting" => pc'[v] = "starting" /\ cur'[v] = cur[v],
             \A v \in Planes :
               pc[v] \in Executing => pc'[v] \in Executing /\ cur'[v] = cur[v]
      PROVE  DoomedInv'
  BY <1>a, DoomedCount
<1>1. ASSUME NEW i \in WorkIds, SubmitWork(i) \/ MoveItem(i)  PROVE DoomedInv'
  <2>1. UNCHANGED <<pc, cur, faults>>
    BY <1>1 DEF SubmitWork, MoveItem, planeVars
  <2>2. CASE SubmitWork(i)
    <3>1. \A j \in WorkIds : state'[j] \in {"claimed", "running"} => state'[j] = state[j]
      BY <2>2 DEF SubmitWork, Submit, SubmitStep, Begin, InsertRow, InsertConflict, SelectCanonical,
         CanonicalGone, MergeCommit, QueueCommit, Reply, SubmitFails, columns
    <3>. QED  BY <2>1, <3>1, DoomedCount
  <2>3. CASE MoveItem(i)
    <3>1. PICK m \in ClientMoves : TransitionState(i, m[1], m[2])
      BY <2>3 DEF MoveItem
    <3>2. m[2] \notin {"claimed", "running"}
      BY DEF RunningLeftAlone, ClaimsLeftAlone
    <3>3. \A j \in WorkIds : state'[j] \in {"claimed", "running"} => state'[j] = state[j]
      BY <3>1, <3>2 DEF TransitionState
    <3>. QED  BY <2>1, <3>3, DoomedCount
  <2>. QED  BY <1>1, <2>2, <2>3
<1>2. ASSUME NEW i \in WorkIds, Reappear(i) \/ \E w \in Planes : Receive(w, i)
      PROVE  DoomedInv'
  BY <1>2, <1>a DEF Reappear, VisibilityTimeout, Receive, planeVars, columns, Executing
<1>3. ASSUME NEW w \in Planes, Claim(w)  PROVE DoomedInv'
  <2>1. /\ cur[w] \in WorkIds /\ state' = [state EXCEPT ![cur[w]] = "claimed"]
        /\ pc' = [pc EXCEPT ![w] = "starting"] /\ pc[w] = "claiming" /\ UNCHANGED <<cur, faults>>
    BY <1>3, InHand DEF Claim, Step, TransitionState, Resting
  <2>2. ASSUME NEW j \in WorkIds, Doomed(j)'  PROVE Doomed(j)
    BY <2>1, <2>2 DEF Executing
  <2>. QED  BY <2>1, <2>2, DoomedCount
<1>4. ASSUME NEW w \in Planes, Start(w)  PROVE DoomedInv'
  <2>1. /\ cur[w] \in WorkIds /\ state' = [state EXCEPT ![cur[w]] = "running"]
        /\ pc' = [pc EXCEPT ![w] = "creating"] /\ pc[w] = "starting" /\ UNCHANGED <<cur, faults>>
    BY <1>4, InHand DEF Start, Step, TransitionState, Resting
  <2>2. ASSUME NEW j \in WorkIds, Doomed(j)'  PROVE Doomed(j)
    BY <2>1, <2>2 DEF Executing
  <2>. QED  BY <2>1, <2>2, DoomedCount
<1>5. ASSUME NEW w \in Planes, Complete(w) \/ Fail(w)  PROVE DoomedInv'
  <2>1. PICK s \in {"completed", "failed"} :
          /\ cur[w] \in WorkIds /\ state' = [state EXCEPT ![cur[w]] = s]
          /\ \A v \in Planes \ {w} : pc'[v] = pc[v]
          /\ pc[w] \in Executing /\ UNCHANGED <<cur, faults>>
    BY <1>5, InHand DEF Complete, Fail, Step, CompleteWork, FailWork, Resting, Executing
  <2>2. ASSUME NEW j \in WorkIds, Doomed(j)'  PROVE Doomed(j)
    BY <2>1, <2>2 DEF Executing
  <2>. QED  BY <2>1, <2>2, DoomedCount
<1>6. ASSUME NEW w \in Planes,
             \/ Route(w) \/ ClaimMiss(w) \/ CreateFocus(w) \/ RunFocus(w) \/ Archive(w)
             \/ Cleanup(w) \/ Shutdown(w) \/ Stop(w) \/ Restart(w)
      PROVE  DoomedInv'
  BY <1>6, <1>a DEF Route, ClaimMiss, CreateFocus, RunFocus, Archive, Cleanup, Shutdown, Stop,
     Restart, Step, Return, storeVars, columns, Executing
<1>7. ASSUME NEW w \in Planes, StartMiss(w)  PROVE DoomedInv'
  <2>1. /\ state[cur[w]] # "claimed" /\ UNCHANGED <<state, faults>> /\ pc[w] = "starting"
        /\ \A v \in Planes \ {w} : pc'[v] = pc[v] /\ cur'[v] = cur[v]
    BY <1>7 DEF StartMiss, Return, storeVars, columns
  <2>2. ASSUME NEW j \in WorkIds, Doomed(j)'  PROVE Doomed(j)
    BY <2>1, <2>2 DEF Executing
  <2>. QED  BY <2>1, <2>2, DoomedCount
<1>8. ASSUME NEW w \in Planes, CompleteMiss(w) \/ FailMiss(w)  PROVE FALSE
  <2>1. pc[w] \in Executing /\ state[cur[w]] # "running" /\ cur[w] \in WorkIds
    BY <1>8, InHand DEF CompleteMiss, FailMiss, Return, Executing, Resting
  <2>. QED  BY <2>1 DEF OwnershipInv, FocusOwnsItem
<1>9. ASSUME NEW w \in Planes,
             CreateFocusFails(w) \/ CleanupFails(w) \/ Abandon(w) \/ Crash(w)
      PROVE  DoomedInv'
  <2>1. /\ UNCHANGED state /\ faults' = faults + 1
        /\ \A v \in Planes \ {w} : pc'[v] = pc[v] /\ cur'[v] = cur[v]
    BY <1>9 DEF CreateFocusFails, CleanupFails, Abandon, Crash, Return, Fault, storeVars, columns
  <2>2. DoomedItems' \subseteq DoomedItems \cup {cur[w]}
    BY <2>1
  <2>. QED  BY <2>1, <2>2, DoomedCount
<1>10. ASSUME UNCHANGED vars  PROVE DoomedInv'
  BY <1>10, <1>a DEF vars, storeVars, columns, planeVars
<1>. QED
  BY <1>1, <1>2, <1>3, <1>4, <1>5, <1>6, <1>7, <1>8, <1>9, <1>10 DEF Next, ProcessWork

(* A stranded item is doomed: no more of them than there were failures.    *)
THEOREM FaultsStrandOneItem ==
  ASSUME RunningLeftAlone, ClaimsLeftAlone
  PROVE  Spec => []OneItemPerFault
<1>1. Init => DoomedInv
  <2>. SUFFICES ASSUME Init  PROVE DoomedInv
    OBVIOUS
  <2>1. DoomedItems = {}
    BY DEF Init, StoreInit, DoomedItems, Doomed
  <2>. QED  BY <2>1, FS_EmptySet DEF Init, DoomedInv
<1>2. PlanesHold /\ StoreInv /\ OwnershipInv /\ DoomedInv /\ [Next]_vars => DoomedInv'
  BY DoomedInvStep
<1>3. DoomedInv => OneItemPerFault
  <2>. SUFFICES ASSUME DoomedInv  PROVE OneItemPerFault
    OBVIOUS
  <2>. DEFINE S == {i \in WorkIds : Stranded(i)}
  <2>1. S \subseteq DoomedItems
    BY DEF DoomedItems, Doomed, Stranded, Executes
  <2>2. IsFiniteSet(S) /\ Cardinality(S) <= Cardinality(DoomedItems)
    BY <2>1, FS_Subset DEF DoomedInv
  <2>3. Cardinality(S) \in Nat /\ Cardinality(DoomedItems) \in Nat
    BY <2>2, FS_CardinalityType DEF DoomedInv
  <2>. QED  BY <2>2, <2>3 DEF DoomedInv, OneItemPerFault
<1>. QED
  BY <1>1, <1>2, <1>3, PlanesHoldAlways, PlanesKeepStoreInv, OwnershipHolds, PTL DEF Spec

-----------------------------------------------------------------------------
(* The attempts in work.json                                               *)

(* The copy shows nothing to the rest: a behaviour with it is one without. *)
THEOREM JsonIsControlPlane == JsonSpec => Spec
<1>1. JsonInit => Init
  BY DEF JsonInit
<1>2. [JsonNext]_allVars => [Next]_vars
  BY DEF JsonNext, allVars
<1>. QED  BY <1>1, <1>2, PTL DEF JsonSpec, Spec

(* Clients leave it to planes to start items.  A client that did would     *)
(* raise the attempts while a plane is between its fetch and its focus.    *)
NoClientStarts == \A m \in ClientMoves : m[2] # "running"

(* While plane w has a copy, it goes forward or stays, and attempts only   *)
(* grow by its own start or by that of another plane.                      *)
OtherStarts(w) ==
  \E v \in Planes \ {w} :
    /\ cur[v] \in WorkIds /\ cur'[v] = cur[v] /\ pc'[v] = "creating"
    /\ attempts' = [attempts EXCEPT ![cur[v]] = @ + 1]

Advances(w) ==
  \/ pc[w] = "routing" /\ pc'[w] = "claiming" /\ attempts' = attempts
  \/ pc[w] = "claiming" /\ pc'[w] = "starting" /\ attempts' = attempts
  \/ pc[w] = "starting" /\ pc'[w] = "creating"
       /\ attempts' = [attempts EXCEPT ![cur[w]] = @ + 1]
  \/ pc[w] = "creating" /\ pc'[w] = "focus" /\ attempts' = attempts
  \/ pc'[w] = pc[w] /\ (attempts' = attempts \/ OtherStarts(w))

LEMMA CopyStep ==
  ASSUME NoClientStarts, PlanesHold, StoreInv, [Next]_vars,
         NEW w \in Planes, pc'[w] \in HasCopy
  PROVE  cur[w] \in WorkIds /\ cur'[w] = cur[w] /\ Advances(w)
<1>. USE DEF HasCopy, PlanesHold, Advances
<1>h. pc[w] \notin Resting => cur[w] \in WorkIds
  BY InHand
<1>a. ASSUME pc' = pc, cur' = cur, attempts' = attempts
      PROVE  cur[w] \in WorkIds /\ cur'[w] = cur[w] /\ Advances(w)
  BY <1>a, <1>h DEF Resting
<1>1. ASSUME NEW i \in WorkIds, SubmitWork(i) \/ Reappear(i)
      PROVE  cur[w] \in WorkIds /\ cur'[w] = cur[w] /\ Advances(w)
  <2>1. attempts' = attempts
    BY <1>1 DEF SubmitWork, Submit, SubmitStep, Begin, InsertRow, InsertConflict, SelectCanonical,
       CanonicalGone, MergeCommit, QueueCommit, Reply, SubmitFails, Reappear, VisibilityTimeout,
       columns
  <2>2. UNCHANGED planeVars
    BY <1>1 DEF SubmitWork, Reappear
  <2>. QED  BY <1>a, <2>1, <2>2 DEF planeVars
<1>2. ASSUME NEW i \in WorkIds, MoveItem(i)
      PROVE  cur[w] \in WorkIds /\ cur'[w] = cur[w] /\ Advances(w)
  <2>1. PICK m \in ClientMoves : TransitionState(i, m[1], m[2])
    BY <1>2 DEF MoveItem
  <2>2. attempts' = [attempts EXCEPT ![i] = @]
    BY <2>1 DEF TransitionState, NoClientStarts
  <2>3. attempts' = attempts
    BY <2>2 DEF StoreInv, StoreTypeOK
  <2>. QED  BY <1>2, <1>a, <2>3 DEF MoveItem, planeVars
<1>3. ASSUME NEW v \in Planes, Start(v)
      PROVE  cur[w] \in WorkIds /\ cur'[w] = cur[w] /\ Advances(w)
  <2>1. /\ pc[v] = "starting" /\ pc' = [pc EXCEPT ![v] = "creating"] /\ cur' = cur
        /\ attempts' = [attempts EXCEPT ![cur[v]] = @ + 1]
    BY <1>3 DEF Start, Step, TransitionState
  <2>2. cur[v] \in WorkIds
    BY <2>1, InHand DEF Resting
  <2>3. CASE v = w
    BY <2>1, <2>2, <2>3
  <2>4. CASE v # w
    <3>1. pc'[w] = pc[w] /\ OtherStarts(w)
      BY <2>1, <2>2, <2>4 DEF OtherStarts
    <3>. QED  BY <2>1, <3>1, <1>h DEF Resting
  <2>. QED  BY <2>3, <2>4
<1>4. ASSUME NEW v \in Planes,
             \/ Route(v) \/ Claim(v) \/ CreateFocus(v) \/ RunFocus(v) \/ Complete(v)
             \/ Archive(v) \/ Fail(v)
      PROVE  cur[w] \in WorkIds /\ cur'[w] = cur[w] /\ Advances(w)
  <2>1. attempts' = attempts
    BY <1>4 DEF Route, Claim, TransitionState, CreateFocus, RunFocus, Complete, CompleteWork,
       Archive, Fail, FailWork, storeVars, columns, StoreInv, StoreTypeOK
  <2>2. \/ pc'[w] = pc[w] /\ cur'[w] = cur[w]
        \/ cur' = cur /\ <<pc[w], pc'[w]>> \in {<<"routing", "claiming">>,
              <<"claiming", "starting">>, <<"creating", "focus">>}
    BY <1>4 DEF Route, Claim, CreateFocus, RunFocus, Complete, Archive, Fail, Step, Return
  <2>. QED  BY <1>h, <2>1, <2>2 DEF Resting
<1>5. ASSUME NEW v \in Planes,
             \/ ClaimMiss(v) \/ StartMiss(v) \/ CompleteMiss(v) \/ FailMiss(v) \/ Cleanup(v)
             \/ CreateFocusFails(v) \/ CleanupFails(v) \/ Abandon(v)
             \/ Shutdown(v) \/ Stop(v) \/ Crash(v) \/ Restart(v)
      PROVE  cur[w] \in WorkIds /\ cur'[w] = cur[w] /\ Advances(w)
  <2>1. attempts' = attempts
    BY <1>5 DEF ClaimMiss, StartMiss, CompleteMiss, FailMiss, Cleanup, CreateFocusFails,
       CleanupFails, Abandon, Shutdown, Stop, Crash, Restart, storeVars, columns
  <2>2. pc'[w] = pc[w] /\ cur'[w] = cur[w]
    BY <1>5 DEF ClaimMiss, StartMiss, CompleteMiss, FailMiss, Cleanup, CreateFocusFails,
       CleanupFails, Abandon, Shutdown, Stop, Crash, Restart, Return
  <2>. QED  BY <1>h, <2>1, <2>2 DEF Resting
<1>6. ASSUME NEW v \in Planes, NEW i \in WorkIds, Receive(v, i)
      PROVE  cur[w] \in WorkIds /\ cur'[w] = cur[w] /\ Advances(w)
  BY <1>6, <1>h DEF Receive, columns, Resting
<1>7. ASSUME UNCHANGED vars
      PROVE  cur[w] \in WorkIds /\ cur'[w] = cur[w] /\ Advances(w)
  BY <1>7, <1>a DEF vars, storeVars, columns, planeVars
<1>. QED  BY <1>1, <1>2, <1>3, <1>4, <1>5, <1>6, <1>7 DEF Next, ProcessWork

(* The variable item counts the attempts of the fetch until the start adds *)
(* one; the file counts what the variable did.                             *)
JsonInv ==
  /\ fetched \in [Planes -> Nat]
  /\ work_json \in [Planes -> Nat]
  /\ \A w \in Planes :
       /\ pc[w] \in {"claiming", "starting"} =>
            /\ fetched[w] <= attempts[cur[w]]
            /\ ~overtaken[w] => fetched[w] = attempts[cur[w]]
       /\ pc[w] = "creating" =>
            /\ fetched[w] < attempts[cur[w]]
            /\ ~overtaken[w] => fetched[w] = attempts[cur[w]] - 1
  /\ JsonTellsAttempts

LEMMA JsonInvStep ==
  ASSUME NoClientStarts, PlanesHold, StoreInv, JsonInv, [JsonNext]_allVars
  PROVE  JsonInv'
<1>. USE DEF JsonInv, JsonTellsAttempts, HasCopy, Passes
<1>1. CASE UNCHANGED allVars
  BY <1>1 DEF allVars, vars, storeVars, columns, planeVars, jsonVars
<1>2. CASE JsonNext
  <2>. USE <1>2 DEF JsonNext
  <2>1. attempts \in [WorkIds -> Nat]
    BY DEF StoreInv, StoreTypeOK
  <2>2. \A w \in Planes : pc'[w] \in HasCopy =>
          cur[w] \in WorkIds /\ cur'[w] = cur[w] /\ Advances(w)
    BY CopyStep
  <2>3. fetched' \in [Planes -> Nat]
    BY <2>1, <2>2 DEF Fetch
  <2>4. work_json' \in [Planes -> Nat]
    BY DEF WriteJson
  <2>5. ASSUME NEW w \in Planes, pc'[w] \in HasCopy, ~overtaken'[w]
        PROVE  ~overtaken[w] /\ \A v \in Planes \ {w} : ~ (pc'[v] \in Executing /\ cur'[v] = cur'[w])
    BY <2>5 DEF Overtake, Executes
  <2>6. ASSUME NEW w \in Planes, pc'[w] \in HasCopy, pc'[w] = pc[w]
        PROVE  /\ cur'[w] = cur[w]
               /\ attempts[cur[w]] \in Nat /\ attempts'[cur[w]] \in Nat
               /\ attempts[cur[w]] <= attempts'[cur[w]]
               /\ ~overtaken'[w] => ~overtaken[w] /\ attempts'[cur[w]] = attempts[cur[w]]
               /\ pc[w] # "focus" => fetched'[w] = fetched[w]
               /\ work_json'[w] = work_json[w]
    <3>1. cur[w] \in WorkIds /\ cur'[w] = cur[w] /\ (attempts' = attempts \/ OtherStarts(w))
      BY <2>2, <2>6 DEF Advances
    <3>2. /\ attempts[cur[w]] \in Nat /\ attempts'[cur[w]] \in Nat
          /\ attempts[cur[w]] <= attempts'[cur[w]]
      BY <2>1, <3>1 DEF OtherStarts
    <3>3. ~overtaken'[w] => attempts'[cur[w]] = attempts[cur[w]]
      BY <2>1, <2>5, <2>6, <3>1 DEF OtherStarts, Executing
    <3>. QED  BY <2>5, <2>6, <3>1, <3>2, <3>3 DEF Fetch, WriteJson
  <2>7. ASSUME NEW w \in Planes, pc'[w] \in {"claiming", "starting"}
        PROVE  /\ fetched'[w] <= attempts'[cur'[w]]
               /\ ~overtaken'[w] => fetched'[w] = attempts'[cur'[w]]
    <3>1. CASE pc'[w] = pc[w]
      <4>1. fetched[w] \in Nat /\ work_json[w] \in Nat
        OBVIOUS
      <4>. QED  BY <2>6, <2>7, <3>1, <4>1
    <3>2. CASE pc'[w] # pc[w]
      <4>1. attempts' = attempts /\ cur[w] \in WorkIds /\ cur'[w] = cur[w]
        BY <2>2, <2>7, <3>2 DEF Advances
      <4>2. CASE pc[w] = "routing" /\ pc'[w] = "claiming"
        BY <2>1, <4>1, <4>2 DEF Fetch
      <4>3. CASE pc[w] = "claiming" /\ pc'[w] = "starting"
        BY <2>1, <2>5, <4>1, <4>3 DEF Fetch
      <4>. QED  BY <2>2, <2>7, <3>2, <4>2, <4>3 DEF Advances
    <3>. QED  BY <3>1, <3>2
  <2>8. ASSUME NEW w \in Planes, pc'[w] = "creating"
        PROVE  /\ fetched'[w] < attempts'[cur'[w]]
               /\ ~overtaken'[w] => fetched'[w] = attempts'[cur'[w]] - 1
    <3>1. CASE pc'[w] = pc[w]
      <4>1. fetched[w] \in Nat /\ work_json[w] \in Nat
        OBVIOUS
      <4>. QED  BY <2>6, <2>8, <3>1, <4>1
    <3>2. CASE pc'[w] # pc[w]
      <4>1. /\ pc[w] = "starting" /\ cur[w] \in WorkIds /\ cur'[w] = cur[w]
            /\ attempts' = [attempts EXCEPT ![cur[w]] = @ + 1]
        BY <2>2, <2>8, <3>2 DEF Advances
      <4>2. fetched'[w] = fetched[w]
        BY <2>8, <4>1 DEF Fetch
      <4>. QED  BY <2>1, <2>5, <2>8, <4>1, <4>2
    <3>. QED  BY <3>1, <3>2
  <2>9. ASSUME NEW w \in Planes, pc'[w] = "focus"
        PROVE  /\ work_json'[w] < attempts'[cur'[w]]
               /\ ~overtaken'[w] => work_json'[w] = attempts'[cur'[w]] - 1
    <3>1. CASE pc'[w] = pc[w]
      <4>1. fetched[w] \in Nat /\ work_json[w] \in Nat
        OBVIOUS
      <4>. QED  BY <2>6, <2>9, <3>1, <4>1
    <3>2. CASE pc'[w] # pc[w]
      <4>1. pc[w] = "creating" /\ cur'[w] = cur[w] /\ attempts' = attempts
        BY <2>2, <2>9, <3>2 DEF Advances
      <4>2. work_json'[w] = fetched[w]
        BY <2>9, <4>1 DEF WriteJson
      <4>. QED  BY <2>5, <2>9, <4>1, <4>2
    <3>. QED  BY <3>1, <3>2
  <2>. QED  BY <2>3, <2>4, <2>7, <2>8, <2>9
<1>. QED  BY <1>1, <1>2

(* work.json never counts the attempt that runs, and counts all before it  *)
(* unless another plane executed the item meanwhile.                       *)
THEOREM JsonIsRight ==
  ASSUME NoClientStarts
  PROVE  JsonSpec => []JsonTellsAttempts
<1>1. JsonInit => JsonInv
  BY DEF JsonInit, Init, JsonInv, JsonTellsAttempts
<1>2. PlanesHold /\ StoreInv /\ JsonInv /\ [JsonNext]_allVars => JsonInv'
  BY JsonInvStep
<1>3. JsonSpec => []PlanesHold /\ []StoreInv
  BY JsonIsControlPlane, PlanesHoldAlways, PlanesKeepStoreInv, PTL
<1>4. JsonInv => JsonTellsAttempts
  BY DEF JsonInv
<1>. QED  BY <1>1, <1>2, <1>3, <1>4, PTL DEF JsonSpec
=============================================================================
