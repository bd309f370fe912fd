---------------------------- MODULE PollLoopProofs ----------------------------
(***************************************************************************)
(* Proofs about PollLoop: how long a plane with work to do may wait, for   *)
(* any number of messages, any timeout, any poll interval and any number   *)
(* of crashes and errors.                                                  *)
(***************************************************************************)
EXTENDS PollLoop, FiniteSetTheorems, DataLemmas

(* Arithmetic that the solvers do not find on their own.                   *)
LEMMA Times ==
  ASSUME NEW p \in Nat, NEW m \in Nat, NEW n \in Nat, m <= n
  PROVE  m * p \in Nat /\ n * p \in Nat /\ m * p <= n * p /\ (m + 1) * p = m * p + p
OBVIOUS

(* A set of numbers that is not empty has a lowest one.                    *)
LEMMA LowestIn ==
  ASSUME NEW S \in SUBSET Nat, S # {}
  PROVE  Lowest(S) \in S
BY LeastOf DEF Lowest

-----------------------------------------------------------------------------
(* Types, and what is in hand                                              *)

(* The places at which an item may be waited for.                          *)
Waits == {"waiting", "reading"} \cup Taking

(* The message in hand was read at this moment and its item is as the last *)
(* statement left it; nothing is waited for while an item is executed.     *)
LoopInv ==
  /\ timing \in Timings
  /\ item \in [Items -> States]
  /\ hidden \in [Items -> Nat] /\ \A i \in Items : hidden[i] <= timing.vt
  /\ plane \in Planes
  /\ sleep \in Nat /\ sleep <= timing.poll /\ (sleep > 0 => plane = "waiting")
  /\ idle \in Nat /\ missed \in Nat /\ active \in Nat
  /\ \A i \in Items : item[i] = "absent" => hidden[i] = 0
  /\ plane \notin Waits => idle = 0

InHand ==
  /\ archived \subseteq {i \in Items : item[i] = "completed"}
  /\ plane \in Taking \cup Executing => cur \in Items
  /\ plane \in Taking => cur \in InQueue /\ hidden[cur] = timing.vt
  /\ plane \in {"claiming", "starting"} => cur \notin unroutable
  /\ plane = "starting" => item[cur] = "claimed"
  /\ plane \in {"creating", "focus", "completing", "failing"} => item[cur] = "running"
  /\ plane = "archiving" => item[cur] = "completed"
  /\ plane = "focus" => active > 0

(* The returning messages that were read since the plane became idle and   *)
(* are still hidden.  Each of them was read at most one poll interval      *)
(* after the one before, or after the wait began, but for the intervals    *)
(* that errors took; so the wait is no longer than their number and that   *)
(* of the errors allow, and no more time has passed since one of them was  *)
(* read than those read after it and the errors allow.                     *)
Read == {i \in Returning : hidden[i] > 0 /\ hidden[i] + idle >= timing.vt}
ReadSince(m) == {i \in Read : hidden[i] >= hidden[m]}

(* The time until the next turn, if this one takes no item.                *)
Due == IF plane \in Taking /\ cur \in Returning THEN timing.poll ELSE sleep

WaitInv ==
  plane \in Waits /\ Fits /\ active < MaxConcurrent =>
    /\ idle + Due <= (Cardinality(Read) + missed + 1) * timing.poll
    /\ \A m \in Read :
         timing.vt + Due <= hidden[m] + (Cardinality(ReadSince(m)) + missed) * timing.poll

LEMMA TimingTypes ==
  ASSUME timing \in Timings
  PROVE  timing.vt \in Nat \ {0} /\ timing.poll \in Nat \ {0}
BY TimingAssumption

LEMMA LowestVisible ==
  ASSUME Visible # {}
  PROVE  Lowest(Visible) \in Visible
<1>1. Visible \in SUBSET Nat
  BY TimingAssumption DEF Visible, InQueue, Stored
<1>. QED  BY <1>1, LowestIn

LEMMA LoopInvStep ==
  ASSUME LoopInv, InHand, [Next]_vars
  PROVE  LoopInv'
<1>. USE TimingTypes DEF LoopInv, States, Planes, Waits, Taking, Executing,
         config, queueVars, planeVars, history
<1>1. ASSUME NEW i \in Items, Submit(i)  PROVE LoopInv'
  BY <1>1 DEF Submit
<1>2. CASE LoseNote \/ UNCHANGED vars
  BY <1>2 DEF LoseNote, vars
<1>3. CASE ListenerFails \/ Notified \/ TimerFires
  BY <1>3 DEF ListenerFails, Notified, TimerFires, Turn
<1>4. CASE Crash \/ Restart
  BY <1>4 DEF Crash, Restart, Return
<1>5. CASE Skip \/ ReadNothing \/ Unroutable \/ ClaimMiss \/ Cleanup
  BY <1>5 DEF Skip, ReadNothing, Unroutable, ClaimMiss, Cleanup, Return
<1>6. CASE ReadMessage
  <2>1. Lowest(Visible) \in Items /\ item[Lowest(Visible)] # "absent"
    BY <1>6, LowestVisible DEF ReadMessage, Visible, InQueue, Stored
  <2>. QED  BY <1>6, <2>1 DEF ReadMessage, Goto, Hide
<1>7. CASE Route \/ Claim \/ Start
  BY <1>7 DEF InHand, Route, Claim, Start, Goto
<1>8. CASE CreateFocus \/ CreateFocusFails
  BY <1>8 DEF CreateFocus, CreateFocusFails, Goto, Return
<1>10. CASE Complete \/ Fail
  BY <1>10 DEF InHand, Complete, Fail, Goto
<1>11. CASE Archive
  BY <1>11 DEF InHand, Archive, Goto
<1>12. CASE Abandon
  BY <1>12 DEF Abandon, Return
<1>13. CASE Tick
  <2>1. /\ hidden' \in [Items -> Nat] /\ \A i \in Items : hidden'[i] <= hidden[i]
        /\ sleep' \in Nat /\ sleep' <= sleep
    BY <1>13 DEF Tick, Minus1
  <2>2. idle' \in Nat /\ missed' \in Nat /\ (plane # "waiting" \/ ~HasWork => idle' = 0)
    <3>1. Patience + 1 \in Nat
      BY TimingAssumption, FS_CardinalityType DEF Patience
    <3>. QED  BY <1>13, <3>1 DEF Tick, Least
  <2>. QED  BY <1>13, <2>1, <2>2 DEF Tick
<1>14. CASE RunFocus
  BY <1>14 DEF InHand, RunFocus, Goto
<1>. QED  BY <1>1, <1>2, <1>3, <1>4, <1>5, <1>6, <1>7, <1>8, <1>10, <1>11, <1>12, <1>13, <1>14
          DEF Next, PlaneStep, ProcessWork

LEMMA InHandStep ==
  ASSUME LoopInv, InHand, [Next]_vars
  PROVE  InHand'
<1>. USE DEF LoopInv, InHand, States, Planes, Taking, Executing,
         config, queueVars, planeVars, history
<1>1. ASSUME NEW i \in Items, Submit(i)  PROVE InHand'
  BY <1>1 DEF Submit, InQueue, Stored
<1>2. CASE LoseNote \/ UNCHANGED vars
  BY <1>2 DEF LoseNote, vars, InQueue, Stored
<1>3. CASE ListenerFails \/ Notified \/ TimerFires
  BY <1>3 DEF ListenerFails, Notified, TimerFires, Turn
<1>4. CASE Crash \/ Restart
  BY <1>4 DEF Crash, Restart, Return
<1>5. CASE Skip \/ ReadNothing \/ Unroutable \/ ClaimMiss \/ Cleanup
  BY <1>5 DEF Skip, ReadNothing, Unroutable, ClaimMiss, Cleanup, Return
<1>6. CASE ReadMessage
  <2>1. /\ Lowest(Visible) \in Items /\ Lowest(Visible) \in InQueue
        /\ UNCHANGED <<timing, item, archived, active>>
        /\ hidden' = [hidden EXCEPT ![Lowest(Visible)] = timing.vt]
        /\ cur' = Lowest(Visible) /\ plane' = "routing"
    BY <1>6, LowestVisible DEF ReadMessage, Goto, Hide, Visible, InQueue, Stored
  <2>2. InQueue' = InQueue
    BY <2>1 DEF InQueue, Stored
  <2>. QED  BY <2>1, <2>2
<1>7. CASE Route \/ Claim \/ Start
  BY <1>7 DEF Route, Claim, Start, Goto, InQueue, Stored
<1>8. CASE CreateFocus \/ CreateFocusFails
  BY <1>8 DEF CreateFocus, CreateFocusFails, Goto, Return
<1>9. CASE RunFocus
  BY <1>9 DEF RunFocus, Goto
<1>10. CASE Complete \/ Fail
  BY <1>10 DEF Complete, Fail, Goto
<1>11. CASE Archive
  BY <1>11 DEF Archive, Goto
<1>12. CASE Abandon
  BY <1>12 DEF Abandon, Return
<1>13. CASE Tick
  <2>1. UNCHANGED <<config, item, archived, plane, cur, active>> /\ plane \notin Taking
    BY <1>13 DEF Tick
  <2>. QED  BY <2>1
<1>. QED  BY <1>1, <1>2, <1>3, <1>4, <1>5, <1>6, <1>7, <1>8, <1>9, <1>10, <1>11, <1>12, <1>13
          DEF Next, PlaneStep, ProcessWork

-----------------------------------------------------------------------------
(* The wait                                                                *)

LEMMA Sizes ==
  /\ IsFiniteSet(Returning) /\ Cardinality(Returning) \in Nat
  /\ Cardinality(Returning) <= Cardinality(Items) /\ Cardinality(Items) \in Nat
  /\ IsFiniteSet(Read) /\ Cardinality(Read) \in Nat /\ Cardinality(Read) <= Cardinality(Returning)
  /\ \A m \in Read :
       /\ IsFiniteSet(ReadSince(m)) /\ Cardinality(ReadSince(m)) \in Nat
       /\ Cardinality(ReadSince(m)) <= Cardinality(Returning)
<1>1. Returning \subseteq Items /\ Read \subseteq Returning
  BY DEF Returning, InQueue, Stored, Read
<1>2. \A m \in Read : ReadSince(m) \subseteq Returning
  BY DEF ReadSince, Read
<1>. QED  BY <1>1, <1>2, TimingAssumption, FS_Subset, FS_CardinalityType

LEMMA DueType ==
  ASSUME LoopInv
  PROVE  Due \in Nat /\ Due <= timing.poll
BY TimingTypes DEF LoopInv, Due

(* Fewer messages that return, and fewer errors, fit as well.              *)
LEMMA FitsBefore ==
  ASSUME timing \in Timings, timing' = timing, missed \in Nat, missed' \in Nat, missed <= missed',
         Returning \subseteq Returning', Returning' \subseteq Items, Fits'
  PROVE  Fits
<1>t. timing.vt \in Nat \ {0} /\ timing.poll \in Nat \ {0}
  BY TimingTypes
<1>1. IsFiniteSet(Returning') /\ Cardinality(Returning)' \in Nat
  BY TimingAssumption, FS_Subset, FS_CardinalityType
<1>2. Cardinality(Returning) <= Cardinality(Returning)' /\ Cardinality(Returning) \in Nat
  BY <1>1, Sizes, FS_Subset
<1>3. Cardinality(Returning) + missed <= Cardinality(Returning)' + missed'
  BY <1>1, <1>2
<1>4. /\ (Cardinality(Returning) + missed) * timing.poll
           <= (Cardinality(Returning)' + missed') * timing.poll
      /\ (Cardinality(Returning) + missed) * timing.poll \in Nat
      /\ (Cardinality(Returning)' + missed') * timing.poll \in Nat
  <2>1. Cardinality(Returning) + missed \in Nat /\ Cardinality(Returning)' + missed' \in Nat
    BY <1>1, <1>2
  <2>. QED  BY <2>1, <1>3, <1>t, Times
<1>. QED  BY <1>4, <1>t DEF Fits

(* A wait that begins: whatever was just read has been read at this moment. *)
LEMMA Begins ==
  ASSUME LoopInv', idle' = 0
  PROVE  WaitInv'
<1>. USE DEF LoopInv, WaitInv
<1>. SUFFICES /\ (idle + Due <= (Cardinality(Read) + missed + 1) * timing.poll)'
              /\ \A m \in Read' :
                   (timing.vt + Due
                      <= hidden[m] + (Cardinality(ReadSince(m)) + missed) * timing.poll)'
  OBVIOUS
<1>t. timing'.vt \in Nat /\ timing'.poll \in Nat
  BY TimingAssumption
<1>d. Due' \in Nat /\ Due' <= timing'.poll
  BY <1>t DEF Due
<1>s. /\ Cardinality(Read)' \in Nat
      /\ \A m \in Read' : IsFiniteSet(ReadSince(m)') /\ Cardinality(ReadSince(m)') \in Nat
  <2>1. Returning' \subseteq Items /\ Read' \subseteq Returning'
    BY DEF Returning, InQueue, Stored, Read
  <2>2. \A m \in Read' : ReadSince(m)' \subseteq Items
    BY <2>1 DEF ReadSince
  <2>. QED  BY <2>1, <2>2, TimingAssumption, FS_Subset, FS_CardinalityType
<1>1. (idle + Due <= (Cardinality(Read) + missed + 1) * timing.poll)'
  <2>1. 1 * timing'.poll <= (Cardinality(Read)' + missed' + 1) * timing'.poll
    BY <1>s, <1>t, Times
  <2>2. (Cardinality(Read)' + missed' + 1) * timing'.poll \in Nat
    BY <1>s, <1>t, Times
  <2>. QED  BY <1>t, <1>d, <2>1, <2>2
<1>2. ASSUME NEW m \in Read'
      PROVE  (timing.vt + Due <= hidden[m] + (Cardinality(ReadSince(m)) + missed) * timing.poll)'
  <2>1. hidden'[m] = timing'.vt
    BY <1>t DEF Read, Returning, InQueue, Stored
  <2>2. m \in ReadSince(m)'
    BY <1>t, <2>1 DEF ReadSince
  <2>3. Cardinality(ReadSince(m)') >= 1
    BY <1>s, <2>2, FS_EmptySet
  <2>4. Cardinality(ReadSince(m)') + missed' \in Nat /\ Cardinality(ReadSince(m)') + missed' >= 1
    BY <1>s, <2>3
  <2>5. /\ 1 * timing'.poll <= (Cardinality(ReadSince(m)') + missed') * timing'.poll
        /\ (Cardinality(ReadSince(m)') + missed') * timing'.poll \in Nat
    BY <1>t, <2>4, Times
  <2>. QED  BY <1>d, <1>t, <2>1, <2>5
<1>. QED  BY <1>1, <1>2

(* A wait that goes on: nothing that returns is read, and what comes to be *)
(* due is paid for by an error, if it is more than before.                 *)
LEMMA Stays ==
  ASSUME LoopInv, LoopInv', WaitInv, plane \in Waits,
         UNCHANGED <<timing, idle, active>>,
         Read' = Read, \A m \in Read : hidden'[m] = hidden[m],
         Fits' => Fits,
         \/ missed' = missed /\ Due' <= Due
         \/ missed' = missed + 1
  PROVE  WaitInv'
<1>. USE DEF LoopInv, WaitInv
<1>t. timing.vt \in Nat \ {0} /\ timing.poll \in Nat \ {0}
  BY TimingTypes
<1>d. Due \in Nat /\ Due <= timing.poll /\ Due' \in Nat /\ Due' <= timing.poll
  <2>1. Due' \in Nat /\ Due' <= timing'.poll
    BY <1>t DEF Due
  <2>. QED  BY <2>1, DueType
<1>. SUFFICES ASSUME Fits, active < MaxConcurrent
              PROVE  /\ (idle + Due <= (Cardinality(Read) + missed + 1) * timing.poll)'
                     /\ \A m \in Read' :
                          (timing.vt + Due
                             <= hidden[m] + (Cardinality(ReadSince(m)) + missed) * timing.poll)'
  OBVIOUS
<1>m. ASSUME NEW n \in Nat
      PROVE  /\ (n + missed) * timing.poll \in Nat /\ (n + missed') * timing.poll \in Nat
             /\ (n + missed) * timing.poll + Due' <= (n + missed') * timing.poll + Due
  <2>1. CASE missed' = missed /\ Due' <= Due
    <3>1. (n + missed) * timing.poll \in Nat
      BY <1>t, Times
    <3>. QED  BY <1>d, <2>1, <3>1
  <2>2. CASE missed' = missed + 1
    <3>1. n + missed \in Nat /\ n + missed' = (n + missed) + 1
      BY <2>2
    <3>2. /\ (n + missed) * timing.poll \in Nat
          /\ ((n + missed) + 1) * timing.poll = (n + missed) * timing.poll + timing.poll
      BY <1>t, <3>1, Times
    <3>. QED  BY <1>d, <1>t, <3>1, <3>2
  <2>. QED  BY <2>1, <2>2
<1>1. (idle + Due <= (Cardinality(Read) + missed + 1) * timing.poll)'
  <2>1. /\ Cardinality(Read) + 1 \in Nat /\ Cardinality(Read)' = Cardinality(Read)
        /\ (Cardinality(Read) + 1) + missed = Cardinality(Read) + missed + 1
        /\ (Cardinality(Read) + 1) + missed' = Cardinality(Read) + missed' + 1
    BY Sizes
  <2>2. /\ ((Cardinality(Read) + 1) + missed) * timing.poll \in Nat
        /\ ((Cardinality(Read) + 1) + missed') * timing.poll \in Nat
        /\ ((Cardinality(Read) + 1) + missed) * timing.poll + Due'
             <= ((Cardinality(Read) + 1) + missed') * timing.poll + Due
    BY <2>1, <1>m
  <2>3. idle + Due <= ((Cardinality(Read) + 1) + missed) * timing.poll
    BY <2>1
  <2>4. idle + Due' <= ((Cardinality(Read) + 1) + missed') * timing.poll
    BY <2>2, <2>3, <1>d
  <2>. QED  BY <2>1, <2>4
<1>2. ASSUME NEW m \in Read
      PROVE  (timing.vt + Due <= hidden[m] + (Cardinality(ReadSince(m)) + missed) * timing.poll)'
  <2>1. ReadSince(m)' = ReadSince(m) /\ hidden'[m] = hidden[m] /\ hidden[m] \in Nat
    BY DEF ReadSince, Read, Returning, InQueue, Stored
  <2>2. Cardinality(ReadSince(m)) \in Nat /\ Cardinality(ReadSince(m))' = Cardinality(ReadSince(m))
    BY <2>1, Sizes
  <2>3. /\ (Cardinality(ReadSince(m)) + missed) * timing.poll \in Nat
        /\ (Cardinality(ReadSince(m)) + missed') * timing.poll \in Nat
        /\ (Cardinality(ReadSince(m)) + missed) * timing.poll + Due'
             <= (Cardinality(ReadSince(m)) + missed') * timing.poll + Due
    BY <2>2, <1>m
  <2>4. timing.vt + Due <= hidden[m] + (Cardinality(ReadSince(m)) + missed) * timing.poll
    OBVIOUS
  <2>5. timing.vt + Due' <= hidden[m] + (Cardinality(ReadSince(m)) + missed') * timing.poll
    BY <1>d, <1>t, <2>1, <2>3, <2>4
  <2>. QED  BY <2>1, <2>2, <2>5
<1>. QED  BY <1>1, <1>2

(* A wait that goes on: another returning message is read, or the item of  *)
(* the one just read is claimed.                                           *)
LEMMA GoesOn ==
  ASSUME LoopInv, LoopInv', WaitInv, plane \in Waits,
         UNCHANGED <<timing, idle, missed, active>>,
         NEW i \in Items, i \notin Read, Read' = Read \cup {i}, hidden'[i] = timing.vt,
         \A m \in Read : hidden'[m] = hidden[m],
         Fits' => Fits
  PROVE  WaitInv'
<1>. USE DEF LoopInv, WaitInv
<1>t. timing.vt \in Nat \ {0} /\ timing.poll \in Nat \ {0}
  BY TimingTypes
<1>d. Due \in Nat /\ Due' \in Nat /\ Due' <= timing.poll
  <2>1. Due' \in Nat /\ Due' <= timing'.poll
    BY <1>t DEF Due
  <2>. QED  BY <2>1, DueType
<1>. SUFFICES ASSUME Fits, active < MaxConcurrent
              PROVE  /\ (idle + Due <= (Cardinality(Read) + missed + 1) * timing.poll)'
                     /\ \A m \in Read' :
                          (timing.vt + Due
                             <= hidden[m] + (Cardinality(ReadSince(m)) + missed) * timing.poll)'
  OBVIOUS
<1>4. Cardinality(Read)' = Cardinality(Read) + 1 /\ Cardinality(Read) \in Nat
  BY Sizes, FS_AddElement
<1>m. ASSUME NEW n \in Nat
      PROVE  /\ (n + missed) * timing.poll \in Nat
             /\ (n + 1 + missed) * timing.poll = (n + missed) * timing.poll + timing.poll
  <2>1. n + missed \in Nat /\ n + 1 + missed = (n + missed) + 1
    OBVIOUS
  <2>. QED  BY <1>t, <2>1, Times
<1>5. (idle + Due <= (Cardinality(Read) + missed + 1) * timing.poll)'
  <2>1. /\ Cardinality(Read) + 1 \in Nat
        /\ Cardinality(Read) + missed + 1 = (Cardinality(Read) + 1) + missed
        /\ Cardinality(Read)' + missed' + 1 = (Cardinality(Read) + 1) + 1 + missed
    BY <1>4
  <2>2. /\ ((Cardinality(Read) + 1) + missed) * timing.poll \in Nat
        /\ ((Cardinality(Read) + 1) + 1 + missed) * timing.poll
             = ((Cardinality(Read) + 1) + missed) * timing.poll + timing.poll
    BY <2>1, <1>m
  <2>3. idle <= ((Cardinality(Read) + 1) + missed) * timing.poll
    BY <2>1, <2>2, <1>d
  <2>4. idle + Due' <= ((Cardinality(Read) + 1) + 1 + missed) * timing.poll
    BY <2>2, <2>3, <1>d, <1>t
  <2>. QED  BY <2>1, <2>4
<1>6. ASSUME NEW m \in Read
      PROVE  (timing.vt + Due <= hidden[m] + (Cardinality(ReadSince(m)) + missed) * timing.poll)'
  <2>1. m # i /\ hidden'[m] = hidden[m] /\ hidden[m] \in Nat /\ hidden[m] <= timing.vt
    BY DEF Read, Returning, InQueue, Stored
  <2>2. ReadSince(m)' = ReadSince(m) \cup {i} /\ i \notin ReadSince(m)
    BY <2>1 DEF ReadSince
  <2>3. /\ Cardinality(ReadSince(m))' = Cardinality(ReadSince(m)) + 1
        /\ Cardinality(ReadSince(m)) \in Nat
    BY <2>2, Sizes, FS_AddElement
  <2>4. /\ (Cardinality(ReadSince(m)) + missed) * timing.poll \in Nat
        /\ (Cardinality(ReadSince(m)) + 1 + missed) * timing.poll
             = (Cardinality(ReadSince(m)) + missed) * timing.poll + timing.poll
    BY <2>3, <1>m
  <2>5. timing.vt + Due <= hidden[m] + (Cardinality(ReadSince(m)) + missed) * timing.poll
    OBVIOUS
  <2>6. timing.vt + Due' <= hidden[m] + (Cardinality(ReadSince(m)) + 1 + missed) * timing.poll
    BY <1>d, <1>t, <2>1, <2>4, <2>5
  <2>. QED  BY <2>1, <2>3, <2>6
<1>7. (timing.vt + Due <= hidden[i] + (Cardinality(ReadSince(i)) + missed) * timing.poll)'
  <2>1. i \in ReadSince(i)'
    BY <1>t DEF ReadSince
  <2>2. IsFiniteSet(ReadSince(i)') /\ Cardinality(ReadSince(i)') \in Nat
    <3>1. ReadSince(i)' \subseteq Read \cup {i}
      BY DEF ReadSince
    <3>2. IsFiniteSet(Read \cup {i})
      BY Sizes, FS_AddElement
    <3>. QED  BY <3>1, <3>2, FS_Subset, FS_CardinalityType
  <2>3. Cardinality(ReadSince(i)') >= 1
    BY <2>1, <2>2, FS_EmptySet
  <2>4. Cardinality(ReadSince(i)') + missed \in Nat /\ Cardinality(ReadSince(i)') + missed >= 1
    BY <2>2, <2>3
  <2>5. /\ 1 * timing.poll <= (Cardinality(ReadSince(i)') + missed) * timing.poll
        /\ (Cardinality(ReadSince(i)') + missed) * timing.poll \in Nat
    BY <1>t, <2>4, Times
  <2>. QED  BY <1>d, <1>t, <2>5
<1>. QED  BY <1>5, <1>6, <1>7

(* Time passes: none of the messages read since reappears while they fit.  *)
LEMMA Passes ==
  ASSUME LoopInv, WaitInv, Tick, plane = "waiting", HasWork, missed <= MaxFaults
  PROVE  WaitInv'
<1>. USE DEF LoopInv, WaitInv
<1>t. timing.vt \in Nat \ {0} /\ timing.poll \in Nat \ {0}
  BY TimingTypes
<1>0. /\ UNCHANGED <<timing, unroutable, item, archived, plane, active, missed>>
      /\ sleep > 0 /\ sleep' = sleep - 1 /\ Due = sleep /\ Due' = sleep'
      /\ hidden' = [j \in Items |-> IF hidden[j] = 0 THEN 0 ELSE hidden[j] - 1]
      /\ idle' = IF idle + 1 < Patience + 1 THEN idle + 1 ELSE Patience + 1
  BY DEF Tick, Minus1, Least, config, Due, Taking
<1>1. Returning' = Returning /\ (Fits' <=> Fits)
  BY <1>0 DEF Returning, InQueue, Stored, Fits
<1>. SUFFICES ASSUME Fits, active < MaxConcurrent
              PROVE  /\ (idle + Due <= (Cardinality(Read) + missed + 1) * timing.poll)'
                     /\ \A m \in Read' :
                          (timing.vt + Due
                             <= hidden[m] + (Cardinality(ReadSince(m)) + missed) * timing.poll)'
  BY <1>0, <1>1
<1>w. /\ idle + sleep <= (Cardinality(Read) + missed + 1) * timing.poll
      /\ \A m \in Read :
           timing.vt + sleep <= hidden[m] + (Cardinality(ReadSince(m)) + missed) * timing.poll
  BY <1>0 DEF Waits
<1>2. idle' = idle + 1
  <2>1. /\ Cardinality(Read) + missed + 1 \in Nat
        /\ Cardinality(Items) + MaxFaults + 1 \in Nat
        /\ Cardinality(Read) + missed + 1 <= Cardinality(Items) + MaxFaults + 1
    BY Sizes, TimingAssumption
  <2>2. /\ (Cardinality(Read) + missed + 1) * timing.poll <= Patience
        /\ (Cardinality(Read) + missed + 1) * timing.poll \in Nat /\ Patience \in Nat
    BY <2>1, <1>t, Times DEF Patience
  <2>. QED  BY <1>0, <1>w, <2>2
<1>3. ASSUME NEW m \in Read  PROVE hidden[m] > 1
  <2>1. /\ Cardinality(ReadSince(m)) + missed \in Nat
        /\ Cardinality(Returning) + missed \in Nat
        /\ Cardinality(ReadSince(m)) + missed <= Cardinality(Returning) + missed
    BY Sizes
  <2>2. /\ (Cardinality(ReadSince(m)) + missed) * timing.poll
             <= (Cardinality(Returning) + missed) * timing.poll
        /\ (Cardinality(ReadSince(m)) + missed) * timing.poll \in Nat
        /\ (Cardinality(Returning) + missed) * timing.poll \in Nat
    BY <2>1, <1>t, Times
  <2>3. (Cardinality(Returning) + missed) * timing.poll < timing.vt
    BY DEF Fits
  <2>4. timing.vt + sleep <= hidden[m] + (Cardinality(ReadSince(m)) + missed) * timing.poll
    BY <1>w
  <2>5. hidden[m] \in Nat
    BY DEF Read, Returning, InQueue, Stored
  <2>. QED  BY <1>0, <1>t, <2>2, <2>3, <2>4, <2>5
<1>4. Read' = Read
  BY <1>0, <1>1, <1>2, <1>3, <1>t DEF Read, Returning, InQueue, Stored
<1>5. ASSUME NEW m \in Read
      PROVE  hidden'[m] = hidden[m] - 1 /\ hidden[m] \in Nat /\ ReadSince(m)' = ReadSince(m)
  <2>1. \A j \in Read : hidden'[j] = hidden[j] - 1 /\ hidden[j] \in Nat
    BY <1>0, <1>3 DEF Read, Returning, InQueue, Stored
  <2>. QED  BY <1>4, <2>1 DEF ReadSince
<1>6. (idle + Due <= (Cardinality(Read) + missed + 1) * timing.poll)'
  <2>1. Cardinality(Read) + missed + 1 \in Nat
    BY Sizes
  <2>2. (Cardinality(Read) + missed + 1) * timing.poll \in Nat
    BY <2>1, <1>t, Times
  <2>3. idle' + Due' <= (Cardinality(Read) + missed + 1) * timing.poll
    BY <1>0, <1>2, <1>w, <2>2
  <2>. QED  BY <1>0, <1>4, <2>3
<1>7. ASSUME NEW m \in Read
      PROVE  (timing.vt + Due <= hidden[m] + (Cardinality(ReadSince(m)) + missed) * timing.poll)'
  <2>1. (Cardinality(ReadSince(m)) + missed) * timing.poll \in Nat
    BY Sizes, <1>t, Times
  <2>2. timing.vt + sleep <= hidden[m] + (Cardinality(ReadSince(m)) + missed) * timing.poll
    BY <1>w
  <2>3. Cardinality(ReadSince(m))' = Cardinality(ReadSince(m)) /\ timing' = timing /\ missed' = missed
    BY <1>0, <1>5
  <2>. QED  BY <1>0, <1>5, <1>t, <2>1, <2>2, <2>3
<1>. QED  BY <1>4, <1>6, <1>7

LEMMA WaitInvStep ==
  ASSUME LoopInv, LoopInv', InHand, WaitInv, missed <= MaxFaults, [Next]_vars
  PROVE  WaitInv'
<1>. USE DEF config, queueVars, planeVars, history
<1>r. Returning \subseteq Items /\ Returning' \subseteq Items
  BY DEF Returning, InQueue, Stored
<1>1. ASSUME NEW i \in Items, Submit(i)  PROVE WaitInv'
  <2>1. /\ item[i] = "absent" /\ item' = [item EXCEPT ![i] = "queued"] /\ hidden[i] = 0
        /\ unroutable' \in {unroutable, unroutable \cup {i}}
        /\ UNCHANGED <<timing, archived, hidden, plane, cur, sleep, active, idle, missed>>
    BY <1>1 DEF Submit, LoopInv
  <2>2. /\ Returning \subseteq Returning' /\ Returning' \subseteq Returning \cup {i}
        /\ i \notin Returning
    BY <2>1 DEF Returning, InQueue, Stored, LoopInv
  <2>3. Fits' => Fits
    BY <1>r, <2>1, <2>2, FitsBefore DEF LoopInv
  <2>4. Read' = Read
    <3>1. \A j \in Returning' : hidden'[j] > 0 => j \in Returning
      BY <2>1, <2>2
    <3>. QED  BY <2>1, <2>2, <3>1 DEF Read
  <2>5. Due' = Due
    <3>1. plane \in Taking => cur # i
      BY <2>1 DEF InHand, InQueue, Stored
    <3>. QED  BY <2>1, <2>2, <3>1 DEF Due
  <2>6. CASE plane \in Waits
    BY <2>1, <2>3, <2>4, <2>5, <2>6, Stays, DueType
  <2>7. CASE plane \notin Waits
    BY <2>1, <2>7 DEF WaitInv
  <2>. QED  BY <2>6, <2>7
<1>2. ASSUME plane \in Waits, UNCHANGED <<config, queueVars, idle, active>>,
             \/ missed' = missed /\ Due' <= Due
             \/ missed' = missed + 1
      PROVE  WaitInv'
  <2>1. Returning' = Returning /\ Read' = Read
    BY <1>2 DEF Returning, InQueue, Stored, Read
  <2>2. Fits' => Fits
    BY <1>r, <1>2, <2>1, FitsBefore DEF LoopInv
  <2>. QED  BY <1>2, <2>1, <2>2, Stays
<1>3. CASE LoseNote \/ UNCHANGED vars
  <2>1. UNCHANGED <<config, queueVars, plane, cur, sleep, idle, active, missed>>
    BY <1>3 DEF LoseNote, vars
  <2>2. Due' = Due
    BY <2>1 DEF Due, Returning, InQueue, Stored
  <2>3. CASE plane \notin Waits
    BY <2>1, <2>3 DEF WaitInv
  <2>. QED  BY <1>2, <2>1, <2>2, <2>3, DueType
<1>4. CASE ListenerFails \/ Notified \/ TimerFires
  <2>1. Turn
    BY <1>4 DEF ListenerFails, Notified, TimerFires
  <2>2. Due' = 0
    BY <2>1 DEF Turn, Due, Taking
  <2>. QED  BY <1>2, <2>1, <2>2, DueType DEF Turn, Waits
<1>5. CASE Skip
  BY <1>5, TimingAssumption DEF Skip, WaitInv, LoopInv
<1>6. CASE ReadNothing \/ Start \/ Crash
  <2>1. idle' = 0
    BY <1>6 DEF ReadNothing, Start, Crash
  <2>. QED  BY <2>1, Begins
<1>7. CASE ReadMessage
  <2>. DEFINE i == Lowest(Visible)
  <2>1. /\ plane = "reading" /\ plane' = "routing" /\ cur' = i /\ sleep' = sleep
        /\ hidden' = [hidden EXCEPT ![i] = timing.vt]
        /\ UNCHANGED <<timing, unroutable, item, archived, idle, missed, active>>
    BY <1>7 DEF ReadMessage, Goto, Hide
  <2>2. i \in Items /\ hidden[i] = 0
    BY <1>7, LowestVisible DEF ReadMessage, Visible, InQueue, Stored
  <2>3. Returning' = Returning /\ plane \in Waits
    BY <2>1 DEF Returning, InQueue, Stored, Waits
  <2>4. Fits' => Fits
    BY <2>1, <2>3 DEF Fits
  <2>. HIDE DEF i
  <2>5. i \notin Read /\ \A m \in Read : hidden'[m] = hidden[m]
    BY <2>1, <2>2, <1>r DEF Read, LoopInv
  <2>6. CASE i \in Returning
    <3>1. Read' = Read \cup {i} /\ hidden'[i] = timing.vt
      BY <2>1, <2>2, <2>3, <2>6, <1>r, TimingTypes DEF Read, LoopInv
    <3>. QED  BY <2>1, <2>2, <2>3, <2>4, <2>5, <3>1, GoesOn
  <2>7. CASE i \notin Returning
    <3>1. Read' = Read
      BY <2>1, <2>2, <2>3, <2>7, <1>r DEF Read, LoopInv
    <3>2. Due' = Due
      BY <2>1, <2>3, <2>7 DEF Due, Taking
    <3>. QED  BY <2>1, <2>3, <2>4, <2>5, <3>1, <3>2, Stays, DueType
  <2>. QED  BY <2>6, <2>7
<1>8. CASE Route
  <2>1. UNCHANGED <<config, queueVars, cur, sleep, idle, missed, active>>
        /\ plane \in Taking /\ plane' \in Taking
    BY <1>8 DEF Route, Goto, Taking
  <2>2. Due' = Due
    BY <2>1 DEF Due, Returning, InQueue, Stored
  <2>. QED  BY <1>2, <2>1, <2>2, DueType DEF Waits
<1>9. CASE Unroutable \/ ClaimMiss
  <2>1. /\ UNCHANGED <<config, queueVars, idle, missed, active>>
        /\ plane \in Taking /\ cur \in Returning
    BY <1>9 DEF Unroutable, ClaimMiss, Return, Taking, InHand, Returning
  <2>2. Due = timing.poll
    BY <2>1 DEF Due
  <2>3. Due' <= timing'.poll /\ timing' = timing
    BY <2>1, TimingTypes DEF Due, LoopInv
  <2>. QED  BY <1>2, <2>1, <2>2, <2>3 DEF Waits
<1>10. CASE Claim
  <2>1. /\ plane = "claiming" /\ plane' = "starting" /\ cur' = cur
        /\ item[cur] = "queued" /\ item' = [item EXCEPT ![cur] = "claimed"]
        /\ UNCHANGED <<config, archived, hidden, idle, missed, active>>
    BY <1>10 DEF Claim, Goto
  <2>2. cur \in InQueue /\ cur \in Items /\ hidden[cur] = timing.vt /\ cur \notin unroutable
    BY <2>1 DEF InHand, Taking
  <2>3. Returning' = Returning \cup {cur} /\ cur \notin Returning
    BY <2>1, <2>2 DEF Returning, InQueue, Stored, LoopInv
  <2>4. Fits' => Fits
    BY <1>r, <2>1, <2>3, FitsBefore DEF LoopInv
  <2>5. cur \notin Read /\ Read' = Read \cup {cur}
    <3>1. hidden[cur] > 0 /\ hidden[cur] + idle >= timing.vt
      BY <2>2, TimingTypes DEF LoopInv
    <3>. QED  BY <2>1, <2>2, <2>3, <3>1 DEF Read
  <2>6. /\ UNCHANGED <<timing, idle, missed, active>> /\ plane \in Waits
        /\ hidden'[cur] = timing.vt /\ \A m \in Read : hidden'[m] = hidden[m]
    BY <2>1, <2>2 DEF Waits, Taking
  <2>. QED  BY <2>2, <2>4, <2>5, <2>6, GoesOn
<1>11. ASSUME plane \notin Waits, UNCHANGED idle  PROVE WaitInv'
  <2>1. idle' = 0
    BY <1>11 DEF LoopInv
  <2>. QED  BY <2>1, Begins
<1>12. CASE CreateFocus \/ CreateFocusFails \/ RunFocus \/ Complete \/ Archive \/ Fail
            \/ Cleanup \/ Restart
  <2>1. plane \notin Waits /\ UNCHANGED idle
    BY <1>12 DEF CreateFocus, CreateFocusFails, RunFocus, Complete, Archive, Fail, Cleanup,
                 Restart, Goto, Return, Waits, Taking
  <2>. QED  BY <1>11, <2>1
<1>13. CASE Abandon
  <2>1. UNCHANGED <<config, queueVars, idle, active>>
    BY <1>13 DEF Abandon
  <2>2. CASE plane \in {"reading"} \cup Taking
    <3>1. missed' = missed + 1
      BY <1>13, <2>2 DEF Abandon
    <3>. QED  BY <1>2, <2>1, <2>2, <3>1 DEF Waits
  <2>3. CASE plane \notin {"reading"} \cup Taking
    <3>1. plane \notin Waits
      BY <1>13, <2>3 DEF Abandon, Waits, Executing
    <3>. QED  BY <1>11, <2>1, <3>1
  <2>. QED  BY <2>2, <2>3
<1>14. CASE Tick
  <2>1. CASE plane = "waiting" /\ HasWork
    BY <1>14, <2>1, Passes
  <2>2. CASE ~ (plane = "waiting" /\ HasWork)
    <3>1. idle' = 0
      BY <1>14, <2>2 DEF Tick
    <3>. QED  BY <3>1, Begins
  <2>. QED  BY <2>1, <2>2
<1>. QED  BY <1>1, <1>3, <1>4, <1>5, <1>6, <1>7, <1>8, <1>9, <1>10, <1>12, <1>13, <1>14
          DEF Next, PlaneStep, ProcessWork

-----------------------------------------------------------------------------
(* Counters                                                                *)

(* A notification stands for an item that was submitted and for no other,  *)
(* a slot is taken for the item executed or was lost, and the counters     *)
(* keep below their bounds.                                                *)
CounterInv ==
  /\ unroutable \subseteq Stored
  /\ plane \notin Taking \cup Executing => cur = NoItem
  /\ left \in Nat /\ (left > 0 => plane = "focus")
  /\ active <= MaxConcurrent
  /\ plane \in Taking \cup {"creating"} => active < MaxConcurrent
  /\ notes \in Nat /\ notes <= Cardinality(Stored)
  /\ idle <= Patience + 1
  /\ faults \in 0..MaxFaults /\ missed <= faults

LEMMA StoredSizes ==
  /\ IsFiniteSet(Stored) /\ Cardinality(Stored) \in Nat
  /\ Cardinality(Stored) <= Cardinality(Items) /\ Cardinality(Items) \in Nat
<1>1. Stored \subseteq Items
  BY DEF Stored
<1>. QED  BY <1>1, TimingAssumption, FS_Subset, FS_CardinalityType

LEMMA PatienceType ==
  ASSUME timing \in Timings
  PROVE  Patience \in Nat
<1>1. Cardinality(Items) + MaxFaults + 1 \in Nat
  BY TimingAssumption, FS_CardinalityType
<1>2. (Cardinality(Items) + MaxFaults + 1) * timing.poll \in Nat
  BY <1>1, TimingTypes, Times
<1>. QED  BY <1>2 DEF Patience

LEMMA CounterInvStep ==
  ASSUME LoopInv, InHand, CounterInv, [Next]_vars
  PROVE  CounterInv'
<1>. USE TimingAssumption
     DEF CounterInv, LoopInv, Waits, Taking, Executing, config, queueVars, planeVars, history
<1>t. Patience \in Nat /\ (timing' = timing => Patience' = Patience)
  BY PatienceType DEF Patience
<1>1. ASSUME NEW i \in Items, Submit(i)  PROVE CounterInv'
  <2>1. i \notin Stored /\ Stored' = Stored \cup {i}
    BY <1>1 DEF Submit, Stored, States
  <2>2. Cardinality(Stored)' = Cardinality(Stored) + 1 /\ Cardinality(Stored) \in Nat
    BY <2>1, StoredSizes, FS_AddElement
  <2>. QED  BY <1>1, <1>t, <2>1, <2>2 DEF Submit
<1>s. ASSUME \A j \in Items : item'[j] = "absent" <=> item[j] = "absent"  PROVE Stored' = Stored
  BY <1>s DEF Stored
<1>2. CASE LoseNote \/ UNCHANGED vars
  <2>1. Stored' = Stored
    BY <1>2, <1>s DEF LoseNote, vars
  <2>. QED  BY <1>2, <1>t, <2>1, StoredSizes DEF LoseNote, vars
<1>3. CASE ListenerFails \/ Notified \/ TimerFires
  <2>1. Stored' = Stored
    BY <1>3, <1>s DEF ListenerFails, Notified, TimerFires, Turn
  <2>. QED  BY <1>3, <1>t, <2>1, StoredSizes DEF ListenerFails, Notified, TimerFires, Turn
<1>4. CASE Crash \/ Restart
  <2>1. Stored' = Stored
    BY <1>4, <1>s DEF Crash, Restart
  <2>. QED  BY <1>4, <1>t, <2>1, StoredSizes DEF Crash, Restart, Return
<1>5. CASE Skip \/ ReadNothing \/ Unroutable \/ ClaimMiss \/ Cleanup
  <2>1. Stored' = Stored
    BY <1>5, <1>s DEF Skip, ReadNothing, Unroutable, ClaimMiss, Cleanup
  <2>. QED  BY <1>5, <1>t, <2>1 DEF Skip, ReadNothing, Unroutable, ClaimMiss, Cleanup, Return
<1>6. CASE ReadMessage \/ Route
  <2>1. Stored' = Stored
    BY <1>6, <1>s DEF ReadMessage, Route
  <2>. QED  BY <1>6, <1>t, <2>1 DEF ReadMessage, Route, Goto
<1>7. CASE Claim \/ Start \/ Complete \/ Fail
  <2>1. Stored' = Stored
    BY <1>7, <1>s DEF InHand, Claim, Start, Complete, Fail, Goto
  <2>. QED  BY <1>7, <1>t, <2>1 DEF Claim, Start, Complete, Fail, Goto
<1>8. CASE CreateFocus \/ CreateFocusFails
  <2>1. Stored' = Stored
    BY <1>8, <1>s DEF CreateFocus, CreateFocusFails
  <2>2. active' = active + 1 /\ active + 1 <= MaxConcurrent
    BY <1>8 DEF CreateFocus, CreateFocusFails, Goto, Return
  <2>3. CASE CreateFocus
    <3>1. left' \in Nat
      BY <2>3 DEF CreateFocus
    <3>. QED  BY <1>t, <2>1, <2>2, <2>3, <3>1 DEF CreateFocus, Goto
  <2>4. CASE CreateFocusFails
    BY <1>t, <2>1, <2>2, <2>4 DEF CreateFocusFails, Return
  <2>. QED  BY <1>8, <2>3, <2>4
<1>9. CASE RunFocus \/ Archive
  <2>1. Stored' = Stored
    BY <1>9, <1>s DEF RunFocus, Archive
  <2>. QED  BY <1>9, <1>t, <2>1 DEF RunFocus, Archive, Goto
<1>12. CASE Abandon
  <2>1. Stored' = Stored
    BY <1>12, <1>s DEF Abandon
  <2>. QED  BY <1>12, <1>t, <2>1 DEF Abandon, Return
<1>13. CASE Tick
  <2>1. Stored' = Stored
    BY <1>13, <1>s DEF Tick
  <2>2. left' \in Nat /\ (left' > 0 => left > 0) /\ idle' <= Patience + 1 /\ missed' <= faults
    BY <1>13, <1>t DEF Tick, Minus1, Least
  <2>. QED  BY <1>13, <1>t, <2>1, <2>2 DEF Tick
<1>. QED  BY <1>1, <1>2, <1>3, <1>4, <1>5, <1>6, <1>7, <1>8, <1>9, <1>12, <1>13
          DEF Next, PlaneStep, ProcessWork

-----------------------------------------------------------------------------
(* The theorems                                                            *)

LoopSafe == LoopInv /\ InHand /\ CounterInv /\ WaitInv

LEMMA LoopIsSafe == Spec => []LoopSafe
<1>1. Init => LoopSafe
  <2>. SUFFICES ASSUME Init  PROVE LoopSafe
    OBVIOUS
  <2>t. timing.vt \in Nat \ {0} /\ timing.poll \in Nat \ {0} /\ Patience \in Nat
    BY TimingTypes, PatienceType DEF Init
  <2>1. LoopInv
    BY <2>t DEF Init, LoopInv, States, Planes, Waits
  <2>2. InHand
    BY DEF Init, InHand, Taking, Executing
  <2>3. CounterInv
    BY <2>t, StoredSizes, TimingAssumption DEF Init, CounterInv, Taking, Executing
  <2>4. WaitInv
    <3>1. Read = {} /\ idle + Due = timing.poll /\ missed = 0
      BY <2>t DEF Init, Read, Returning, InQueue, Stored, Due, Taking
    <3>. QED  BY <2>t, <3>1, FS_EmptySet DEF WaitInv
  <2>. QED  BY <2>1, <2>2, <2>3, <2>4 DEF LoopSafe
<1>2. LoopSafe /\ [Next]_vars => LoopSafe'
  <2>. SUFFICES ASSUME LoopSafe, [Next]_vars  PROVE LoopSafe'
    OBVIOUS
  <2>1. LoopInv' /\ InHand' /\ CounterInv'
    BY LoopInvStep, InHandStep, CounterInvStep DEF LoopSafe
  <2>2. missed <= MaxFaults
    BY TimingAssumption DEF LoopSafe, LoopInv, CounterInv
  <2>. QED  BY <2>1, <2>2, WaitInvStep DEF LoopSafe
<1>. QED  BY <1>1, <1>2, PTL DEF Spec

(* ControlPlane::run: a plane with a free slot and a message it could read *)
(* for an item to be executed waits for its next item at most one poll     *)
(* interval per returning message, one per turn that an error cost it, and *)
(* one more, as long as poll_interval times their number is below          *)
(* visibility_timeout.                                                     *)
THEOREM WaitIsBounded == Spec => []IdleIsBounded
<1>1. LoopSafe => IdleIsBounded
  <2>. SUFFICES ASSUME LoopSafe, Fits, active < MaxConcurrent
                PROVE  idle <= (Cardinality(Returning) + missed + 1) * timing.poll
    BY DEF IdleIsBounded
  <2>. USE DEF LoopSafe
  <2>t. timing.vt \in Nat \ {0} /\ timing.poll \in Nat \ {0} /\ missed \in Nat
    BY TimingTypes DEF LoopInv
  <2>1. /\ Cardinality(Read) + missed + 1 \in Nat /\ Cardinality(Returning) + missed + 1 \in Nat
        /\ Cardinality(Read) + missed + 1 <= Cardinality(Returning) + missed + 1
    BY <2>t, Sizes
  <2>2. /\ (Cardinality(Read) + missed + 1) * timing.poll
             <= (Cardinality(Returning) + missed + 1) * timing.poll
        /\ (Cardinality(Read) + missed + 1) * timing.poll \in Nat
        /\ (Cardinality(Returning) + missed + 1) * timing.poll \in Nat
    BY <2>t, <2>1, Times
  <2>3. CASE plane \in Waits
    <3>1. idle + Due <= (Cardinality(Read) + missed + 1) * timing.poll
      BY <2>3 DEF WaitInv
    <3>. QED  BY <2>2, <3>1, DueType DEF LoopInv
  <2>4. CASE plane \notin Waits
    BY <2>2, <2>4 DEF LoopInv
  <2>. QED  BY <2>3, <2>4
<1>. QED  BY <1>1, LoopIsSafe, PTL

(* ControlPlane::run: an item in hand is running, a message is hidden no   *)
(* longer than its timeout, no slot is counted that there is not, and no   *)
(* notification stands for nothing.                                        *)
THEOREM LoopTypes == Spec => []PollTypeOK
<1>1. LoopSafe => PollTypeOK
  <2>. SUFFICES ASSUME LoopSafe  PROVE PollTypeOK
    OBVIOUS
  <2>. USE DEF LoopSafe
  <2>1. /\ timing \in Timings /\ unroutable \subseteq Stored /\ item \in [Items -> States]
        /\ archived \subseteq {i \in Items : item[i] = "completed"}
        /\ plane \in Planes /\ faults \in 0..MaxFaults
        /\ plane \in {"creating", "focus", "completing", "failing"} => item[cur] = "running"
        /\ left \in Nat /\ (left > 0 => plane = "focus") /\ (sleep > 0 => plane = "waiting")
    BY DEF LoopInv, InHand, CounterInv
  <2>2. \A i \in Items : hidden[i] \in 0..timing.vt
    BY TimingTypes DEF LoopInv
  <2>3. sleep \in 0..timing.poll /\ idle \in 0..Patience + 1
    BY TimingTypes, PatienceType DEF LoopInv, CounterInv
  <2>4. notes \in 0..Cardinality(Items)
    BY StoredSizes DEF CounterInv
  <2>5. active \in 0..MaxConcurrent /\ missed \in 0..faults
    BY TimingAssumption DEF LoopInv, CounterInv
  <2>6. (plane \in Taking \cup Executing) <=> (cur \in Items)
    <3>1. NoItem \notin Items
      BY TimingAssumption DEF NoItem
    <3>. QED  BY <3>1 DEF InHand, CounterInv
  <2>. QED  BY <2>1, <2>2, <2>3, <2>4, <2>5, <2>6 DEF PollTypeOK
<1>. QED  BY <1>1, LoopIsSafe, PTL
=============================================================================
