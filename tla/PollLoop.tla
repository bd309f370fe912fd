------------------------------ MODULE PollLoop ------------------------------
(***************************************************************************)
(* ControlPlane::run (src/engine/control.rs) in time.  pgmq.read returns   *)
(* the lowest visible msg_id and hides it for visibility_timeout; the loop *)
(* reads one message per wake-up, for a notification or when poll_interval *)
(* has passed.  ControlPlane leaves out both the order and the time; here  *)
(* there is one plane, and a message that can never be processed (its      *)
(* faculty is unknown, its item has failed or was stranded by a failure)   *)
(* comes back after each timeout.  A message that was read and dropped     *)
(* before the claim comes back, too, and its item is then processed.       *)
(*                                                                         *)
(* Time passes in units, in select! and while the hooks run.  Statements   *)
(* take none: a plane that is awake is never late.                         *)
(***************************************************************************)
EXTENDS Naturals, FiniteSets

CONSTANTS
  Items,          \* msg_ids, which are assigned in order
  Timings,        \* values of visibility_timeout (vt) and poll_interval (poll)
  Durations,      \* how long the hooks of an item may take
  MaxConcurrent,  \* max_concurrent
  MaxFaults       \* bound: crashes, database and file system errors together

ASSUME TimingAssumption ==
  /\ IsFiniteSet(Items) /\ Items \subseteq Nat \ {0}
  /\ Timings \subseteq [vt : Nat \ {0}, poll : Nat \ {0}]
  /\ Durations \subseteq Nat \ {0}
  /\ MaxConcurrent \in Nat
  /\ MaxFaults \in Nat

VARIABLES
  timing,      \* the ControlConfig
  unroutable,  \* the items whose faculty no registry knows
  item,        \* item[i]: its state, absent before it is submitted
  archived,    \* the messages in the archive
  hidden,      \* hidden[i]: time until message i is visible
  plane,       \* its place in run and process_work, or down
  cur,         \* the item of the message in hand, or NoItem
  left,        \* time until its hooks end
  sleep,       \* time until the poll timer fires
  active,      \* active_foci
  notes,       \* notifications the listener holds
  idle,        \* history: how long it has waited while there was work
  missed,      \* history: the turns lost to an error in that time
  faults       \* crashes and errors so far

config == <<timing, unroutable>>
queueVars == <<item, archived, hidden>>
planeVars == <<plane, cur, left, sleep, active>>
history == <<idle, missed>>
vars == <<config, queueVars, planeVars, notes, history, faults>>

NoItem == 0
States == {"absent", "queued", "claimed", "running", "completed", "failed"}
Stored == {i \in Items : item[i] # "absent"}
InQueue == Stored \ archived
Visible == {i \in InQueue : hidden[i] = 0}
Lowest(S) == CHOOSE i \in S : \A j \in S : i <= j

(* The places before an item is started, and after.                        *)
Taking == {"routing", "claiming", "starting"}
Executing ==
  {"creating", "focus", "completing", "failing", "archiving", "cleanup"}
Planes == {"waiting", "reading", "down"} \cup Taking \cup Executing

(* Bound of the counter idle: nothing is asked of it beyond.               *)
Patience == (Cardinality(Items) + MaxFaults + 1) * timing.poll

PollTypeOK ==
  /\ timing \in Timings
  /\ unroutable \subseteq Stored
  /\ item \in [Items -> States]
  /\ archived \subseteq {i \in Items : item[i] = "completed"}
  /\ \A i \in Items : hidden[i] \in 0..timing.vt
  /\ plane \in Planes
  /\ plane \in Taking \cup Executing <=> cur \in Items
  /\ plane \in {"creating", "focus", "completing", "failing"} =>
       item[cur] = "running"
  /\ left \in Nat /\ (left > 0 => plane = "focus")
  /\ sleep \in 0..timing.poll /\ (sleep > 0 => plane = "waiting")
  /\ active \in 0..MaxConcurrent
  /\ notes \in 0..Cardinality(Items)
  /\ idle \in 0..Patience + 1
  /\ missed \in 0..faults
  /\ faults \in 0..MaxFaults

Init ==
  /\ timing \in Timings
  /\ unroutable = {}
  /\ item = [i \in Items |-> "absent"]
  /\ archived = {}
  /\ hidden = [i \in Items |-> 0]
  /\ plane = "waiting" /\ cur = NoItem /\ left = 0 /\ active = 0
  /\ sleep = timing.poll
  /\ notes = 0 /\ idle = 0 /\ missed = 0
  /\ faults = 0

-----------------------------------------------------------------------------
(* Clients and the database                                                *)

(* Mutant: the table has a trigger that notifies, too.                     *)
MutSubmit(i) ==
  /\ item[i] = "absent"
  /\ item' = [item EXCEPT ![i] = "queued"]
  /\ unroutable' \in {unroutable, unroutable \cup {i}}
  /\ notes' = IF plane = "down" THEN 0 ELSE notes + 2
  /\ UNCHANGED <<timing, archived, hidden, planeVars, history, faults>>

(* submit_work commits: the message and its NOTIFY appear together.        *)
(* Transactions may commit in another order than they drew their msg_ids.  *)
(* A plane that is down listens to nothing.                                *)
Submit(i) ==
  /\ item[i] = "absent"
  /\ item' = [item EXCEPT ![i] = "queued"]
  /\ unroutable' \in {unroutable, unroutable \cup {i}}
  /\ notes' = IF plane = "down" THEN 0 ELSE notes + 1
  /\ UNCHANGED <<timing, archived, hidden, planeVars, history, faults>>

(* The listener's connection was down when a notification was sent; it is  *)
(* made again, without what it missed.                                     *)
LoseNote ==
  /\ notes > 0
  /\ notes' = notes - 1
  /\ UNCHANGED <<config, queueVars, planeVars, history, faults>>

-----------------------------------------------------------------------------
(* The loop                                                                *)

Goto(from, to) ==
  /\ plane = from /\ plane' = to
  /\ UNCHANGED sleep

(* process_work returns, with an error or without; the next turn of the    *)
(* loop makes a new sleep future.                                          *)
Return(from) ==
  /\ plane = from /\ plane' = "waiting" /\ cur' = NoItem
  /\ sleep' = timing.poll

(* select! picks one of the branches that are ready and drops the others.  *)
Turn ==
  /\ plane = "waiting" /\ plane' = "reading"
  /\ sleep' = 0
  /\ UNCHANGED <<config, queueVars, cur, left, active, history, faults>>

Notified ==
  /\ notes > 0 /\ notes' = notes - 1
  /\ Turn

(* The listener cannot reconnect: recv returns an error, and the loop goes *)
(* on as if it had been woken.                                             *)
ListenerFails ==
  /\ Turn
  /\ UNCHANGED notes

(* Mutant: the timer only starts the next turn of the loop.                *)
MutTimerFires ==
  /\ sleep = 0 /\ Return("waiting")
  /\ UNCHANGED <<config, queueVars, left, active, notes, history, faults>>

TimerFires ==
  /\ sleep = 0 /\ Turn
  /\ UNCHANGED notes

(* The process is gone.  An item in hand stays as it is.                   *)
Crash ==
  /\ plane # "down" /\ faults < MaxFaults
  /\ plane' = "down" /\ cur' = NoItem /\ left' = 0 /\ sleep' = 0 /\ active' = 0
  /\ notes' = 0 /\ idle' = 0 /\ missed' = 0
  /\ faults' = faults + 1
  /\ UNCHANGED <<config, queueVars>>

Restart ==
  /\ Return("down")
  /\ UNCHANGED <<config, queueVars, left, active, notes, history, faults>>

-----------------------------------------------------------------------------
(* process_work                                                            *)

(* No slot is free: nothing is read.                                       *)
Skip ==
  /\ active >= MaxConcurrent
  /\ Return("reading")
  /\ UNCHANGED <<config, queueVars, left, active, notes, history, faults>>

ReadNothing ==
  /\ active < MaxConcurrent /\ Visible = {}
  /\ Return("reading")
  /\ idle' = 0 /\ missed' = 0
  /\ UNCHANGED <<config, queueVars, left, active, notes, faults>>

(* Mutant: the message is hidden for one poll interval.                    *)
MutHide(i) == hidden' = [hidden EXCEPT ![i] = timing.poll]

Hide(i) == hidden' = [hidden EXCEPT ![i] = timing.vt]

ReadMessage ==
  /\ active < MaxConcurrent /\ Visible # {}
  /\ Goto("reading", "routing")
  /\ cur' = Lowest(Visible) /\ Hide(Lowest(Visible))
  /\ UNCHANGED <<config, item, archived, left, active, notes, history, faults>>

Route ==
  /\ Goto("routing", "claiming")
  /\ cur \notin unroutable
  /\ UNCHANGED <<config, queueVars, cur, left, active, notes, history, faults>>

Unroutable ==
  /\ Return("routing")
  /\ cur \in unroutable
  /\ UNCHANGED <<config, queueVars, left, active, notes, history, faults>>

Claim ==
  /\ Goto("claiming", "starting")
  /\ item[cur] = "queued"
  /\ item' = [item EXCEPT ![cur] = "claimed"]
  /\ UNCHANGED <<config, archived, hidden, cur, left, active, notes, history,
                 faults>>

ClaimMiss ==
  /\ Return("claiming")
  /\ item[cur] # "queued"
  /\ UNCHANGED <<config, queueVars, left, active, notes, history, faults>>

(* Nobody else moves the item: the guarded UPDATE finds it claimed.        *)
Start ==
  /\ Goto("starting", "creating")
  /\ item' = [item EXCEPT ![cur] = "running"]
  /\ idle' = 0 /\ missed' = 0
  /\ UNCHANGED <<config, archived, hidden, cur, left, active, notes, faults>>

CreateFocus ==
  /\ Goto("creating", "focus")
  /\ active' = active + 1
  /\ left' \in Durations
  /\ UNCHANGED <<config, queueVars, cur, notes, history, faults>>

(* Focus::create returns an error behind the fetch_add: the slot is lost.  *)
CreateFocusFails ==
  /\ faults < MaxFaults /\ faults' = faults + 1
  /\ Return("creating")
  /\ active' = active + 1
  /\ UNCHANGED <<config, queueVars, left, notes, history>>

(* The hooks succeed or one of them fails.                                 *)
RunFocus ==
  /\ plane = "focus" /\ left = 0
  /\ \E to \in {"completing", "failing"} : Goto("focus", to)
  /\ active' = active - 1
  /\ UNCHANGED <<config, queueVars, cur, left, notes, history, faults>>

Complete ==
  /\ Goto("completing", "archiving")
  /\ item' = [item EXCEPT ![cur] = "completed"]
  /\ UNCHANGED <<config, archived, hidden, cur, left, active, notes, history,
                 faults>>

Archive ==
  /\ Goto("archiving", "cleanup")
  /\ archived' = archived \cup {cur}
  /\ hidden' = [hidden EXCEPT ![cur] = 0]
  /\ UNCHANGED <<config, item, cur, left, active, notes, history, faults>>

(* The message stays in the queue.                                         *)
Fail ==
  /\ Goto("failing", "cleanup")
  /\ item' = [item EXCEPT ![cur] = "failed"]
  /\ UNCHANGED <<config, archived, hidden, cur, left, active, notes, history,
                 faults>>

Cleanup ==
  /\ Return("cleanup")
  /\ UNCHANGED <<config, queueVars, left, active, notes, history, faults>>

(* A statement fails, or was carried out and its answer is lost: the place *)
(* behind a statement is also the one where its answer is awaited.         *)
Abandon ==
  /\ faults < MaxFaults /\ faults' = faults + 1
  /\ plane \in {"reading"} \cup Taking \cup (Executing \ {"focus"})
  /\ Return(plane)
  /\ missed' = IF plane \in {"reading"} \cup Taking THEN missed + 1 ELSE missed
  /\ UNCHANGED <<config, queueVars, left, active, notes, idle>>

ProcessWork ==
  \/ Skip \/ ReadNothing \/ ReadMessage \/ Route \/ Unroutable
  \/ Claim \/ ClaimMiss
  \/ Start \/ CreateFocus \/ RunFocus \/ Complete \/ Archive \/ Fail \/ Cleanup

-----------------------------------------------------------------------------
(* Time                                                                    *)

(* Items to be executed whose message can be read.                         *)
Processable(i) == item[i] = "queued" /\ i \notin unroutable
HasWork == \E i \in Visible : Processable(i)

Least(m, n) == IF m < n THEN m ELSE n
Minus1(n) == IF n = 0 THEN 0 ELSE n - 1

(* Time passes unless the plane has something to do at this moment.        *)
Tick ==
  /\ \/ plane = "waiting" /\ notes = 0 /\ sleep > 0
     \/ plane = "focus" /\ left > 0
     \/ plane = "down"
  /\ hidden' = [i \in Items |-> Minus1(hidden[i])]
  /\ left' = Minus1(left)
  /\ sleep' = Minus1(sleep)
  /\ IF plane = "waiting" /\ HasWork
     THEN idle' = Least(idle + 1, Patience + 1) /\ UNCHANGED missed
     ELSE idle' = 0 /\ missed' = 0
  /\ UNCHANGED <<config, item, archived, plane, cur, active, notes, faults>>

PlaneStep == Notified \/ TimerFires \/ ProcessWork \/ Restart \/ Tick

Next ==
  \/ \E i \in Items : Submit(i)
  \/ LoseNote \/ ListenerFails \/ Crash \/ CreateFocusFails \/ Abandon
  \/ PlaneStep

Spec == Init /\ [][Next]_vars

(* Statements are answered, hooks end, and a plane that crashed is started *)
(* again.  A listener that fails again and again holds up neither the      *)
(* notifications it has nor the time.                                      *)
FairSpec == Spec /\ WF_vars(PlaneStep) /\ SF_vars(Notified \/ Tick)

-----------------------------------------------------------------------------
(* Properties                                                              *)

(* Messages that come back for ever: the claim of their item never matches *)
(* again, or no faculty is registered for it.                              *)
Returning == {i \in InQueue : item[i] # "queued" \/ i \in unroutable}

(* The plane can read them all, one per poll interval, before the first of *)
(* them is visible again, the turns included that an error costs it.       *)
Fits == (Cardinality(Returning) + missed) * timing.poll < timing.vt

(* While they fit and it has a slot free, a plane that could read the      *)
(* message of an item to be executed waits for its next item at most one   *)
(* poll interval for each of them, one for each turn an error has cost it, *)
(* and one for the item, whatever the notifications do.  A message dropped *)
(* between the read and the claim cannot be read before its visibility     *)
(* timeout has passed; only then the wait for its item begins.             *)
IdleIsBounded ==
  Fits /\ active < MaxConcurrent =>
    idle <= (Cardinality(Returning) + missed + 1) * timing.poll

(* Failures of Focus::create have not used up the slots of the plane.      *)
HasSlot == plane = "waiting" => active < MaxConcurrent

(* As long as they fit (with the defaults of 60 and 5 seconds, as long as  *)
(* there are fewer than 12 of them) and the plane has a slot, every item   *)
(* is claimed in the end, also when its notification was lost or its       *)
(* message was read and dropped.                                           *)
QueuedIsRead ==
  \A i \in Items : <>[](Fits /\ HasSlot) => (Processable(i) ~> ~Processable(i))
=============================================================================
