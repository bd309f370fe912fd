----------------------------- MODULE ControlPlane -----------------------------
(***************************************************************************)
(* Control planes (src/engine/control.rs) that share one WorkStore with    *)
(* the clients that submit work.  Each plane is one task: its loop waits,  *)
(* then awaits process_work inline, so a plane holds at most one message.  *)
(* Every database statement and every file system or hook step that        *)
(* process_work awaits is an action; between two of them other planes,     *)
(* clients and the visibility timeout take steps.                          *)
(*                                                                         *)
(* pc[w] names what plane w does next:                                     *)
(*   waiting     select! over shutdown, notification and poll timer        *)
(*   routing     has a message, fetches the item and looks up its faculty  *)
(*   claiming    UPDATE queued -> claimed                                  *)
(*   starting    UPDATE claimed -> running                                 *)
(*   creating    count the focus, create its directory                     *)
(*   focus       the hooks of the focus run                                *)
(*   completing  complete_work       failing    fail_work                  *)
(*   archiving   pgmq.archive        cleanup    remove the directory       *)
(*   stopped     run() returned      down       the process crashed        *)
(***************************************************************************)
EXTENDS WorkStore, FiniteSets

CONSTANTS
  Planes,         \* control plane processes
  Registered,     \* faculties every plane's registry was loaded with
  MaxConcurrent,  \* max_concurrent
  HookResults,    \* how the hook pipeline of a focus may end
  ClientMoves,    \* transitions that users of the Db type make on their own
  Stoppable,      \* planes whose shutdown() may be called
  MaxFaults       \* bound: failures of planes that strike in a behaviour

ASSUME PlaneAssumption ==
  /\ IsFiniteSet(Planes)
  /\ Registered \subseteq Faculties
  /\ MaxConcurrent \in Nat \ {0}
  /\ HookResults \subseteq {"completed", "failed"}
  /\ ClientMoves \subseteq Transitions \ {<<"created", "queued">>, <<"created", "merged">>}
  /\ Stoppable \subseteq Planes
  /\ MaxFaults \in Nat

VARIABLES
  pc,      \* pc[w]: see above
  cur,     \* cur[w]: the item process_work is busy with
  active,  \* active[w]: the counter active_foci
  permit,  \* permit[w]: the permit notify_one left in shutdown
  dirs,    \* number of focus directories under focus_base_dir
  faults   \* failures of planes so far

planeVars == <<pc, cur, active, permit, dirs, faults>>
vars == <<storeVars, planeVars>>

\* The parts of the store that no plane touches.
submissions == <<request, sub, canonical>>

PlanePCs == {"waiting", "routing", "claiming", "starting", "creating", "focus",
             "completing", "failing", "archiving", "cleanup", "stopped", "down"}
Resting == {"waiting", "stopped", "down"}
Executing == {"creating", "focus", "completing", "failing"}
HasDir == {"focus", "completing", "failing", "archiving", "cleanup"}

PlaneTypeOK ==
  /\ pc \in [Planes -> PlanePCs]
  /\ cur \in [Planes -> WorkIds \cup {NoId}]
  /\ \A w \in Planes : pc[w] \in Resting <=> cur[w] = NoId
  /\ active \in [Planes -> Nat]
  /\ permit \in [Planes -> BOOLEAN]
  /\ dirs \in Nat
  /\ faults \in Nat

TypeOK == StoreTypeOK /\ PlaneTypeOK

Init ==
  /\ StoreInit
  /\ pc = [w \in Planes |-> "waiting"]
  /\ cur = [w \in Planes |-> NoId]
  /\ active = [w \in Planes |-> 0]
  /\ permit = [w \in Planes |-> FALSE]
  /\ dirs = 0
  /\ faults = 0

\* Plane w goes from one step of process_work to the next on the same item.
Step(w, from, to) ==
  /\ pc[w] = from
  /\ pc' = [pc EXCEPT ![w] = to]
  /\ UNCHANGED cur

\* process_work returns, with Ok or with an error that run() logs.
Return(w, from) ==
  /\ pc[w] = from
  /\ pc' = [pc EXCEPT ![w] = "waiting"]
  /\ cur' = [cur EXCEPT ![w] = NoId]

Fault(kind) ==
  /\ kind \in Faults
  /\ faults < MaxFaults
  /\ faults' = faults + 1

-----------------------------------------------------------------------------
(* process_work                                                            *)

(* Mutant: the loop takes work without looking at the counter.             *)
MutReceiveNoCapacity(w, i) ==
  /\ pc[w] = "waiting"
  /\ ReadFromQueue(i)
  /\ pc' = [pc EXCEPT ![w] = "routing"]
  /\ cur' = [cur EXCEPT ![w] = i]
  /\ UNCHANGED <<submissions, columns, active, permit, dirs, faults>>

(* The select! wakes up for a notification or the poll timer, the plane is *)
(* below its capacity, and a message is visible.  Concurrent reads skip    *)
(* rows that others have locked, so any visible message may be the one.    *)
Receive(w, i) ==
  /\ pc[w] = "waiting"
  /\ active[w] < MaxConcurrent
  /\ ReadFromQueue(i)
  /\ pc' = [pc EXCEPT ![w] = "routing"]
  /\ cur' = [cur EXCEPT ![w] = i]
  /\ UNCHANGED <<submissions, columns, active, permit, dirs, faults>>

(* get_work_item and registry.get: an unroutable item is left alone.       *)
Route(w) ==
  /\ \/ Step(w, "routing", "claiming") /\ request[cur[w]].faculty \in Registered
     \/ Return(w, "routing") /\ request[cur[w]].faculty \notin Registered
  /\ UNCHANGED <<storeVars, active, permit, dirs, faults>>

(* Mutant: the claim writes without the state = 'queued' condition.        *)
MutClaimUnconditional(w) ==
  /\ Step(w, "claiming", "starting")
  /\ state' = [state EXCEPT ![cur[w]] = "claimed"]
  /\ UNCHANGED <<submissions, merged_into, attempts, resolved, outcome, queue,
                 active, permit, dirs, faults>>

Claim(w) ==
  /\ Step(w, "claiming", "starting")
  /\ TransitionState(cur[w], "queued", "claimed")
  /\ UNCHANGED <<submissions, queue, active, permit, dirs, faults>>

(* The compare-and-set finds another state: `?` leaves process_work.       *)
ClaimMiss(w) ==
  /\ Return(w, "claiming")
  /\ state[cur[w]] # "queued"
  /\ UNCHANGED <<storeVars, active, permit, dirs, faults>>

(* Mutant: an item found running already is started as well.               *)
MutStartAgain(w) ==
  /\ Step(w, "starting", "creating")
  /\ state[cur[w]] \in {"claimed", "running"}
  /\ state' = [state EXCEPT ![cur[w]] = "running"]
  /\ attempts' = [attempts EXCEPT ![cur[w]] = @ + 1]
  /\ UNCHANGED <<submissions, merged_into, resolved, outcome, queue,
                 active, permit, dirs, faults>>

Start(w) ==
  /\ Step(w, "starting", "creating")
  /\ TransitionState(cur[w], "claimed", "running")
  /\ UNCHANGED <<submissions, queue, active, permit, dirs, faults>>

StartMiss(w) ==
  /\ Return(w, "starting")
  /\ state[cur[w]] # "claimed"
  /\ UNCHANGED <<storeVars, active, permit, dirs, faults>>

(* Mutant: active_foci is not raised, though it will be lowered.           *)
MutCreateFocusUncounted(w) ==
  /\ Step(w, "creating", "focus")
  /\ dirs' = dirs + 1
  /\ UNCHANGED <<storeVars, active, permit, faults>>

(* fetch_add, then Focus::create makes the directory and work.json.        *)
CreateFocus(w) ==
  /\ Step(w, "creating", "focus")
  /\ active' = [active EXCEPT ![w] = @ + 1]
  /\ dirs' = dirs + 1
  /\ UNCHANGED <<storeVars, permit, faults>>

(* Focus::create fails before or after it made the directory.  The counter *)
(* has been raised and `?` leaves process_work before fetch_sub.           *)
CreateFocusFails(w) ==
  /\ Return(w, "creating")
  /\ Fault("fs")
  /\ active' = [active EXCEPT ![w] = @ + 1]
  /\ dirs' \in {dirs, dirs + 1}
  /\ UNCHANGED <<storeVars, permit>>

(* Mutant: a hook's failure leaves process_work with `?`, before fail_work. *)
MutRunFocusReturns(w) ==
  /\ \/ "completed" \in HookResults /\ Step(w, "focus", "completing")
     \/ "failed" \in HookResults /\ Return(w, "focus")
  /\ active' = [active EXCEPT ![w] = @ - 1]
  /\ UNCHANGED <<storeVars, permit, dirs, faults>>

(* The hooks end one way or the other, then fetch_sub.                     *)
RunFocus(w) ==
  /\ \E r \in HookResults :
       Step(w, "focus", IF r = "completed" THEN "completing" ELSE "failing")
  /\ active' = [active EXCEPT ![w] = @ - 1]
  /\ UNCHANGED <<storeVars, permit, dirs, faults>>

Complete(w) ==
  /\ Step(w, "completing", "archiving")
  /\ CompleteWork(cur[w], {"data"})
  /\ UNCHANGED <<submissions, queue, active, permit, dirs, faults>>

CompleteMiss(w) ==
  /\ Return(w, "completing")
  /\ state[cur[w]] # "running"
  /\ UNCHANGED <<storeVars, active, permit, dirs, faults>>

(* Mutant: the message is left in the queue after completion.              *)
MutArchiveForgotten(w) ==
  /\ Step(w, "archiving", "cleanup")
  /\ UNCHANGED <<storeVars, active, permit, dirs, faults>>

Archive(w) ==
  /\ Step(w, "archiving", "cleanup")
  /\ ArchiveMessage(cur[w])
  /\ UNCHANGED <<submissions, columns, active, permit, dirs, faults>>

(* Mutant: a failed focus archives its message, too.                       *)
MutFailArchives(w) ==
  /\ Step(w, "failing", "cleanup")
  /\ FailWork(cur[w])
  /\ ArchiveMessage(cur[w])
  /\ UNCHANGED <<submissions, active, permit, dirs, faults>>

(* Mutant: process_work returns from the Failed arm, before the cleanup.   *)
MutFailReturns(w) ==
  /\ Return(w, "failing")
  /\ FailWork(cur[w])
  /\ UNCHANGED <<submissions, queue, active, permit, dirs, faults>>

(* The message stays in the queue.                                         *)
Fail(w) ==
  /\ Step(w, "failing", "cleanup")
  /\ FailWork(cur[w])
  /\ UNCHANGED <<submissions, queue, active, permit, dirs, faults>>

FailMiss(w) ==
  /\ Return(w, "failing")
  /\ state[cur[w]] # "running"
  /\ UNCHANGED <<storeVars, active, permit, dirs, faults>>

Cleanup(w) ==
  /\ Return(w, "cleanup")
  /\ dirs' = dirs - 1
  /\ UNCHANGED <<storeVars, active, permit, faults>>

(* A cleanup error is only logged.                                         *)
CleanupFails(w) ==
  /\ Return(w, "cleanup")
  /\ Fault("fs")
  /\ UNCHANGED <<storeVars, active, permit, dirs>>

(* A database call returns an error and `?` leaves process_work: the next  *)
(* statement did not run, or the one just made did and only its answer     *)
(* (transition_state and its siblings end in a get_work_item of their own) *)
(* was lost.                                                               *)
Abandon(w) ==
  /\ pc[w] \in {"routing", "claiming", "starting", "creating",
                "completing", "failing", "archiving", "cleanup"}
  /\ Return(w, pc[w])
  /\ Fault("db")
  /\ UNCHANGED <<storeVars, active, permit, dirs>>

ProcessWork(w) ==
  \/ Route(w) \/ Claim(w) \/ ClaimMiss(w) \/ Start(w) \/ StartMiss(w)
  \/ CreateFocus(w) \/ RunFocus(w) \/ Complete(w) \/ CompleteMiss(w)
  \/ Archive(w) \/ Fail(w) \/ FailMiss(w) \/ Cleanup(w)

-----------------------------------------------------------------------------
(* The life of a plane                                                     *)

(* notify_one stores at most one permit, and it may come at any time.      *)
Shutdown(w) ==
  /\ w \in Stoppable /\ pc[w] \notin {"stopped", "down"} /\ ~permit[w]
  /\ permit' = [permit EXCEPT ![w] = TRUE]
  /\ UNCHANGED <<storeVars, pc, cur, active, dirs, faults>>

(* Mutant: the loop does not listen for the shutdown.                      *)
MutStopNever(w) ==
  /\ FALSE /\ pc[w] = "waiting"
  /\ UNCHANGED vars

(* shutdown.notified() wins the select!: run() returns.                    *)
Stop(w) ==
  /\ permit[w] /\ pc[w] = "waiting"
  /\ pc' = [pc EXCEPT ![w] = "stopped"]
  /\ permit' = [permit EXCEPT ![w] = FALSE]
  /\ UNCHANGED <<storeVars, cur, active, dirs, faults>>

Crash(w) ==
  /\ pc[w] \notin {"stopped", "down"}
  /\ Fault("crash")
  /\ pc' = [pc EXCEPT ![w] = "down"]
  /\ cur' = [cur EXCEPT ![w] = NoId]
  /\ active' = [active EXCEPT ![w] = 0]
  /\ permit' = [permit EXCEPT ![w] = FALSE]
  /\ UNCHANGED <<storeVars, dirs>>

(* A new process: ControlPlane::new and run(), nothing recovered.          *)
Restart(w) ==
  /\ pc[w] = "down"
  /\ pc' = [pc EXCEPT ![w] = "waiting"]
  /\ UNCHANGED <<storeVars, cur, active, permit, dirs, faults>>

-----------------------------------------------------------------------------
(* Clients                                                                 *)

SubmitWork(i) == Submit(i) /\ UNCHANGED planeVars

(* A user of the Db type moves an item along transitions of the state      *)
(* machine, for instance to retry it.  No code of the repository does.     *)
MoveItem(i) ==
  /\ \E m \in ClientMoves :
       /\ TransitionState(i, m[1], m[2])
       /\ m[2] = "queued" => attempts[i] < MaxAttempts
  /\ UNCHANGED <<submissions, queue, planeVars>>

Reappear(i) == VisibilityTimeout(i) /\ UNCHANGED planeVars

-----------------------------------------------------------------------------

Next ==
  \/ \E i \in WorkIds : SubmitWork(i) \/ MoveItem(i) \/ Reappear(i)
  \/ \E w \in Planes :
       \/ \E i \in WorkIds : Receive(w, i)
       \/ ProcessWork(w)
       \/ CreateFocusFails(w) \/ CleanupFails(w) \/ Abandon(w)
       \/ Shutdown(w) \/ Stop(w) \/ Crash(w) \/ Restart(w)

Spec == Init /\ [][Next]_vars

(* The clock runs, statements return and hooks end; the poll timer wakes a *)
(* waiting plane; a crashed process is started again.  tokio::select!      *)
(* picks at random among ready branches, so a stored permit cannot lose    *)
(* for ever: strong fairness of Stop, which is disabled in process_work.   *)
Fairness ==
  /\ \A i \in WorkIds :
       /\ WF_vars(SubmitStep(i) /\ UNCHANGED planeVars)
       /\ WF_vars(Reappear(i))
  /\ \A w \in Planes :
       /\ WF_vars(\E i \in WorkIds : Receive(w, i))
       /\ WF_vars(ProcessWork(w))
       /\ SF_vars(Stop(w))
       /\ WF_vars(Restart(w))

FairSpec == Spec /\ Fairness

-----------------------------------------------------------------------------
(* Properties                                                              *)

Executes(w, i) == pc[w] \in Executing /\ cur[w] = i

(* DESIGN.md section 4: an item is executed by one focus at a time, however *)
(* often its message reappears and whatever clients requeue or cancel.     *)
AtMostOneFocus ==
  \A v, w \in Planes : \A i \in WorkIds :
    Executes(v, i) /\ Executes(w, i) => v = w

(* The plane that executes an item still owns it: the row says running, so *)
(* the result it is about to write cannot be refused.                      *)
FocusOwnsItem ==
  \A w \in Planes : \A i \in WorkIds : Executes(w, i) => state[i] = "running"

(* Work that is not over keeps its message: a plane can still be led to    *)
(* every queued, claimed, running or failed item, through all crashes.     *)
NothingLost ==
  \A i \in WorkIds :
    state[i] \in {"queued", "claimed", "running", "failed"} => queue[i] \in InQueue

(* active_foci counts the focus the plane runs; only a failure makes it    *)
(* count more, and it never exceeds max_concurrent.                        *)
ActiveCountsFoci ==
  \A w \in Planes :
    LET own == IF pc[w] = "focus" THEN 1 ELSE 0 IN
      /\ own <= active[w] /\ active[w] <= own + faults
      /\ active[w] <= MaxConcurrent

(* Items that say claimed or running with no plane at work on them are the *)
(* price of failures, one each: shutdown, redelivery and lost races of the *)
(* compare-and-set strand none.                                            *)
Stranded(i) ==
  /\ state[i] \in {"claimed", "running"}
  /\ \A w \in Planes : cur[w] = i => pc[w] \notin Executing \cup {"starting"}
OneItemPerFault == Cardinality({i \in WorkIds : Stranded(i)}) <= faults

(* Every focus directory is in use or the leftover of one failure.         *)
OneDirPerFault ==
  LET used == Cardinality({w \in Planes : pc[w] \in HasDir}) IN
    used <= dirs /\ dirs <= used + faults

(* The outcome columns tell the story of the attempts (WorkItem::outcome,  *)
(* "populated on completion or failure"): a completed item carries data    *)
(* and no error of an earlier attempt; an item that failed carries the     *)
(* error through requeueing until it completes.                            *)
OutcomeTellsAttempts ==
  \A i \in WorkIds :
    /\ attempts[i] = 0 => outcome[i] = {}
    /\ state[i] = "completed" => outcome[i] = {"data"}
    /\ state[i] = "failed" => outcome[i] = {"error"}
    /\ state[i] \in {"queued", "claimed", "dead"} /\ attempts[i] > 0
         => outcome[i] = {"error"}

(* The engine implements WorkOnce.  Claiming does not show: a claimed item *)
(* is pending until the second compare-and-set, which begins the work.     *)
PhaseOf == [i \in WorkIds |->
  CASE state[i] = "absent" -> "unknown"
    [] state[i] \in {"queued", "claimed"} -> "pending"
    [] state[i] = "running" -> "executing"
    [] state[i] = "merged" -> "duplicate"
    [] state[i] = "dead" -> "dropped"
    [] OTHER -> state[i]]
SlotOf == [i \in WorkIds |-> IF Keyed(i) THEN request[i] ELSE NoKey]
ExecutorsOf == [i \in WorkIds |-> {w \in Planes : Executes(w, i)}]

Promise == INSTANCE WorkOnce WITH
  Work <- WorkIds, Slots <- Requests \cup {NoKey}, NoSlot <- NoKey,
  Executors <- Planes, Nobody <- NoId, slot <- SlotOf, phase <- PhaseOf,
  original <- merged_into, executors <- ExecutorsOf
ImplementsWorkOnce == Promise!Spec

(* Without failures every queued item is executed and leaves the queue.    *)
QueuedIsRetired ==
  \A i \in WorkIds :
    state[i] = "queued" ~> state[i] = "completed" /\ queue[i] = "archived"

(* A plane that is asked to shut down does, though redelivered messages    *)
(* may keep waking it.                                                     *)
ShutdownStops == \A w \in Planes : permit[w] ~> pc[w] = "stopped"

(* Nobody but a client takes up an item that is stranded or has failed: no *)
(* redelivery, poll or restart of a plane changes it.                      *)
StrandedStays ==
  [][\A i \in WorkIds :
       (Stranded(i) \/ state[i] = "failed") /\ state'[i] # state[i]
         => <<state[i], state'[i]>> \in ClientMoves]_vars

(* DESIGN.md section 4 says that every item "either completes, fails (with *)
(* retry), or goes dead", and the comment in process_work that a failed    *)
(* one is retried.                                                         *)
WorkIsResolved ==
  \A i \in WorkIds :
    state[i] \in {"claimed", "running", "failed"} ~> state[i] \in {"completed", "queued", "dead"}
=============================================================================
