------------------------------ MODULE WorkStore ------------------------------
(***************************************************************************)
(* The work item table and its pgmq queue, as src/db/work.rs and           *)
(* src/db/pgmq.rs use them.                                                *)
(*                                                                         *)
(* submit_work is one READ COMMITTED transaction of several statements.    *)
(* Each statement is an action here, so that the submissions of several    *)
(* clients and the life of the items already stored interleave as they do  *)
(* in Postgres.  transition_state, complete_work and fail_work are single  *)
(* compare-and-set UPDATEs; they are operators that a client's or a        *)
(* control plane's action conjoins with its own state.                     *)
(*                                                                         *)
(* The row of item i is spread over one function per column.  "absent"     *)
(* says that no row of i is committed.  An item has at most one message,   *)
(* and a message names its item, so the queue is a function of the item.   *)
(***************************************************************************)
EXTENDS WorkItem, Naturals

CONSTANTS
  WorkIds,      \* the uuids that submissions draw
  NoId,         \* NULL in merged_into
  Faculties,    \* faculty names
  Keys,         \* dedup keys
  NoKey,        \* dedup_key: None
  Requests,     \* the submissions clients may make
  MaxAttempts,  \* bound: clients requeue an item only below this many runs
  Faults        \* the kinds of failure that may strike

ASSUME IdAssumption == NoId \notin WorkIds
ASSUME RequestAssumption ==
  /\ NoKey \notin Keys \cup Requests
  /\ Requests \subseteq [faculty : Faculties, dedup_key : Keys \cup {NoKey}]
ASSUME AttemptsAssumption == MaxAttempts \in Nat
ASSUME FaultsAssumption == Faults \subseteq {"db", "fs", "crash"}

VARIABLES
  request,      \* request[i]: the NewWorkItem submitted under uuid i
  sub,          \* sub[i]: how far the submit_work call that drew i has come
  canonical,    \* canonical[i]: the local variable of that call
  state,        \* column state
  merged_into,  \* column merged_into
  attempts,     \* column attempts
  resolved,     \* column resolved_at is set
  outcome,      \* which of outcome_data and outcome_error are set
  queue         \* the pgmq message of i

columns == <<state, merged_into, attempts, resolved, outcome>>
storeVars == <<request, sub, canonical, columns, queue>>

SubmitPCs == {"idle", "inserting", "inserted", "conflict", "selected", "committed",
              "created", "merged", "error"}
InQueue == {"visible", "hidden"}

(* The item columns and local variables hold what the source's types and   *)
(* the schema allow, and no row is ever committed in state "created": the  *)
(* INSERT and the UPDATE to 'queued' are one transaction.                  *)
StoreTypeOK ==
  /\ request \in [WorkIds -> Requests]
  /\ sub \in [WorkIds -> SubmitPCs]
  /\ canonical \in [WorkIds -> WorkIds \cup {NoId}]
  /\ state \in [WorkIds -> (States \ {"created"}) \cup {"absent"}]
  /\ merged_into \in [WorkIds -> WorkIds \cup {NoId}]
  /\ attempts \in [WorkIds -> Nat]
  /\ resolved \in [WorkIds -> BOOLEAN]
  /\ outcome \in [WorkIds -> SUBSET {"data", "error"}]
  /\ queue \in [WorkIds -> InQueue \cup {"none", "archived"}]

StoreInit ==
  /\ request \in [WorkIds -> Requests]
  /\ sub = [i \in WorkIds |-> "idle"]
  /\ canonical = [i \in WorkIds |-> NoId]
  /\ state = [i \in WorkIds |-> "absent"]
  /\ merged_into = [i \in WorkIds |-> NoId]
  /\ attempts = [i \in WorkIds |-> 0]
  /\ resolved = [i \in WorkIds |-> FALSE]
  /\ outcome = [i \in WorkIds |-> {}]
  /\ queue = [i \in WorkIds |-> "none"]

-----------------------------------------------------------------------------
(* Deduplication                                                           *)

Keyed(i) == request[i].dedup_key # NoKey
SameSlot(i, j) == Keyed(i) /\ request[i] = request[j]

(* The row of j is in the partial unique index, committed or not.          *)
Active(j) == state[j] \in Indexed
Occupies(j) == sub[j] = "inserted" \/ Active(j)

(* The rows SELECT ... LIMIT 1 may return to the submission of i.          *)
Candidate(i, c) == Active(c) /\ SameSlot(i, c)

-----------------------------------------------------------------------------
(* submit_work                                                             *)

At(i, pc) == sub[i] = pc
Goto(i, pc) == sub' = [sub EXCEPT ![i] = pc]

(* submit_work begins its transaction and sends the INSERT.                *)
Begin(i) ==
  /\ At(i, "idle")
  /\ Goto(i, "inserting")
  /\ UNCHANGED <<request, canonical, columns, queue>>

(* Mutant: the insert does not wait for the open transaction of another    *)
(* client with the same slot.                                              *)
MutInsertRowNoWait(i) ==
  /\ At(i, "inserting")
  /\ ~ \E j \in WorkIds : Candidate(i, j)
  /\ Goto(i, "inserted")
  /\ UNCHANGED <<request, canonical, columns, queue>>

(* Mutant: each transaction first takes a shared lock on the slot, so that *)
(* two of them wait for each other with their inserts.                     *)
MutInsertRowShared(i) ==
  /\ At(i, "inserting")
  /\ ~ \E j \in WorkIds : SameSlot(i, j) /\ (Occupies(j) \/ (j # i /\ At(j, "inserting")))
  /\ Goto(i, "inserted")
  /\ UNCHANGED <<request, canonical, columns, queue>>

(* INSERT ... ON CONFLICT DO NOTHING finds no active row of its slot, or   *)
(* the plain INSERT of an item without a dedup key.  While another open    *)
(* transaction holds the slot the statement waits.                         *)
InsertRow(i) ==
  /\ At(i, "inserting")
  /\ ~ \E j \in WorkIds : SameSlot(i, j) /\ Occupies(j)
  /\ Goto(i, "inserted")
  /\ UNCHANGED <<request, canonical, columns, queue>>

(* ... or it finds a committed active row and inserts nothing.             *)
InsertConflict(i) ==
  /\ At(i, "inserting")
  /\ \E j \in WorkIds : Candidate(i, j)
  /\ Goto(i, "conflict")
  /\ UNCHANGED <<request, canonical, columns, queue>>

(* The next statement of the transaction has a snapshot of its own.        *)
SelectCanonical(i) ==
  /\ At(i, "conflict")
  /\ \E c \in WorkIds : Candidate(i, c) /\ canonical' = [canonical EXCEPT ![i] = c]
  /\ Goto(i, "selected")
  /\ UNCHANGED <<request, columns, queue>>

(* fetch_one finds no row, the transaction rolls back: the item that       *)
(* caused the conflict has been resolved in between.                       *)
CanonicalGone(i) ==
  /\ At(i, "conflict")
  /\ ~ \E c \in WorkIds : Candidate(i, c)
  /\ Goto(i, "error")
  /\ UNCHANGED <<request, canonical, columns, queue>>

(* Mutant: the merged row is inserted without resolved_at.                 *)
MutMergeCommitUnresolved(i) ==
  /\ At(i, "selected")
  /\ state' = [state EXCEPT ![i] = "merged"]
  /\ merged_into' = [merged_into EXCEPT ![i] = canonical[i]]
  /\ Goto(i, "committed")
  /\ UNCHANGED <<request, canonical, attempts, resolved, outcome, queue>>

(* INSERT of the merged row, COMMIT.                                       *)
MergeCommit(i) ==
  /\ At(i, "selected")
  /\ state' = [state EXCEPT ![i] = "merged"]
  /\ merged_into' = [merged_into EXCEPT ![i] = canonical[i]]
  /\ resolved' = [resolved EXCEPT ![i] = TRUE]
  /\ Goto(i, "committed")
  /\ UNCHANGED <<request, canonical, attempts, outcome, queue>>

(* Mutant: the row keeps the state it was inserted with.                   *)
MutQueueCommitCreated(i) ==
  /\ At(i, "inserted")
  /\ state' = [state EXCEPT ![i] = "created"]
  /\ queue' = [queue EXCEPT ![i] = "visible"]
  /\ Goto(i, "committed")
  /\ UNCHANGED <<request, canonical, merged_into, attempts, resolved, outcome>>

(* pgmq.send, UPDATE to 'queued', pg_notify, COMMIT: the row and its       *)
(* message become visible together.                                        *)
QueueCommit(i) ==
  /\ At(i, "inserted")
  /\ state' = [state EXCEPT ![i] = "queued"]
  /\ queue' = [queue EXCEPT ![i] = "visible"]
  /\ Goto(i, "committed")
  /\ UNCHANGED <<request, canonical, merged_into, attempts, resolved, outcome>>

(* submit_work returns Created or Merged.                                  *)
Reply(i) ==
  /\ At(i, "committed")
  /\ Goto(i, IF state[i] = "merged" THEN "merged" ELSE "created")
  /\ UNCHANGED <<request, canonical, columns, queue>>

(* A statement or the client fails.  Before COMMIT the transaction rolls   *)
(* back; after it (the final get_work_item, a lost acknowledgement) the    *)
(* caller sees an error although the item is stored.                       *)
SubmitFails(i) ==
  /\ "db" \in Faults
  /\ sub[i] \in {"inserting", "inserted", "conflict", "selected", "committed"}
  /\ Goto(i, "error")
  /\ UNCHANGED <<request, canonical, columns, queue>>

SubmitStep(i) ==
  \/ InsertRow(i) \/ InsertConflict(i)
  \/ SelectCanonical(i) \/ CanonicalGone(i) \/ MergeCommit(i)
  \/ QueueCommit(i) \/ Reply(i)

Submit(i) == Begin(i) \/ SubmitStep(i) \/ SubmitFails(i)

-----------------------------------------------------------------------------
(* The compare-and-set UPDATEs.  They leave request, sub, canonical and    *)
(* the queue to the action that uses them.                                 *)

(* UPDATE work_items SET state = to, ... WHERE id = i AND state = from     *)
TransitionState(i, from, to) ==
  /\ CanTransitionTo(from, to)
  /\ state[i] = from
  /\ state' = [state EXCEPT ![i] = to]
  /\ resolved' = [resolved EXCEPT ![i] = @ \/ to \in Terminal]
  /\ attempts' = [attempts EXCEPT ![i] = IF to = "running" THEN @ + 1 ELSE @]
  /\ UNCHANGED <<merged_into, outcome>>

(* Mutant: complete_work does not check that the item is running.          *)
MutCompleteWorkUnchecked(i, result) ==
  /\ state[i] # "absent"
  /\ state' = [state EXCEPT ![i] = "completed"]
  /\ resolved' = [resolved EXCEPT ![i] = TRUE]
  /\ outcome' = [outcome EXCEPT ![i] = result]
  /\ UNCHANGED <<merged_into, attempts>>

(* Mutant: complete_work keeps an outcome column it has no value for.      *)
MutCompleteWorkCoalesce(i, result) ==
  /\ state[i] = "running"
  /\ state' = [state EXCEPT ![i] = "completed"]
  /\ resolved' = [resolved EXCEPT ![i] = TRUE]
  /\ outcome' = [outcome EXCEPT ![i] = @ \cup result]
  /\ UNCHANGED <<merged_into, attempts>>

(* complete_work: running to completed, both outcome columns overwritten.  *)
CompleteWork(i, result) ==
  /\ state[i] = "running"
  /\ state' = [state EXCEPT ![i] = "completed"]
  /\ resolved' = [resolved EXCEPT ![i] = TRUE]
  /\ outcome' = [outcome EXCEPT ![i] = result]
  /\ UNCHANGED <<merged_into, attempts>>

(* fail_work: running to failed; outcome_data keeps what it held.          *)
FailWork(i) ==
  /\ state[i] = "running"
  /\ state' = [state EXCEPT ![i] = "failed"]
  /\ outcome' = [outcome EXCEPT ![i] = @ \cup {"error"}]
  /\ UNCHANGED <<merged_into, attempts, resolved>>

-----------------------------------------------------------------------------
(* The queue                                                               *)

(* pgmq.read returns one visible message and hides it for the timeout.     *)
ReadFromQueue(i) ==
  /\ queue[i] = "visible"
  /\ queue' = [queue EXCEPT ![i] = "hidden"]

(* The timeout is not renewed while a hook runs: a hidden message may      *)
(* reappear at any time.                                                   *)
VisibilityTimeout(i) ==
  /\ queue[i] = "hidden"
  /\ queue' = [queue EXCEPT ![i] = "visible"]
  /\ UNCHANGED <<request, sub, canonical, columns>>

(* pgmq.archive, also when the message has reappeared meanwhile.           *)
ArchiveMessage(i) ==
  /\ queue[i] \in InQueue
  /\ queue' = [queue EXCEPT ![i] = "archived"]

-----------------------------------------------------------------------------
(* The store on its own: clients of the Db type may call any operation,    *)
(* with any arguments, in any order.                                       *)

ClientTransition(i) ==
  /\ \E from, to \in States :
       /\ TransitionState(i, from, to)
       /\ to = "queued" => attempts[i] < MaxAttempts
  /\ UNCHANGED <<request, sub, canonical, queue>>

ClientRetire(i) ==
  /\ (\E result \in SUBSET {"data", "error"} : CompleteWork(i, result)) \/ FailWork(i)
  /\ UNCHANGED <<request, sub, canonical, queue>>

ClientQueue(i) ==
  /\ ReadFromQueue(i) \/ ArchiveMessage(i)
  /\ UNCHANGED <<request, sub, canonical, columns>>

StoreNext ==
  \E i \in WorkIds :
    Submit(i) \/ ClientTransition(i) \/ ClientRetire(i) \/ ClientQueue(i)
      \/ VisibilityTimeout(i)

(* A submission that has begun keeps going: each statement returns, and an *)
(* INSERT that waits is woken when the transaction it waits for ends.      *)
SubmitFairness == \A i \in WorkIds : WF_storeVars(SubmitStep(i))

StoreBehaviour == StoreInit /\ [][StoreNext]_storeVars

StoreSpec == StoreBehaviour /\ SubmitFairness

-----------------------------------------------------------------------------
(* Properties                                                              *)

(* At most one row per (faculty, dedup_key) is in the unique index, open   *)
(* transactions included: two concurrent submissions never both insert.    *)
DedupUnique ==
  \A i, j \in WorkIds :
    i # j /\ SameSlot(i, j) => ~ (Occupies(i) /\ Occupies(j))

(* A merged row names another item of its own slot, and that item is an    *)
(* original: stored, queued once, never itself merged.  Following          *)
(* merged_into takes one step, however submissions interleaved.            *)
MergedIntoOriginal ==
  \A i \in WorkIds : state[i] = "merged" =>
    LET c == merged_into[i] IN
      /\ c \in WorkIds \ {i}
      /\ SameSlot(i, c)
      /\ state[c] \notin {"absent", "merged"}
      /\ queue[i] = "none" /\ queue[c] # "none"

(* resolved_at is set exactly on terminal rows, whichever of the five      *)
(* statements wrote the row last.                                          *)
ResolvedIffTerminal ==
  \A i \in WorkIds : resolved[i] <=> state[i] \in Terminal

(* No later statement changes a terminal row: not a late complete_work or  *)
(* fail_work, nor a stale transition.                                      *)
TerminalFrozen(i) ==
  state[i] \in Terminal =>
    /\ state'[i] = state[i] /\ merged_into'[i] = merged_into[i]
    /\ attempts'[i] = attempts[i] /\ outcome'[i] = outcome[i]
TerminalRowsFrozen == [][\A i \in WorkIds : TerminalFrozen(i)]_storeVars

(* Every submission that began is answered, also one whose INSERT waits    *)
(* for the transaction of another: no two of them wait for each other, and *)
(* whoever holds the slot gives it up or commits.                          *)
SubmissionsAnswered ==
  \A i \in WorkIds :
    sub[i] = "inserting" ~> sub[i] \in {"created", "merged", "error"}

(* DESIGN.md section 4 says that duplicates are detected and merged.  So   *)
(* without a fault no submission is refused.                               *)
DuplicatesAreMerged ==
  \A i \in WorkIds : sub[i] # "error"
=============================================================================
