----------------------------- MODULE DaemonProofs -----------------------------
(***************************************************************************)
(* Proofs about a focus, the daemon that runs it and the binary: the       *)
(* result of a focus is the one its hooks earned, whatever they write and  *)
(* in whatever order they and their children run; daemons that loaded one  *)
(* directory agree on it; `work show` finds what `work list` has shown.    *)
(* All of it for any directory, any definitions, any items and any number  *)
(* of daemons and edits.                                                   *)
(***************************************************************************)
EXTENDS Animus, SequenceTheorems, FiniteSetTheorems, TLAPS

-----------------------------------------------------------------------------
(* Focus::run                                                              *)

(* What is left of the phase list names no phase twice.                    *)
Remainders ==
  {s \in Seq(Phases) : \A j, k \in DOMAIN s : s[j] = s[k] => j = k}

BadExits == {"failure", "not_spawned"}
ToDo(p) == \E k \in DOMAIN todo : todo[k] = p

ColumnTypes ==
  /\ orient \in BOOLEAN /\ consolidate \in BOOLEAN
  /\ todo \in Remainders
  /\ running \in Phases \cup {NoPhase}
  /\ children \subseteq Phases
  /\ exits \in [Phases -> {"none", "success", "failure", "not_spawned"}]
  /\ files \in [Phases -> Contents]
  /\ path \in {NoPhase, "engage", "consolidate"}
  /\ result \in {Pending} \cup {Failed(p) : p \in Phases} \cup {Completed(p) : p \in Phases}

(* A phase is still to come, or runs, or has ended; what has ended badly   *)
(* has ended the focus.                                                    *)
HookInv ==
  /\ \A p \in Phases : ToDo(p) => Configured(p) /\ exits[p] = "none"
  /\ running # NoPhase => /\ Configured(running) /\ exits[running] = "none"
                          /\ ~ToDo(running) /\ result = Pending
  /\ \A p \in Phases : Configured(p) => ToDo(p) \/ p = running \/ exits[p] # "none"
  /\ \A p \in Phases : exits[p] # "none" => Configured(p)
  /\ \A p \in Phases : exits[p] \in BadExits => result = Failed(p)

(* The outcome file is chosen when all hooks have succeeded.  Only a child *)
(* can write to it from then on.                                           *)
PathInv ==
  /\ path # NoPhase => /\ todo = <<>> /\ running = NoPhase
                       /\ \A p \in Phases : exits[p] \notin BadExits
  /\ path = "engage" /\ children = {} => files["consolidate"] = "absent"

ResultInv ==
  /\ result.kind = "completed" =>
       /\ path # NoPhase /\ result.data = path
       /\ children = {} => files[path] = "whole"
  /\ result.kind = "failed" =>
       \/ exits[result.phase] \in BadExits
       \/ path # NoPhase /\ (children = {} => files[path] # "whole")

FocusInv == ColumnTypes /\ HookInv /\ PathInv /\ ResultInv

-----------------------------------------------------------------------------
(* The phase list                                                          *)

LEMMA Kinds ==
  /\ Pending.kind = "pending"
  /\ \A p \in Phases : Failed(p).kind = "failed" /\ Failed(p).phase = p
  /\ \A p \in Phases : Completed(p).kind = "completed" /\ Completed(p).data = p
BY DEF Pending, Failed, Completed

(* A fresh list has the phases of the faculty.                             *)
LEMMA PhaseListRemains ==
  ASSUME NEW o \in BOOLEAN, NEW c \in BOOLEAN
  PROVE  /\ PhaseList(o, c) \in Remainders
         /\ \A p \in Phases : (\E k \in DOMAIN PhaseList(o, c) : PhaseList(o, c)[k] = p)
                                <=> p = "engage" \/ (p = "orient" /\ o) \/ (p = "consolidate" /\ c)
<1> DEFINE first == IF o THEN <<"orient">> ELSE <<>>
           last == IF c THEN <<"consolidate">> ELSE <<>>
           list == (first \o <<"engage">>) \o last
<1>1. /\ first \in Seq(Phases) /\ Len(first) = IF o THEN 1 ELSE 0
      /\ o => first[1] = "orient"
  <2>1. CASE o
    <3>1. first = <<"orient">>
      BY <2>1
    <3> HIDE DEF first
    <3>. QED  BY <2>1, <3>1 DEF Phases
  <2>2. CASE ~o
    <3>1. first = <<>>
      BY <2>2
    <3> HIDE DEF first
    <3>. QED  BY <2>2, <3>1 DEF Phases
  <2>. QED  BY <2>1, <2>2
<1>2. /\ last \in Seq(Phases) /\ Len(last) = IF c THEN 1 ELSE 0
      /\ c => last[1] = "consolidate"
  <2>1. CASE c
    <3>1. last = <<"consolidate">>
      BY <2>1
    <3> HIDE DEF last
    <3>. QED  BY <2>1, <3>1 DEF Phases
  <2>2. CASE ~c
    <3>1. last = <<>>
      BY <2>2
    <3> HIDE DEF last
    <3>. QED  BY <2>2, <3>1 DEF Phases
  <2>. QED  BY <2>1, <2>2
<1>3. <<"engage">> \in Seq(Phases) /\ Len(<<"engage">>) = 1 /\ <<"engage">>[1] = "engage"
  BY DEF Phases
<1>4. PhaseList(o, c) = list
  BY DEF PhaseList
<1> HIDE DEF first, last
<1>5. /\ first \o <<"engage">> \in Seq(Phases)
      /\ Len(first \o <<"engage">>) = Len(first) + 1
      /\ o => (first \o <<"engage">>)[1] = "orient"
      /\ (first \o <<"engage">>)[Len(first) + 1] = "engage"
  BY <1>1, <1>3, ConcatProperties
<1>6. /\ list \in Seq(Phases)
      /\ Len(list) = Len(first) + 1 + Len(last)
      /\ o => list[1] = "orient"
      /\ list[Len(first) + 1] = "engage"
      /\ c => list[Len(first) + 2] = "consolidate"
  BY <1>1, <1>2, <1>5, ConcatProperties
<1> HIDE DEF list
<1>7. DOMAIN list = 1..Len(list)
  BY <1>6
<1>8. \A k \in DOMAIN list :
        (o /\ k = 1) \/ k = Len(first) + 1 \/ (c /\ k = Len(first) + 2)
  BY <1>1, <1>2, <1>6, <1>7
<1>9. list \in Remainders
  BY <1>1, <1>6, <1>8 DEF Remainders
<1>10. ASSUME NEW p \in Phases
       PROVE  (\E k \in DOMAIN list : list[k] = p)
                <=> p = "engage" \/ (p = "orient" /\ o) \/ (p = "consolidate" /\ c)
  BY <1>1, <1>2, <1>6, <1>7, <1>8 DEF Phases
<1>. QED  BY <1>4, <1>9, <1>10

(* Taking the first phase off leaves the others, each once.                *)
LEMMA TailRemains ==
  ASSUME NEW s \in Remainders, s # <<>>
  PROVE  /\ Head(s) \in Phases /\ Tail(s) \in Remainders
         /\ \A k \in DOMAIN Tail(s) : Tail(s)[k] # Head(s)
         /\ \A p : (\E k \in DOMAIN s : s[k] = p)
                     <=> p = Head(s) \/ \E k \in DOMAIN Tail(s) : Tail(s)[k] = p
<1>1. s \in Seq(Phases) /\ DOMAIN s = 1..Len(s) /\ Len(s) \in Nat
  BY DEF Remainders
<1>2. /\ Head(s) \in Phases /\ Head(s) = s[1] /\ Len(s) > 0
      /\ Tail(s) \in Seq(Phases) /\ Len(Tail(s)) = Len(s) - 1
      /\ \A k \in 1..Len(Tail(s)) : Tail(s)[k] = s[k + 1]
  BY <1>1, HeadTailProperties
<1>3. DOMAIN Tail(s) = 1..Len(Tail(s))
  BY <1>2
<1>4. Tail(s) \in Remainders
  <2>1. ASSUME NEW j \in DOMAIN Tail(s), NEW k \in DOMAIN Tail(s), Tail(s)[j] = Tail(s)[k]
        PROVE  j = k
    <3>1. j + 1 \in DOMAIN s /\ k + 1 \in DOMAIN s /\ s[j + 1] = s[k + 1]
      BY <1>1, <1>2, <1>3, <2>1
    <3>2. j + 1 = k + 1
      BY <3>1 DEF Remainders
    <3>. QED  BY <1>2, <1>3, <3>2
  <2>. QED  BY <1>2, <2>1 DEF Remainders
<1>5. \A k \in DOMAIN Tail(s) : Tail(s)[k] # Head(s)
  BY <1>1, <1>2, <1>3 DEF Remainders
<1>6. ASSUME NEW p, NEW k \in DOMAIN s, s[k] = p
      PROVE  p = Head(s) \/ \E j \in DOMAIN Tail(s) : Tail(s)[j] = p
  <2>1. CASE k = 1
    BY <1>2, <1>6, <2>1
  <2>2. CASE k # 1
    <3>1. k - 1 \in DOMAIN Tail(s) /\ Tail(s)[k - 1] = p
      BY <1>1, <1>2, <1>3, <1>6, <2>2
    <3>. QED  BY <3>1
  <2>. QED  BY <2>1, <2>2
<1>7. ASSUME NEW p, NEW j \in DOMAIN Tail(s), Tail(s)[j] = p
      PROVE  \E k \in DOMAIN s : s[k] = p
  <2>1. j + 1 \in DOMAIN s /\ s[j + 1] = p
    BY <1>1, <1>2, <1>3, <1>7
  <2>. QED  BY <2>1
<1>8. 1 \in DOMAIN s /\ s[1] = Head(s)
  BY <1>1, <1>2
<1>. QED  BY <1>2, <1>4, <1>5, <1>6, <1>7, <1>8

LEMMA NothingToDo == todo = <<>> => \A p : ~ToDo(p)
BY DEF ToDo

-----------------------------------------------------------------------------
(* The invariant is inductive                                              *)

LEMMA FocusStarts == Init => FocusInv
<1> SUFFICES ASSUME Init  PROVE FocusInv
  OBVIOUS
<1>. USE DEF Init, Phases, NoPhase
<1>1. todo \in Remainders /\ \A p \in Phases : ToDo(p) <=> Configured(p)
  BY PhaseListRemains DEF ToDo, Configured
<1>2. ColumnTypes
  BY <1>1 DEF ColumnTypes, Contents
<1>3. HookInv
  BY <1>1 DEF HookInv, BadExits
<1>4. PathInv /\ ResultInv
  BY Kinds DEF PathInv, ResultInv
<1>. QED  BY <1>2, <1>3, <1>4 DEF FocusInv

(* A hook that is written about still runs, or has left a child.           *)
LEMMA WriteKeeps ==
  ASSUME FocusInv, NEW p \in Phases, Write(p)
  PROVE  FocusInv'
<1>. USE DEF FocusInv, Write, config
<1>1. ColumnTypes'
  BY DEF ColumnTypes, Contents
<1>2. HookInv'
  BY DEF HookInv, ToDo, Configured
<1>3. ASSUME path # NoPhase, children = {}  PROVE FALSE
  BY <1>3 DEF PathInv, NoPhase, Phases
<1>4. PathInv'
  BY <1>3 DEF PathInv, NoPhase
<1>5. ResultInv'
  BY <1>3 DEF ResultInv
<1>. QED  BY <1>1, <1>2, <1>4, <1>5

(* Taking a phase off the list.                                           *)
LEMMA FirstPhase ==
  ASSUME FocusInv, todo # <<>>
  PROVE  /\ Head(todo) \in Phases /\ Tail(todo) \in Remainders
         /\ ToDo(Head(todo))
         /\ \A p \in Phases : ToDo(p) <=> p = Head(todo) \/ \E k \in DOMAIN Tail(todo) : Tail(todo)[k] = p
         /\ \A k \in DOMAIN Tail(todo) : Tail(todo)[k] # Head(todo)
BY TailRemains DEF FocusInv, ColumnTypes, ToDo

LEMMA SpawnKeeps ==
  ASSUME FocusInv, Spawn
  PROVE  FocusInv'
<1>. USE DEF FocusInv, Spawn, Idle, config
<1>1. ColumnTypes'
  BY FirstPhase DEF ColumnTypes
<1>2. HookInv'
  <2>1. PICK h \in Phases : h = Head(todo)
    BY FirstPhase
  <2>2. ToDo(h) /\ ~ToDo(h)' /\ \A p \in Phases : ToDo(p) <=> p = h \/ ToDo(p)'
    BY <2>1, FirstPhase DEF ToDo
  <2>3. \A p \in Phases : Configured(p)' <=> Configured(p)
    BY DEF Configured
  <2>4. running \notin Phases /\ running' = h /\ result' = Pending /\ exits' = exits
    BY <2>1 DEF NoPhase, Phases
  <2>5. Configured(h) /\ exits[h] = "none"
    BY <2>2 DEF HookInv
  <2>6. (running # NoPhase => /\ Configured(running) /\ exits[running] = "none"
                              /\ ~ToDo(running) /\ result = Pending)'
    BY <2>2, <2>3, <2>4, <2>5 DEF ToDo, Configured
  <2>7. (\A p \in Phases : Configured(p) => ToDo(p) \/ p = running \/ exits[p] # "none")'
    BY <2>2, <2>3, <2>4 DEF HookInv
  <2>8. (\A p \in Phases : ToDo(p) => Configured(p) /\ exits[p] = "none")'
    BY <2>2, <2>3, <2>4 DEF HookInv
  <2>9. (\A p \in Phases : exits[p] \in BadExits => result = Failed(p))'
    BY <2>4 DEF HookInv
  <2>10. (\A p \in Phases : exits[p] # "none" => Configured(p))'
    BY <2>3, <2>4 DEF HookInv
  <2>. QED  BY <2>6, <2>7, <2>8, <2>9, <2>10 DEF HookInv
<1>3. PathInv'
  BY DEF PathInv
<1>4. ResultInv'
  BY DEF ResultInv
<1>. QED  BY <1>1, <1>2, <1>3, <1>4

LEMMA SpawnFailsKeeps ==
  ASSUME FocusInv, SpawnFails
  PROVE  FocusInv'
<1>. USE DEF FocusInv, SpawnFails, Idle, config
<1>1. PICK h \in Phases : /\ h = Head(todo) /\ ToDo(h)
                          /\ exits' = [exits EXCEPT ![h] = "not_spawned"] /\ result' = Failed(h)
  BY FirstPhase
<1>2. ColumnTypes'
  BY FirstPhase, <1>1 DEF ColumnTypes
<1>3. HookInv'
  <2>1. \A p \in Phases : ToDo(p) <=> p = h \/ ToDo(p)'
    BY FirstPhase, <1>1 DEF ToDo
  <2>2. ~ToDo(h)'
    BY FirstPhase, <1>1 DEF ToDo
  <2>3. \A p \in Phases : exits[p] \notin BadExits
    BY Kinds DEF HookInv
  <2>4. \A p \in Phases \ {h} : exits'[p] = exits[p]
    BY <1>1 DEF ColumnTypes
  <2>5. exits'[h] = "not_spawned"
    BY <1>1 DEF ColumnTypes
  <2>. QED  BY <1>1, <2>1, <2>2, <2>3, <2>4, <2>5 DEF HookInv, Configured
<1>4. PathInv'
  BY DEF PathInv
<1>5. ResultInv'
  BY <1>1, Kinds DEF ResultInv, ColumnTypes, BadExits
<1>. QED  BY <1>2, <1>3, <1>4, <1>5

(* A hook ends: the phase that ran has its exit and nothing runs.          *)
LEMMA HookExitsKeeps ==
  ASSUME FocusInv, HookSucceeds \/ HookFails
  PROVE  FocusInv'
<1>. USE DEF FocusInv, HookExits, config
<1>1. PICK h \in Phases, e \in {"success", "failure"} :
        /\ h = running /\ exits' = [exits EXCEPT ![h] = e] /\ running' = NoPhase
        /\ result' = IF e = "success" THEN result ELSE Failed(h)
  BY DEF HookSucceeds, HookFails, ColumnTypes
<1>2. children' \subseteq Phases /\ children \subseteq children'
  BY <1>1 DEF HookSucceeds, HookFails, ColumnTypes
<1>3. UNCHANGED <<orient, consolidate, todo, files, path>>
  BY DEF HookSucceeds, HookFails
<1>4. result = Pending /\ path = NoPhase /\ ~ToDo(h) /\ Configured(h)
  BY <1>1 DEF HookInv, PathInv, NoPhase, Phases
<1>5. ColumnTypes'
  BY <1>1, <1>2, <1>3 DEF ColumnTypes
<1>6. exits'[h] = e /\ \A p \in Phases \ {h} : exits'[p] = exits[p]
  BY <1>1 DEF ColumnTypes
<1>7. HookInv'
  <2>1. \A p \in Phases : exits[p] \notin BadExits
    BY <1>4, Kinds DEF HookInv
  <2>. QED  BY <1>1, <1>3, <1>4, <1>6, <2>1 DEF HookInv, ToDo, Configured, BadExits, NoPhase
<1>8. PathInv'
  BY <1>3, <1>4 DEF PathInv, NoPhase
<1>9. ResultInv'
  BY <1>1, <1>4, <1>6, Kinds DEF ResultInv, BadExits
<1>. QED  BY <1>5, <1>7, <1>8, <1>9

LEMMA ChoosePathKeeps ==
  ASSUME FocusInv, ChoosePath
  PROVE  FocusInv'
<1>. USE DEF FocusInv, ChoosePath, Idle, config
<1>1. ColumnTypes'
  BY DEF ColumnTypes
<1>2. HookInv'
  BY DEF HookInv, ToDo, Configured
<1>3. PathInv'
  BY Kinds DEF PathInv, HookInv
<1>4. ResultInv'
  BY Kinds DEF ResultInv
<1>. QED  BY <1>1, <1>2, <1>3, <1>4

LEMMA ReadOutcomeKeeps ==
  ASSUME FocusInv, ReadOutcome
  PROVE  FocusInv'
<1>. USE DEF FocusInv, ReadOutcome, Idle, config
<1>1. path \in Phases
  BY DEF ColumnTypes, NoPhase, Phases
<1>2. ColumnTypes'
  BY <1>1 DEF ColumnTypes, Phases
<1>3. HookInv'
  BY DEF HookInv, PathInv, ToDo, Configured
<1>4. PathInv'
  BY DEF PathInv
<1>5. ResultInv'
  BY <1>1, Kinds DEF ResultInv, Phases
<1>. QED  BY <1>2, <1>3, <1>4, <1>5

LEMMA FocusKeeps ==
  ASSUME FocusInv, [Next]_vars
  PROVE  FocusInv'
<1>1. CASE UNCHANGED vars
  BY <1>1 DEF vars, FocusInv, ColumnTypes, HookInv, PathInv, ResultInv, ToDo, Configured
<1>. QED
  BY <1>1, WriteKeeps, SpawnKeeps, SpawnFailsKeeps, HookExitsKeeps, ChoosePathKeeps,
     ReadOutcomeKeeps DEF Next, Run

-----------------------------------------------------------------------------
(* What it implies                                                         *)

LEMMA DeservedResults ==
  FocusInv => FocusTypeOK /\ AllHooksSucceeded /\ OutcomeIsLastWord /\ BlameIsRight
<1> SUFFICES ASSUME FocusInv
             PROVE  FocusTypeOK /\ AllHooksSucceeded /\ OutcomeIsLastWord /\ BlameIsRight
  OBVIOUS
<1>. USE DEF FocusInv
<1>1. FocusTypeOK
  <2>1. \A k \in DOMAIN todo : todo[k] \in Phases /\ ToDo(todo[k])
    BY DEF ColumnTypes, Remainders, ToDo
  <2>. QED  BY <2>1 DEF FocusTypeOK, ColumnTypes, HookInv
<1>2. path # NoPhase => \A p \in Phases : Configured(p) <=> exits[p] = "success"
  BY NothingToDo DEF HookInv, PathInv, ColumnTypes, BadExits, NoPhase, Phases
<1>3. AllHooksSucceeded
  <2>1. ASSUME NEW p \in Phases, exits[p] \in BadExits
        PROVE  result # Pending /\ running = NoPhase
    BY <2>1, Kinds DEF HookInv
  <2>. QED  BY <1>2, <2>1 DEF AllHooksSucceeded, ResultInv, BadExits
<1>4. OutcomeIsLastWord
  BY DEF OutcomeIsLastWord, ResultInv, PathInv
<1>5. BlameIsRight
  BY <1>2 DEF BlameIsRight, ResultInv, BadExits
<1>. QED  BY <1>1, <1>3, <1>4, <1>5

THEOREM FocusCorrect == Spec => []FocusInv
<1>1. Init => FocusInv
  BY FocusStarts
<1>2. FocusInv /\ [Next]_vars => FocusInv'
  BY FocusKeeps
<1>. QED  BY <1>1, <1>2, PTL DEF Spec

-----------------------------------------------------------------------------
(* The daemon                                                              *)

Untouched ==
  /\ running = NoPhase /\ children = {} /\ path = NoPhase /\ result = Pending
  /\ exits = [p \in Phases |-> "none"] /\ files = [p \in Phases |-> "absent"]

(* The entries daemon d has been through.                                  *)
Loaded(d) == Files \ unread[d]

(* What a daemon has loaded of a directory that has not been edited since  *)
(* is what the directory holds, up to duplicates.                          *)
RegistryInv ==
  \A d \in Daemons :
    /\ stage[d] \in {"down", "starting", "connecting"} => registry[d] = Empty
    /\ stage[d] = "ready" => unread[d] = {}
    /\ ~stale[d] /\ stage[d] \in {"loading", "ready"} =>
         /\ \A f \in Loaded(d) : dir[f] \in Definitions => registry[d][dir[f].name] # NoDef
         /\ \A n \in Names : registry[d][n] # NoDef => \E f \in Loaded(d) : dir[f] = registry[d][n]

LoaderTypes ==
  /\ dir \in [Files -> Definitions \cup {Bad, Other}]
  /\ stage \in [Daemons -> {"down", "starting", "connecting", "loading", "ready"}]
  /\ stale \in [Daemons -> BOOLEAN]
  /\ unread \in [Daemons -> SUBSET Files]
  /\ registry \in [Daemons -> [Names -> Definitions \cup {NoDef}]]
  /\ \A d \in Daemons, n \in Names : registry[d][n] # NoDef => registry[d][n].name = n

DaemonInv ==
  /\ FocusInv /\ LoaderTypes /\ RegistryInv
  /\ focused = NoDef.name => Untouched

LEMMA Distinct ==
  /\ Bad \notin Definitions /\ Other \notin Definitions /\ NoDef \notin Definitions
  /\ \A d \in Definitions : d.name \in Names
BY DaemonAssumption DEF Names

LEMMA DaemonStarts == DaemonInit => DaemonInv
<1> SUFFICES ASSUME DaemonInit  PROVE DaemonInv
  OBVIOUS
<1>. USE DEF DaemonInit
<1>1. FocusInv
  BY FocusStarts
<1>2. LoaderTypes
  BY DEF LoaderTypes, Empty
<1>3. RegistryInv
  BY DEF RegistryInv
<1>4. Untouched
  BY DEF Untouched, Init
<1>. QED  BY <1>1, <1>2, <1>3, <1>4 DEF DaemonInv

-----------------------------------------------------------------------------
(* Start and load                                                          *)

LoaderInv == LoaderTypes /\ RegistryInv

LEMMA ExitKeeps ==
  ASSUME LoaderInv, NEW d \in Daemons, NEW why, Exit(d, why), UNCHANGED dir
  PROVE  LoaderInv'
<1>. USE DEF LoaderInv, Exit
<1>1. LoaderTypes'
  BY DEF LoaderTypes, Empty
<1>2. ASSUME NEW c \in Daemons \ {d}
      PROVE  /\ stage'[c] = stage[c] /\ unread'[c] = unread[c]
             /\ registry'[c] = registry[c] /\ stale'[c] = stale[c]
  BY <1>2 DEF LoaderTypes
<1>3. stage'[d] = "down" /\ registry'[d] = Empty
  BY DEF LoaderTypes
<1>4. RegistryInv'
  BY <1>2, <1>3 DEF RegistryInv, Loaded
<1>. QED  BY <1>1, <1>4

LEMMA StartKeeps ==
  ASSUME LoaderInv, NEW d \in Daemons, Start(d), UNCHANGED dir
  PROVE  LoaderInv'
<1>. USE DEF LoaderInv
<1> DEFINE Others(c) ==
      /\ stage'[c] = stage[c] /\ unread'[c] = unread[c]
      /\ registry'[c] = registry[c] /\ stale'[c] = stale[c]
<1>1. ASSUME Launch(d) \/ (InitTelemetry(d) /\ ~Exit(d, "logger"))
      PROVE  LoaderInv'
  <2>1. LoaderTypes'
    BY <1>1 DEF Launch, InitTelemetry, LoaderTypes
  <2>2. \A c \in Daemons \ {d} : Others(c)
    BY <1>1 DEF Launch, InitTelemetry, LoaderTypes
  <2>3. stage'[d] \in {"starting", "connecting"} /\ registry'[d] = registry[d]
        /\ stage[d] \in {"down", "starting"}
    BY <1>1 DEF Launch, InitTelemetry, LoaderTypes
  <2>. QED  BY <2>1, <2>2, <2>3 DEF RegistryInv, Loaded
<1>2. CASE Connect(d)
  <2>1. LoaderTypes'
    BY <1>2 DEF Connect, LoaderTypes
  <2>2. \A c \in Daemons \ {d} : Others(c)
    BY <1>2 DEF Connect, LoaderTypes
  <2>3. stage'[d] = "loading" /\ Loaded(d)' = {} /\ registry'[d] = Empty
    BY <1>2 DEF Connect, LoaderTypes, RegistryInv, Loaded
  <2>. QED  BY <2>1, <2>2, <2>3 DEF RegistryInv, Loaded, Empty
<1>3. CASE Ready(d)
  <2>1. LoaderTypes'
    BY <1>3 DEF Ready, LoaderTypes
  <2>2. \A c \in Daemons \ {d} : Others(c)
    BY <1>3 DEF Ready, LoaderTypes
  <2>3. stage'[d] = "ready" /\ stage[d] = "loading" /\ unread[d] = {}
        /\ UNCHANGED <<unread, registry, stale>>
    BY <1>3 DEF Ready, LoaderTypes
  <2>. QED  BY <2>1, <2>2, <2>3 DEF RegistryInv, Loaded
<1>4. ASSUME NEW f \in Files, LoadEntry(d, f)  PROVE LoaderInv'
  <2>1. \A c \in Daemons \ {d} : Others(c)
    BY <1>4 DEF LoadEntry, LoaderTypes
  <2>2. Loaded(d)' = Loaded(d) \cup {f} /\ stage'[d] = "loading" /\ stage[d] = "loading"
        /\ UNCHANGED <<stage, stale, dir>>
    BY <1>4 DEF LoadEntry, LoaderTypes, Loaded
  <2>3. CASE dir[f] = Other
    <3>1. registry' = registry
      BY <1>4, <2>3 DEF LoadEntry
    <3>2. LoaderTypes'
      <4>1. unread' \in [Daemons -> SUBSET Files]
        BY <1>4 DEF LoadEntry, LoaderTypes
      <4>. QED  BY <2>2, <3>1, <4>1 DEF LoaderTypes
    <3>. QED  BY <2>1, <2>2, <2>3, <3>1, <3>2, Distinct DEF RegistryInv, Loaded
  <2>4. CASE dir[f] # Other
    <3>1. dir[f] \in Definitions /\ dir[f].name \in Names
      BY <1>4, <2>4, Distinct DEF LoadEntry, LoaderTypes
    <3>2. registry'[d] = [registry[d] EXCEPT ![dir[f].name] = dir[f]]
      BY <1>4, <2>4 DEF LoadEntry, LoaderTypes
    <3>3. /\ registry'[d][dir[f].name] = dir[f]
          /\ \A n \in Names \ {dir[f].name} : registry'[d][n] = registry[d][n]
      BY <3>1, <3>2 DEF LoaderTypes
    <3>4. LoaderTypes'
      <4>1. /\ unread' \in [Daemons -> SUBSET Files]
            /\ registry' \in [Daemons -> [Names -> Definitions \cup {NoDef}]]
        BY <1>4, <2>4, <3>1 DEF LoadEntry, LoaderTypes
      <4>2. \A n \in Names : registry'[d][n] # NoDef => registry'[d][n].name = n
        BY <3>3 DEF LoaderTypes
      <4>3. \A c \in Daemons, n \in Names :
              registry'[c][n] # NoDef => registry'[c][n].name = n
        BY <2>1, <4>2 DEF LoaderTypes
      <4>. QED  BY <2>2, <4>1, <4>3 DEF LoaderTypes
    <3>. QED  BY <2>1, <2>2, <3>1, <3>3, <3>4, Distinct DEF RegistryInv, Loaded
  <2>. QED  BY <2>3, <2>4
<1>5. CASE \E why \in {"none", "logger", "environment", "directory"} : Exit(d, why)
  BY <1>5, ExitKeeps
<1>6. CASE InitTelemetry(d)
  BY <1>1, <1>5, <1>6 DEF InitTelemetry
<1>7. CASE StartFails(d) \/ LoadFails(d) \/ Quit(d)
  BY <1>5, <1>7 DEF StartFails, LoadFails, Quit
<1>8. CASE Launch(d)
  BY <1>1, <1>8
<1>. HIDE DEF LoaderInv
<1>. QED
  BY <1>2, <1>3, <1>4, <1>6, <1>7, <1>8 DEF Start

(* A daemon that has begun to load does not know the directory any more.   *)
LEMMA EditKeeps ==
  ASSUME LoaderInv, NEW f \in Files, Edit(f)
  PROVE  LoaderInv'
<1>1. LoaderTypes'
  BY DEF LoaderInv, LoaderTypes, Edit
<1>2. \A d \in Daemons : stage[d] \in {"loading", "ready"} => stale'[d]
  BY DEF Edit
<1>3. RegistryInv'
  BY <1>2 DEF LoaderInv, RegistryInv, Edit
<1>. QED  BY <1>1, <1>3 DEF LoaderInv

-----------------------------------------------------------------------------
(* A focus                                                                 *)

(* The pipeline starts on the hooks of the faculty that was looked up.     *)
LEMMA DispatchKeeps ==
  ASSUME DaemonInv, NEW d \in Daemons, NEW n \in Names, Dispatch(d, n)
  PROVE  DaemonInv'
<1>. USE DEF DaemonInv, Dispatch
<1>1. registry[d][n] \in Definitions
  BY DEF LoaderTypes
<1>2. orient' \in BOOLEAN /\ consolidate' \in BOOLEAN
  BY <1>1, DaemonAssumption
<1>3. todo' \in Remainders /\ \A p \in Phases : ToDo(p)' <=> Configured(p)'
  BY <1>2, PhaseListRemains DEF ToDo, Configured
<1>4. Untouched /\ Untouched'
  BY DEF Untouched
<1>5. FocusInv'
  <2>. USE DEF Phases, NoPhase
  <2>1. ColumnTypes'
    BY <1>2, <1>3, <1>4 DEF ColumnTypes, Untouched, Contents
  <2>2. HookInv'
    BY <1>3, <1>4 DEF HookInv, Untouched, BadExits
  <2>3. PathInv' /\ ResultInv'
    BY <1>4, Kinds DEF PathInv, ResultInv, Untouched
  <2>. QED  BY <2>1, <2>2, <2>3 DEF FocusInv
<1>6. LoaderTypes'
  BY DEF LoaderTypes, Empty
<1>7. RegistryInv'
  BY DEF RegistryInv
<1>8. focused' # NoDef.name
  BY DaemonAssumption
<1>. QED  BY <1>5, <1>6, <1>7, <1>8

LEMMA DaemonKeeps ==
  ASSUME DaemonInv, [DaemonNext]_allVars
  PROVE  DaemonInv'
<1>. USE DEF LoaderInv
<1>1. ASSUME NEW d \in Daemons, Start(d), UNCHANGED <<vars, dirVars, focused>>
      PROVE  DaemonInv'
  <2>1. LoaderInv'
    BY <1>1, StartKeeps DEF DaemonInv, dirVars
  <2>2. FocusInv' /\ (Untouched => Untouched')
    BY <1>1, FocusKeeps DEF DaemonInv, Untouched, vars
  <2>. QED  BY <1>1, <2>1, <2>2 DEF DaemonInv
<1>2. ASSUME NEW f \in Files, Edit(f)  PROVE DaemonInv'
  <2>1. LoaderInv'
    BY <1>2, EditKeeps DEF DaemonInv
  <2>2. FocusInv' /\ (Untouched => Untouched')
    BY <1>2, FocusKeeps DEF DaemonInv, Untouched, vars, Edit
  <2>. QED  BY <1>2, <2>1, <2>2 DEF DaemonInv, Edit
<1>3. ASSUME NEW d \in Daemons, NEW n \in Names, Dispatch(d, n)  PROVE DaemonInv'
  BY <1>3, DispatchKeeps
<1>4. ASSUME [Next]_vars, UNCHANGED <<dirVars, daemonVars, focused>>,
             focused # NoDef.name \/ UNCHANGED vars
      PROVE  DaemonInv'
  <2>1. FocusInv'
    BY <1>4, FocusKeeps DEF DaemonInv
  <2>2. LoaderTypes' /\ RegistryInv'
    BY <1>4 DEF DaemonInv, LoaderTypes, RegistryInv, Loaded, dirVars, daemonVars
  <2>3. UNCHANGED vars => (Untouched => Untouched')
    BY DEF Untouched, vars
  <2>. QED  BY <1>4, <2>1, <2>2, <2>3 DEF DaemonInv
<1>. QED  BY <1>1, <1>2, <1>3, <1>4 DEF DaemonNext, FocusStep, allVars

-----------------------------------------------------------------------------
(* What it implies                                                         *)

LEMMA LoadedAgrees == LoaderInv => PlanesAgree
<1> SUFFICES ASSUME LoaderInv, NamesUnique,
                    NEW d \in Daemons, stage[d] = "ready", ~stale[d], NEW n \in Names
             PROVE  /\ \A f \in Files : Defines(f, n) => registry[d][n] = dir[f]
                    /\ registry[d][n] # NoDef => \E f \in Files : Defines(f, n)
  BY DEF PlanesAgree
<1>1. Loaded(d) = Files
  BY DEF LoaderInv, RegistryInv, Loaded
<1>2. ASSUME registry[d][n] # NoDef
      PROVE  \E f \in Files : Defines(f, n) /\ registry[d][n] = dir[f]
  BY <1>1, <1>2 DEF LoaderInv, LoaderTypes, RegistryInv, Defines
<1>3. ASSUME NEW f \in Files, Defines(f, n)
      PROVE  registry[d][n] # NoDef
  BY <1>1, <1>3 DEF LoaderInv, RegistryInv, Defines
<1>. QED  BY <1>2, <1>3 DEF NamesUnique

(* The binary is a daemon, or leaves the daemons' state alone.             *)
THEOREM BinaryIsDaemon == AnimusSpec => DaemonSpec
<1>1. AnimusInit => DaemonInit
  BY DEF AnimusInit
<1>2. [AnimusNext]_animusVars => [DaemonNext]_allVars
  BY DEF AnimusNext, animusVars
<1>. QED  BY <1>1, <1>2, PTL DEF AnimusSpec, DaemonSpec

THEOREM DaemonCorrect == DaemonSpec => []DaemonInv
<1>1. DaemonInit => DaemonInv
  BY DaemonStarts
<1>2. DaemonInv /\ [DaemonNext]_allVars => DaemonInv'
  BY DaemonKeeps
<1>. QED  BY <1>1, <1>2, PTL DEF DaemonSpec

(* load_from_dir: daemons that loaded one directory with unique names, in  *)
(* whatever order it was read, look every faculty up alike.                *)
THEOREM RegistriesAgree == AnimusSpec => []PlanesAgree
<1>1. DaemonInv => PlanesAgree
  BY LoadedAgrees DEF DaemonInv, LoaderInv
<1>. QED  BY <1>1, BinaryIsDaemon, DaemonCorrect, PTL

(* Focus::run under the daemon: a completed focus has run every hook of    *)
(* the registered faculty to success.                                      *)
THEOREM CompletionIsEarned == AnimusSpec => []AllHooksSucceeded
<1>1. DaemonInv => AllHooksSucceeded
  BY DeservedResults DEF DaemonInv
<1>. QED  BY <1>1, BinaryIsDaemon, DaemonCorrect, PTL

(* Its outcome is the whole document that the last hook to write one left. *)
THEOREM OutcomeIsLast == AnimusSpec => []OutcomeIsLastWord
<1>1. DaemonInv => OutcomeIsLastWord
  BY DeservedResults DEF DaemonInv
<1>. QED  BY <1>1, BinaryIsDaemon, DaemonCorrect, PTL

(* A failed focus names the hook that failed, or its outcome is at fault.  *)
THEOREM BlameIsDeserved == AnimusSpec => []BlameIsRight
<1>1. DaemonInv => BlameIsRight
  BY DeservedResults DEF DaemonInv
<1>. QED  BY <1>1, BinaryIsDaemon, DaemonCorrect, PTL

-----------------------------------------------------------------------------
(* `work list` and `work show`                                             *)

(* What InsertAt does to a sequence, position by position.                 *)
LEMMA Inserted ==
  ASSUME NEW S, NEW s \in Seq(S), NEW u \in S, NEW k \in 1..(Len(s) + 1)
  PROVE  /\ InsertAt(s, k, u) \in Seq(S) /\ Len(InsertAt(s, k, u)) = Len(s) + 1
         /\ InsertAt(s, k, u)[k] = u
         /\ \A j \in 1..Len(s) :
              s[j] = InsertAt(s, k, u)[IF j < k THEN j ELSE j + 1]
         /\ \A j \in 1..(Len(s) + 1) : j # k =>
              InsertAt(s, k, u)[j] = s[IF j < k THEN j ELSE j - 1]
<1>. DEFINE front == SubSeq(s, 1, k - 1)
            back  == SubSeq(s, k, Len(s))
            first == front \o <<u>>
<1>0. Len(s) \in Nat /\ k \in Int /\ \A i \in 1..Len(s) : s[i] \in S
  BY LenProperties, ElementOfSeq
<1>1. /\ front \in Seq(S) /\ Len(front) = k - 1
      /\ \A i \in 1..(k - 1) : front[i] = s[i]
  <2>1. \A i \in 1..(k - 1) : s[i] \in S
    BY <1>0
  <2>. QED  BY <1>0, <2>1, SubSeqProperties
<1>2. /\ back \in Seq(S) /\ Len(back) = Len(s) + 1 - k
      /\ \A i \in 1..(Len(s) + 1 - k) : back[i] = s[k + i - 1]
  <2>1. \A i \in k..Len(s) : s[i] \in S
    BY <1>0
  <2>. QED  BY <1>0, <2>1, SubSeqProperties
<1>3. /\ first \in Seq(S) /\ Len(first) = k /\ first[k] = u
      /\ \A i \in 1..(k - 1) : first[i] = s[i]
  <2>1. <<u>> \in Seq(S) /\ Len(<<u>>) = 1 /\ <<u>>[1] = u
    OBVIOUS
  <2>. HIDE DEF front
  <2>. QED  BY <1>0, <1>1, <2>1, ConcatProperties
<1>4. /\ first \o back \in Seq(S) /\ Len(first \o back) = Len(s) + 1
      /\ \A i \in 1..k : (first \o back)[i] = first[i]
      /\ \A i \in (k + 1)..(Len(s) + 1) : (first \o back)[i] = s[i - 1]
  <2>. HIDE DEF first, back
  <2>. QED  BY <1>0, <1>2, <1>3, ConcatProperties
<1>5. InsertAt(s, k, u) = first \o back
  BY DEF InsertAt
<1>. HIDE DEF first, back
<1>. QED  BY <1>0, <1>3, <1>4, <1>5

(* An item that a list has shown leaves the window only when as many items *)
(* have arrived as there was room for above it.                            *)
ShownInv ==
  /\ items \in Seq(Uuids)
  /\ \A j, k \in 1..Len(items) : items[j] = items[k] => j = k
  /\ DOMAIN room \subseteq Uuids
  /\ \A u \in DOMAIN room :
       \E k \in 1..Len(items) :
         items[k] = u /\ room[u] \in Nat /\ k + room[u] <= Window

LEMMA ArriveKeeps ==
  ASSUME ShownInv, NEW u \in Uuids, Arrive(u)
  PROVE  ShownInv'
<1>. USE DEF ShownInv
<1>1. PICK k \in 1..(Len(items) + 1) : items' = InsertAt(items, k, u)
  BY DEF Arrive
<1>2. /\ items' \in Seq(Uuids) /\ Len(items') = Len(items) + 1 /\ items'[k] = u
      /\ \A j \in 1..Len(items) : items[j] = items'[IF j < k THEN j ELSE j + 1]
      /\ \A j \in 1..(Len(items) + 1) : j # k =>
           items'[j] = items[IF j < k THEN j ELSE j - 1]
  BY <1>1, Inserted
<1>3. Len(items) \in Nat /\ \A j \in 1..Len(items) : items[j] # u
  BY LenProperties DEF Arrive, Stored, ToSet
<1>4. ASSUME NEW i \in 1..Len(items'), NEW j \in 1..Len(items'), items'[i] = items'[j]
      PROVE  i = j
  <2>1. \A l \in 1..Len(items') : l # k => items'[l] # u
    BY <1>2, <1>3
  <2>0. items'[k] = u
    BY <1>2
  <2>2. CASE i = k \/ j = k
    <3>. HIDE DEF ShownInv
    <3>. QED  BY <1>4, <2>0, <2>1, <2>2
  <2>3. CASE i # k /\ j # k
    <3> DEFINE a == IF i < k THEN i ELSE i - 1
               b == IF j < k THEN j ELSE j - 1
    <3>1. i \in 1..(Len(items) + 1) /\ j \in 1..(Len(items) + 1) /\ Len(items) \in Nat
      BY <1>2, <1>3
    <3>2. items'[i] = items[a] /\ items'[j] = items[b]
      BY <1>2, <2>3, <3>1
    <3>3. a \in 1..Len(items) /\ b \in 1..Len(items) /\ (a = b => i = j)
      <4>. HIDE DEF ShownInv
      <4>. QED  BY <2>3, <3>1
    <3>. HIDE DEF a, b
    <3>4. a = b
      BY <1>4, <3>2, <3>3
    <3>. QED  BY <3>3, <3>4
  <2>. QED  BY <2>2, <2>3
<1>5. DOMAIN room' \subseteq DOMAIN room
      /\ \A v \in DOMAIN room' : room[v] > 0 /\ room'[v] = room[v] - 1
  BY DEF Arrive
<1>6. ASSUME NEW v \in DOMAIN room'
      PROVE  \E j \in 1..Len(items') :
               items'[j] = v /\ room'[v] \in Nat /\ j + room'[v] <= Window
  <2>1. PICK j \in 1..Len(items) :
          items[j] = v /\ room[v] \in Nat /\ j + room[v] <= Window
    BY <1>5
  <2>2. room[v] > 0 /\ room'[v] = room[v] - 1 /\ room[v] \in Nat
    BY <1>5, <2>1
  <2>3. room'[v] \in Nat /\ j + 1 + room'[v] <= Window /\ j + room'[v] <= Window
    <3>. HIDE DEF ShownInv
    <3>1. j \in Nat /\ Window \in Nat /\ j + room[v] <= Window
      BY <1>3, <2>1, ShowAssumption
    <3>2. room[v] \in Nat /\ room[v] > 0
      BY <2>2
    <3>. QED  BY <2>2, <3>1, <3>2
  <2>. DEFINE l == IF j < k THEN j ELSE j + 1
  <2>4. l \in 1..Len(items') /\ items'[l] = v
    BY <1>2, <1>3, <2>1
  <2>5. l + room'[v] <= Window
    BY <2>3
  <2>. QED  BY <2>3, <2>4, <2>5
<1>. QED  BY <1>2, <1>4, <1>5, <1>6

LEMMA ListKeeps ==
  ASSUME ShownInv, NEW limit \in Limits, List(limit)
  PROVE  ShownInv'
<1>. USE DEF ShownInv
<1>1. PICK matching \in SUBSET Stored :
        room' = [u \in DOMAIN room \cup
                       {u \in Printed(ListWorkItems(matching, limit)) : Position(u) <= Window}
                 |-> Window - Position(u)]
  BY DEF List
<1>2. DOMAIN items = 1..Len(items) /\ Len(items) \in Nat
      /\ \A k \in 1..Len(items) : items[k] \in Uuids
  BY LenProperties, ElementOfSeq
<1>3. \A k \in 1..Len(items) : Position(items[k]) = k
  BY <1>2 DEF Position
<1>4. ASSUME NEW u \in DOMAIN room'
      PROVE  \E k \in 1..Len(items) : items[k] = u /\ k <= Window
  <2>1. CASE u \in DOMAIN room
    BY <1>2, <2>1, ShowAssumption
  <2>2. CASE u \in Printed(ListWorkItems(matching, limit)) /\ Position(u) <= Window
    <3>1. PICK k \in DOMAIN items : u = items[k]
      BY <2>2 DEF Printed, ListWorkItems
    <3>. QED  BY <1>2, <1>3, <2>2, <3>1
  <2>. QED  BY <1>1, <2>1, <2>2
<1>5. ASSUME NEW u \in DOMAIN room'
      PROVE  \E k \in 1..Len(items) :
               items[k] = u /\ room'[u] \in Nat /\ k + room'[u] <= Window
  <2>1. PICK k \in 1..Len(items) : items[k] = u /\ k <= Window
    BY <1>4
  <2>2. room'[u] = Window - Position(u)
    BY <1>1
  <2>3. Position(u) = k
    BY <1>3, <2>1
  <2>4. Window - k \in Nat /\ k + (Window - k) <= Window
    BY <2>1, ShowAssumption
  <2>5. k \in 1..Len(items) /\ items[k] = u /\ room'[u] \in Nat /\ k + room'[u] <= Window
    BY <2>1, <2>2, <2>3, <2>4, Zenon
  <2>. QED  BY <2>5
<1>6. DOMAIN room' \subseteq Uuids
  BY <1>2, <1>4
<1>7. items' = items
  BY DEF List
<1>. QED  BY <1>5, <1>6, <1>7

(* An id that is printed is its own prefix, and the window is searched.    *)
LEMMA ShownIsFound == ShownInv => ShowFinds
<1> SUFFICES ASSUME ShownInv, NEW u \in DOMAIN room
             PROVE  u \in Show(Display(u))
  BY DEF ShowFinds
<1>. USE DEF ShownInv
<1>1. PICK k \in 1..Len(items) : items[k] = u /\ k <= Window
  BY ShowAssumption
<1>2. /\ DOMAIN items = 1..Len(items) /\ Len(items) \in Nat
      /\ \A j \in 1..Len(items) : items[j] \in Stored
  BY LenProperties DEF Stored, ToSet
<1>3. /\ Display(u) \in Seq(Nat) /\ Len(Display(u)) = ShortLen
      /\ ShortLen < FullLen
  <2>1. u \in Seq(Nat) /\ Len(u) = FullLen
    BY ShowAssumption
  <2>2. \A i \in 1..ShortLen : u[i] \in Nat
    BY <2>1, ShowAssumption, ElementOfSeq
  <2>. QED  BY <2>1, <2>2, ShowAssumption, SubSeqProperties DEF Display
<1>4. IsPrefix(Display(u), Display(u))
  BY <1>3, ShowAssumption DEF IsPrefix
<1>5. k \in ListWorkItems(Stored, Window)
  <2>. DEFINE Above == {j \in 1..k : items[j] \in Stored}
  <2>1. Above = 1..k
    BY <1>2
  <2>2. Cardinality(1..k) = k
    BY FS_Interval
  <2>3. Cardinality(Above) <= Window
    BY <1>1, <2>1, <2>2
  <2>. QED  BY <1>1, <1>2, <2>3 DEF ListWorkItems
<1>6. u \in {items[j] : j \in ListWorkItems(Stored, Window)}
  BY <1>1, <1>5
<1>. QED  BY <1>3, <1>4, <1>6 DEF Show

-----------------------------------------------------------------------------
(* The binary                                                              *)

(* What DaemonInv leaves out of the daemons' types.                        *)
DaemonRest ==
  /\ edits \in 0..MaxEdits
  /\ subscriber \in [Daemons -> BOOLEAN]
  /\ cause \in [Daemons -> {"none", "logger", "environment", "directory"}]
  /\ focused \in Names \cup {NoDef.name}

LEMMA RestKeeps ==
  ASSUME DaemonInv, DaemonRest, [DaemonNext]_allVars
  PROVE  DaemonRest'
<1>. USE DaemonAssumption DEF DaemonRest
<1>1. ASSUME NEW d \in Daemons, Start(d), UNCHANGED <<vars, dirVars, focused>>
      PROVE  DaemonRest'
  <2>1. UNCHANGED <<edits, focused>>
    BY <1>1 DEF dirVars
  <2>2. ASSUME NEW why \in {"none", "logger", "environment", "directory"}, Exit(d, why)
        PROVE  DaemonRest'
    BY <2>1, <2>2 DEF Exit
  <2>3. CASE StartFails(d) \/ LoadFails(d) \/ Quit(d)
    BY <2>2, <2>3 DEF StartFails, LoadFails, Quit
  <2>4. CASE InitTelemetry(d)
    BY <2>1, <2>2, <2>4 DEF InitTelemetry
  <2>5. CASE Launch(d)
    BY <2>1, <2>5 DEF Launch
  <2>6. CASE Connect(d) \/ Ready(d) \/ (\E f \in Files : LoadEntry(d, f))
    BY <2>1, <2>6 DEF Connect, Ready, LoadEntry
  <2>. QED  BY <1>1, <2>3, <2>4, <2>5, <2>6 DEF Start
<1>2. ASSUME NEW f \in Files, Edit(f)  PROVE DaemonRest'
  BY <1>2 DEF Edit
<1>3. ASSUME NEW d \in Daemons, NEW n \in Names, Dispatch(d, n)  PROVE DaemonRest'
  BY <1>3 DEF Dispatch
<1>4. ASSUME UNCHANGED <<dirVars, daemonVars, focused>>  PROVE DaemonRest'
  BY <1>4 DEF dirVars, daemonVars
<1>. QED  BY <1>1, <1>2, <1>3, <1>4 DEF DaemonNext, FocusStep, allVars

BinaryInv ==
  DaemonInv /\ DaemonRest /\ ShownInv /\ command \in {"serve", "work"}

(* main runs one command, which leaves the state of the others alone.      *)
THEOREM BinaryCorrect == AnimusSpec => []BinaryInv
<1>1. AnimusInit => BinaryInv
  <2>. SUFFICES ASSUME AnimusInit  PROVE BinaryInv
    OBVIOUS
  <2>1. DaemonInv
    BY DaemonStarts DEF AnimusInit
  <2>2. DaemonRest
    BY DaemonAssumption DEF AnimusInit, DaemonInit, DaemonRest
  <2>3. ShownInv
    BY EmptySeq DEF AnimusInit, WorkInit, ShownInv
  <2>. QED  BY <2>1, <2>2, <2>3 DEF AnimusInit, BinaryInv
<1>2. BinaryInv /\ [AnimusNext]_animusVars => BinaryInv'
  <2>. SUFFICES ASSUME BinaryInv, [AnimusNext]_animusVars  PROVE BinaryInv'
    OBVIOUS
  <2>. USE DEF BinaryInv
  <2>1. [DaemonNext]_allVars
    BY DEF AnimusNext, animusVars
  <2>2. DaemonInv' /\ DaemonRest'
    BY <2>1, DaemonKeeps, RestKeeps
  <2>3. ShownInv'
    <3>1. CASE UNCHANGED workVars
      BY <3>1 DEF workVars, ShownInv
    <3>2. CASE WorkNext
      BY <3>2, ArriveKeeps, ListKeeps DEF WorkNext
    <3>. QED  BY <3>1, <3>2 DEF AnimusNext, animusVars
  <2>. QED  BY <2>2, <2>3 DEF AnimusNext, animusVars
<1>. QED  BY <1>1, <1>2, PTL DEF AnimusSpec

(* cmd_work_show: the printed id of an item that a list has shown finds    *)
(* it, until as many items have arrived as the window had room for.        *)
THEOREM ListedIsFound == AnimusSpec => []ShowFinds
<1>1. BinaryInv => ShowFinds
  BY ShownIsFound DEF BinaryInv
<1>. QED  BY <1>1, BinaryCorrect, PTL

(* The types of the binary: a registry files a definition under its name,  *)
(* no item is stored twice, and what was shown is stored.                  *)
THEOREM BinaryTypes == AnimusSpec => []AnimusTypeOK
<1>1. BinaryInv => AnimusTypeOK
  <2>. SUFFICES ASSUME BinaryInv  PROVE AnimusTypeOK
    OBVIOUS
  <2>1. FocusTypeOK
    BY DeservedResults DEF BinaryInv, DaemonInv
  <2>2. DaemonTypeOK
    BY <2>1 DEF BinaryInv, DaemonInv, DaemonRest, LoaderTypes, DaemonTypeOK
  <2>3. WorkTypeOK
    <3>. USE DEF BinaryInv, ShownInv
    <3>1. DOMAIN items = 1..Len(items) /\ \A k \in 1..Len(items) : items[k] \in Uuids
      BY LenProperties, ElementOfSeq
    <3>2. Stored \subseteq Uuids /\ IsInjective(items)
      BY <3>1 DEF Stored, ToSet, IsInjective
    <3>3. ASSUME NEW u \in DOMAIN room
          PROVE  u \in Stored /\ room[u] \in 0..Window
      <4>1. PICK k \in 1..Len(items) :
              items[k] = u /\ room[u] \in Nat /\ k + room[u] <= Window
        OBVIOUS
      <4>2. room[u] \in 0..Window
        BY <4>1, ShowAssumption
      <4>. QED  BY <3>1, <4>1, <4>2 DEF Stored, ToSet
    <3>. QED  BY <3>2, <3>3 DEF WorkTypeOK
  <2>. QED  BY <2>2, <2>3 DEF BinaryInv, AnimusTypeOK
<1>. QED  BY <1>1, BinaryCorrect, PTL
=============================================================================
