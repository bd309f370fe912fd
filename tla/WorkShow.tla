------------------------------ MODULE WorkShow ------------------------------
(***************************************************************************)
(* `animus work list` and `animus work show` (src/bin/animus.rs) on top of *)
(* list_work_items (src/db/work.rs).  A user reads the id of an item off a *)
(* list and shows it later, when more items have come in.                  *)
(*                                                                         *)
(* A uuid is a sequence of digits.  WorkId's Display (src/model/work.rs)   *)
(* is its beginning, and nothing else of it is ever printed.               *)
(***************************************************************************)
EXTENDS Naturals, Sequences, FiniteSets, SequencesExt

CONSTANTS
  Uuids,      \* sequences of digits of one length
  FullLen,    \* that length: 36 in the code
  ShortLen,   \* digits that Display prints: 8
  Window,     \* items among which show looks for a prefix: 100
  Limits,     \* arguments of --limit
  Wide        \* items whose skill has a multi-byte character across byte 20

ASSUME ShowAssumption ==
  /\ ShortLen \in Nat /\ FullLen \in Nat /\ ShortLen < FullLen
  /\ Uuids \subseteq Seq(Nat) /\ \A u \in Uuids : Len(u) = FullLen
  /\ Window \in Nat /\ Limits \subseteq Nat /\ Wide \subseteq Uuids

VARIABLES
  items,   \* the stored items, the one created last first
  room     \* history: for each u that a list has shown, how many more items
           \* may arrive before u leaves the window

workVars == <<items, room>>

Stored == ToSet(items)

WorkTypeOK ==
  /\ Stored \subseteq Uuids /\ IsInjective(items)
  /\ DOMAIN room \subseteq Stored /\ \A u \in DOMAIN room : room[u] \in 0..Window

WorkInit ==
  /\ items = <<>>
  /\ room = <<>>

-----------------------------------------------------------------------------

Display(u) == SubSeq(u, 1, ShortLen)

(* Mutant: ORDER BY created_at without DESC.                               *)
MutListWorkItems(matching, limit) ==
  {k \in DOMAIN items :
     items[k] \in matching /\ Cardinality({j \in k..Len(items) : items[j] \in matching}) <= limit}

(* ORDER BY created_at DESC LIMIT n, of the rows that match the filters:   *)
(* their positions.                                                        *)
ListWorkItems(matching, limit) ==
  {k \in DOMAIN items :
     items[k] \in matching /\ Cardinality({j \in 1..k : items[j] \in matching}) <= limit}

(* submit_work takes created_at from the clock before its INSERT, which    *)
(* may wait: an item can turn up below others that are stored already.     *)
Arrive(u) ==
  /\ u \notin Stored
  /\ \E k \in 1..(Len(items) + 1) : items' = InsertAt(items, k, u)
  /\ room' = [v \in {v \in DOMAIN room : room[v] > 0} |-> room[v] - 1]

(* The rows that are printed: the cut of a skill at byte 20 panics when it *)
(* goes through a character, and the rest of the list is missing.          *)
Printed(rows) ==
  {items[k] : k \in {k \in rows : \A j \in rows : j <= k => items[j] \notin Wide}}

Position(u) == CHOOSE k \in DOMAIN items : items[k] = u

(* Filters on state and faculty may select any of the items.               *)
List(limit) ==
  /\ \E matching \in SUBSET Stored :
       LET seen == {u \in Printed(ListWorkItems(matching, limit)) : Position(u) <= Window} IN
         room' = [u \in DOMAIN room \cup seen |-> Window - Position(u)]
  /\ UNCHANGED items

(* work show: a shorter argument is matched with the printed ids of the    *)
(* newest items, a longer one is a uuid that is looked up.  The item is    *)
(* shown if it is the only one, and anything else is an error.             *)
Show(id) ==
  IF Len(id) < FullLen
  THEN {u \in {items[k] : k \in ListWorkItems(Stored, Window)} : IsPrefix(id, Display(u))}
  ELSE Stored \cap {id}

WorkNext == (\E u \in Uuids : Arrive(u)) \/ (\E n \in Limits : List(n))

-----------------------------------------------------------------------------
(* Properties                                                              *)

(* The id that a list has printed finds that item, if not that item alone, *)
(* until as many items have arrived as the window had room for above it,   *)
(* however they were stamped.                                              *)
ShowFinds == \A u \in DOMAIN room : u \in Show(Display(u))
=============================================================================
