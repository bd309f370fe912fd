------------------------------ MODULE DataLemmas ------------------------------
(***************************************************************************)
(* Induction and recursion over numbers and sequences, in the form that    *)
(* the proofs about recursive definitions need: over sets and functions,   *)
(* never over operators.                                                   *)
(***************************************************************************)
EXTENDS Naturals, SequencesExt, SequenceTheorems, WellFoundedInduction, TLAPS

-----------------------------------------------------------------------------
(* Induction and recursion over the numbers                                *)

(* A set of numbers that is not empty has a lowest one.                    *)
LEMMA LeastOf ==
  ASSUME NEW S \in SUBSET Nat, S # {}
  PROVE  \E i \in S : \A j \in S : i <= j
<1>. DEFINE Less == {ss \in Nat \X Nat : ss[1] < ss[2]}
<1>1. IsWellFoundedOn(Less, Nat)
  BY NatLessThanWellFounded DEF OpToRel
<1>2. \E i \in S : \A j \in S : ~ (<<j, i>> \in Less)
  <2>. HIDE DEF Less
  <2>1. S \subseteq Nat /\ S # {}
    OBVIOUS
  <2>. QED  BY <1>1, <2>1, WFMin, Zenon
<1>3. PICK i \in S : \A j \in S : ~ (<<j, i>> \in Less)
  BY <1>2
<1>4. ASSUME NEW j \in S  PROVE i <= j
  <2>1. i \in Nat /\ j \in Nat /\ ~ (<<j, i>> \in Less)
    BY <1>3
  <2>2. ~ (j < i)
    BY <2>1
  <2>. QED  BY <2>1, <2>2
<1>. QED  BY <1>4

(* Induction, over a set of numbers.                                      *)
LEMMA Induction ==
  ASSUME NEW S, 0 \in S, \A n \in Nat : n \in S => n + 1 \in S
  PROVE  Nat \subseteq S
<1> SUFFICES ASSUME Nat \ S # {}  PROVE FALSE
  OBVIOUS
<1>1. Nat \ S \in SUBSET Nat
  OBVIOUS
<1>2. PICK i \in Nat \ S : \A j \in Nat \ S : i <= j
  BY <1>1, LeastOf
<1>3. i # 0 /\ i - 1 \in Nat /\ i - 1 \in S
  BY <1>2
<1>. QED  BY <1>2, <1>3

(* A definition by recursion, of a function on the numbers with a given    *)
(* start and a given step for every number, defines one.                   *)
Steps(S) == [Nat -> [S -> S]]
Follows(f, base, step) == f = [n \in Nat |-> IF n = 0 THEN base ELSE step[n - 1][f[n - 1]]]
Unfolds(f, S, base, step) ==
  f \in [Nat -> S] /\ f[0] = base /\ \A n \in Nat : f[n + 1] = step[n][f[n]]

LEMMA Recursion ==
  ASSUME NEW S, NEW base \in S, NEW step \in Steps(S)
  PROVE  \E f : Follows(f, base, step)
<1>. USE DEF Steps
<1> DEFINE Begins(g, n) ==
      g \in [0..n -> S] /\ g[0] = base /\ \A i \in Nat : i < n => g[i + 1] = step[i][g[i]]
<1>1. ASSUME NEW n \in Nat  PROVE \E g : Begins(g, n)
  <2> DEFINE D == {k \in Nat : \E g : Begins(g, k)}
  <2>1. 0 \in D
    <3>1. Begins([i \in 0..0 |-> base], 0)
      OBVIOUS
    <3>. QED  BY <3>1
  <2>2. ASSUME NEW k \in Nat, k \in D  PROVE k + 1 \in D
    <3>1. PICK g : Begins(g, k)
      BY <2>2
    <3> DEFINE h == [i \in 0..(k + 1) |-> IF i <= k THEN g[i] ELSE step[k][g[k]]]
    <3>2. g[k] \in S /\ step[k][g[k]] \in S
      BY <3>1
    <3>3. h \in [0..(k + 1) -> S] /\ h[0] = base
      BY <3>1, <3>2
    <3>4. ASSUME NEW i \in Nat, i < k + 1  PROVE h[i + 1] = step[i][h[i]]
      <4>1. CASE i < k
        BY <3>1, <4>1
      <4>2. CASE i = k
        BY <4>2
      <4>. QED  BY <3>4, <4>1, <4>2
    <3>. HIDE DEF h
    <3>5. Begins(h, k + 1)
      BY <3>3, <3>4
    <3>. HIDE DEF Begins
    <3>. QED  BY <3>5
  <2>. HIDE DEF D
  <2>3. Nat \subseteq D
    BY <2>1, <2>2, Induction
  <2>. QED  BY <2>3 DEF D
<1>2. ASSUME NEW m \in Nat, NEW n \in Nat, NEW g, NEW h, Begins(g, m), Begins(h, n)
      PROVE  \A i \in Nat : i <= m /\ i <= n => g[i] = h[i]
  <2> DEFINE D == {i \in Nat : i <= m /\ i <= n => g[i] = h[i]}
  <2>1. 0 \in D
    BY <1>2
  <2>2. ASSUME NEW i \in Nat, i \in D  PROVE i + 1 \in D
    <3> SUFFICES ASSUME i + 1 <= m, i + 1 <= n  PROVE g[i + 1] = h[i + 1]
      OBVIOUS
    <3>1. g[i] = h[i] /\ i < m /\ i < n
      BY <2>2
    <3>. QED  BY <1>2, <3>1
  <2>. HIDE DEF D
  <2>3. Nat \subseteq D
    BY <2>1, <2>2, Induction
  <2>. QED  BY <2>3 DEF D
<1> DEFINE part(n) == CHOOSE g : Begins(g, n)
           f == [n \in Nat |-> part(n)[n]]
<1>3. \A n \in Nat : Begins(part(n), n)
  BY <1>1
<1>. HIDE DEF part
<1>4. f \in [Nat -> S]
  BY <1>3
<1>5. f[0] = base
  BY <1>3
<1>6. ASSUME NEW n \in Nat  PROVE f[n + 1] = step[n][f[n]]
  <2>1. Begins(part(n), n) /\ Begins(part(n + 1), n + 1)
    BY <1>3
  <2>2. part(n)[n] = part(n + 1)[n]
    <3>. HIDE DEF Begins
    <3>1. n + 1 \in Nat /\ n <= n /\ n <= n + 1
      OBVIOUS
    <3>. QED  BY <2>1, <3>1, <1>2
  <2>3. part(n + 1)[n + 1] = step[n][part(n + 1)[n]]
    BY <2>1
  <2>. QED  BY <2>2, <2>3
<1>7. ASSUME NEW n \in Nat  PROVE f[n] = IF n = 0 THEN base ELSE step[n - 1][f[n - 1]]
  <2>1. n = 0 \/ (n - 1 \in Nat /\ n = (n - 1) + 1)
    OBVIOUS
  <2>. QED  BY <1>5, <1>6, <2>1
<1>8. Follows(f, base, step)
  <2>. HIDE DEF f
  <2>. QED  BY <1>4, <1>7 DEF Follows
<1>. QED  BY <1>8

(* What a definition by recursion says of the function it defines.         *)
LEMMA Unfold ==
  ASSUME NEW S, NEW base \in S, NEW step \in Steps(S), NEW f, Follows(f, base, step)
  PROVE  Unfolds(f, S, base, step)
<1>1. f[0] = base /\ f = [n \in Nat |-> f[n]]
  BY DEF Follows
<1>2. \A n \in Nat : f[n + 1] = step[n][f[n]]
  BY DEF Follows
<1>3. \A n \in Nat : f[n] \in S
  <2> DEFINE D == {n \in Nat : f[n] \in S}
  <2>1. 0 \in D
    BY <1>1
  <2>2. \A n \in Nat : n \in D => n + 1 \in D
    BY <1>2 DEF Steps
  <2>. HIDE DEF D
  <2>3. Nat \subseteq D
    BY <2>1, <2>2, Induction
  <2>. QED  BY <2>3 DEF D
<1>. QED  BY <1>1, <1>2, <1>3 DEF Unfolds

-----------------------------------------------------------------------------
(* Sequences, which grow at their end                                      *)

LEMMA FunctionIsSeq ==
  ASSUME NEW T, NEW n \in Nat, NEW f \in [1..n -> T]
  PROVE  f \in Seq(T)
  BY SeqDef

(* Induction, over a set of sequences.                                     *)
LEMMA SeqInduction ==
  ASSUME NEW C, NEW D, <<>> \in D,
         \A s \in Seq(C) : s \in D => \A c \in C : Append(s, c) \in D
  PROVE  Seq(C) \subseteq D
<1> DEFINE N == {n \in Nat : \A s \in Seq(C) : Len(s) = n => s \in D}
<1>1. 0 \in N
  BY EmptySeq
<1>2. ASSUME NEW n \in Nat, n \in N, NEW s \in Seq(C), Len(s) = n + 1
      PROVE  s \in D
  <2>1. s # <<>>
    BY <1>2, EmptySeq
  <2>2. PICK t \in Seq(C), c \in C : s = Append(t, c)
    BY <2>1, SequenceEmptyOrAppend
  <2>3. Len(s) = Len(t) + 1 /\ Len(t) \in Nat
    BY <2>2, AppendProperties, LenProperties
  <2>4. t \in D
    BY <1>2, <2>3
  <2>. QED  BY <2>2, <2>4
<1>3. \A n \in Nat : n \in N => n + 1 \in N
  BY <1>2
<1>. HIDE DEF N
<1>4. Nat \subseteq N
  BY <1>1, <1>3, Induction
<1>. QED  BY <1>4, LenProperties DEF N

(* A machine that reads a sequence, and where it is at the end of it.      *)
Obeys(f, step, s, from) ==
  f[0] = from /\ \A k \in 1..Len(s) : f[k] = step[s[k]][f[k - 1]]
Runs(f, S, step, s, from) == f \in [0..Len(s) -> S] /\ Obeys(f, step, s, from)
RunEnd(S, step, s, from) == (CHOOSE f : Runs(f, S, step, s, from))[Len(s)]

LEMMA RunGoesOn ==
  ASSUME NEW S, NEW C, NEW step \in [C -> [S -> S]], NEW from \in S,
         NEW s \in Seq(C), NEW c \in C, NEW f, Runs(f, S, step, s, from)
  PROVE  \E g : /\ Runs(g, S, step, Append(s, c), from)
                /\ g[Len(s) + 1] = step[c][f[Len(s)]]
<1> DEFINE g == [k \in 0..(Len(s) + 1) |-> IF k <= Len(s) THEN f[k] ELSE step[c][f[Len(s)]]]
<1>1. Len(s) \in Nat /\ Len(Append(s, c)) = Len(s) + 1
      /\ \A k \in 1..Len(s) : Append(s, c)[k] = s[k]
      /\ Append(s, c)[Len(s) + 1] = c
  BY LenProperties, AppendProperties
<1>2. f[Len(s)] \in S /\ step[c][f[Len(s)]] \in S
  <2>1. f \in [0..Len(s) -> S] /\ Len(s) \in 0..Len(s)
    BY <1>1 DEF Runs, Obeys
  <2>2. f[Len(s)] \in S
    BY <2>1
  <2>3. step[c] \in [S -> S]
    OBVIOUS
  <2>. QED  BY <2>2, <2>3
<1>3. /\ g \in [0..(Len(s) + 1) -> S] /\ g[0] = from
      /\ \A k \in 0..Len(s) : g[k] = f[k]
      /\ g[Len(s) + 1] = step[c][f[Len(s)]]
  BY <1>1, <1>2 DEF Runs, Obeys
<1>4. ASSUME NEW k \in 1..(Len(s) + 1)
      PROVE  g[k] = step[Append(s, c)[k]][g[k - 1]]
  <2>. HIDE DEF g
  <2>0. k - 1 \in 0..Len(s) /\ g[k - 1] = f[k - 1]
    BY <1>1, <1>3
  <2>1. CASE k \in 1..Len(s)
    BY <1>1, <1>3, <2>0, <2>1 DEF Runs, Obeys
  <2>2. CASE k = Len(s) + 1
    <3>1. k - 1 = Len(s)
      BY <1>1, <2>2
    <3>2. g[k - 1] = f[Len(s)] /\ Append(s, c)[k] = c
      BY <1>1, <2>0, <2>2, <3>1
    <3>. QED  BY <1>3, <2>2, <3>2
  <2>. QED  BY <1>1, <2>1, <2>2
<1>. HIDE DEF g
<1>5. Runs(g, S, step, Append(s, c), from)
  BY <1>1, <1>3, <1>4 DEF Runs, Obeys
<1>. QED  BY <1>3, <1>5

LEMMA RunExists ==
  ASSUME NEW S, NEW C, NEW step \in [C -> [S -> S]], NEW from \in S
  PROVE  \A s \in Seq(C) : \E f : Runs(f, S, step, s, from)
<1> DEFINE D == {s \in Seq(C) : \E f : Runs(f, S, step, s, from)}
<1>1. <<>> \in D
  <2>1. Runs([k \in 0..0 |-> from], S, step, <<>>, from)
    BY EmptySeq DEF Runs, Obeys
  <2>. QED  BY <2>1, EmptySeq
<1>2. ASSUME NEW s \in Seq(C), s \in D, NEW c \in C  PROVE Append(s, c) \in D
  <2>1. PICK f : Runs(f, S, step, s, from)
    BY <1>2
  <2>2. \E g : Runs(g, S, step, Append(s, c), from)
    BY <2>1, RunGoesOn
  <2>. QED  BY <2>2, AppendProperties
<1>. HIDE DEF D
<1>3. Seq(C) \subseteq D
  BY <1>1, <1>2, SeqInduction
<1>. QED  BY <1>3 DEF D

LEMMA RunUnique ==
  ASSUME NEW S, NEW step, NEW s, Len(s) \in Nat, NEW from, NEW f, NEW g,
         Runs(f, S, step, s, from), Obeys(g, step, s, from)
  PROVE  \A k \in 0..Len(s) : g[k] = f[k]
<1> DEFINE D == {k \in Nat : k <= Len(s) => g[k] = f[k]}
<1>1. 0 \in D
  BY DEF Runs, Obeys
<1>2. ASSUME NEW k \in Nat, k \in D, k + 1 <= Len(s)  PROVE g[k + 1] = f[k + 1]
  <2>1. k + 1 \in 1..Len(s) /\ (k + 1) - 1 = k /\ g[k] = f[k]
    BY <1>2
  <2>. QED  BY <2>1 DEF Runs, Obeys
<1>3. \A k \in Nat : k \in D => k + 1 \in D
  BY <1>2
<1>. HIDE DEF D
<1>4. Nat \subseteq D
  BY <1>1, <1>3, Induction
<1>. QED  BY <1>4 DEF D

(* Where it ends: somewhere in S; at the start, after nothing; a step      *)
(* further, after one thing more; and after two sequences, where the       *)
(* second leads from the end of the first.                                 *)
LEMMA RunIs ==
  ASSUME NEW S, NEW C, NEW step \in [C -> [S -> S]], NEW from \in S, NEW s \in Seq(C)
  PROVE  \E f : Runs(f, S, step, s, from) /\ RunEnd(S, step, s, from) = f[Len(s)]
<1> DEFINE f == CHOOSE g : Runs(g, S, step, s, from)
<1>1. Runs(f, S, step, s, from)
  <2>1. \E g : Runs(g, S, step, s, from)
    BY RunExists
  <2>. QED  BY <2>1
<1>2. RunEnd(S, step, s, from) = f[Len(s)]
  BY DEF RunEnd
<1>. HIDE DEF f
<1>. QED  BY <1>1, <1>2

LEMMA RunEndIn ==
  ASSUME NEW S, NEW C, NEW step \in [C -> [S -> S]], NEW from \in S, NEW s \in Seq(C)
  PROVE  RunEnd(S, step, s, from) \in S
<1>1. PICK f : Runs(f, S, step, s, from) /\ RunEnd(S, step, s, from) = f[Len(s)]
  BY RunIs
<1>2. Len(s) \in 0..Len(s)
  BY LenProperties
<1>. QED  BY <1>1, <1>2 DEF Runs, Obeys

LEMMA RunEndAtStart ==
  ASSUME NEW S, NEW C, NEW step \in [C -> [S -> S]], NEW from \in S,
         NEW s \in Seq(C)
  PROVE  s = <<>> => RunEnd(S, step, s, from) = from
<1>1. PICK f : Runs(f, S, step, s, from) /\ RunEnd(S, step, s, from) = f[Len(s)]
  BY RunIs
<1>. QED  BY <1>1, EmptySeq DEF Runs, Obeys

LEMMA RunEndIs ==
  ASSUME NEW S, NEW C, NEW step \in [C -> [S -> S]], NEW from \in S, NEW s \in Seq(C),
         NEW f, Runs(f, S, step, s, from)
  PROVE  RunEnd(S, step, s, from) = f[Len(s)]
<1>1. PICK g : Runs(g, S, step, s, from) /\ RunEnd(S, step, s, from) = g[Len(s)]
  BY RunIs
<1>2. Runs(g, S, step, s, from)
  BY <1>1
<1>3. Obeys(f, step, s, from)
  BY DEF Runs
<1>4. Len(s) \in Nat
  BY LenProperties
<1>5. \A k \in 0..Len(s) : f[k] = g[k]
  BY <1>2, <1>3, <1>4, RunUnique
<1>. QED  BY <1>1, <1>4, <1>5

LEMMA RunEndAfter ==
  ASSUME NEW S, NEW C, NEW step \in [C -> [S -> S]], NEW from \in S, NEW s \in Seq(C),
         NEW c \in C
  PROVE  RunEnd(S, step, Append(s, c), from) = step[c][RunEnd(S, step, s, from)]
<1>1. PICK f : Runs(f, S, step, s, from) /\ RunEnd(S, step, s, from) = f[Len(s)]
  BY RunIs
<1>2. PICK g : Runs(g, S, step, Append(s, c), from) /\ g[Len(s) + 1] = step[c][f[Len(s)]]
  BY <1>1, RunGoesOn
<1>3. Append(s, c) \in Seq(C) /\ Len(Append(s, c)) = Len(s) + 1
  BY AppendProperties
<1>4. RunEnd(S, step, Append(s, c), from) = g[Len(Append(s, c))]
  <2> DEFINE t == Append(s, c)
  <2>1. t \in Seq(C) /\ Runs(g, S, step, t, from)
    BY <1>2, <1>3
  <2>. HIDE DEF t
  <2>2. RunEnd(S, step, t, from) = g[Len(t)]
    BY <2>1, RunEndIs
  <2>. QED  BY <2>2 DEF t
<1>. QED  BY <1>1, <1>2, <1>3, <1>4

LEMMA RunConcat ==
  ASSUME NEW S, NEW C, NEW step \in [C -> [S -> S]], NEW from \in S, NEW s \in Seq(C)
  PROVE  \A t \in Seq(C) :
           RunEnd(S, step, s \o t, from) = RunEnd(S, step, t, RunEnd(S, step, s, from))
<1> DEFINE mid == RunEnd(S, step, s, from)
           D == {t \in Seq(C) : RunEnd(S, step, s \o t, from) = RunEnd(S, step, t, mid)}
<1>0. mid \in S
  BY RunEndIn
<1>. HIDE DEF mid
<1>1. <<>> \in D
  <2>1. s \o <<>> = s /\ <<>> \in Seq(C)
    BY ConcatEmptySeq, EmptySeq
  <2> DEFINE e == <<>>
  <2>2. e \in Seq(C) /\ e = <<>>
    BY <2>1
  <2>. HIDE DEF e
  <2>3. RunEnd(S, step, e, mid) = mid
    BY <1>0, <2>2, RunEndAtStart
  <2>. QED  BY <2>1, <2>2, <2>3 DEF mid
<1>2. ASSUME NEW t \in Seq(C), t \in D, NEW c \in C  PROVE Append(t, c) \in D
  <2>1. s \o Append(t, c) = Append(s \o t, c) /\ s \o t \in Seq(C) /\ Append(t, c) \in Seq(C)
    BY AppendProperties, ConcatProperties
  <2> DEFINE u == s \o t
  <2>2. RunEnd(S, step, Append(u, c), from) = step[c][RunEnd(S, step, u, from)]
    <3>1. u \in Seq(C)
      BY <2>1
    <3>. HIDE DEF u
    <3>. QED  BY <3>1, RunEndAfter
  <2>3. RunEnd(S, step, Append(t, c), mid) = step[c][RunEnd(S, step, t, mid)]
    BY <1>0, RunEndAfter
  <2>4. RunEnd(S, step, u, from) = RunEnd(S, step, t, mid)
    BY <1>2
  <2>. QED  BY <2>1, <2>2, <2>3, <2>4
<1>. HIDE DEF D
<1>3. Seq(C) \subseteq D
  BY <1>1, <1>2, SeqInduction
<1>. QED  BY <1>3 DEF D, mid

(* FlattenSeq is such a machine, which puts the sequences it reads after   *)
(* each other.                                                             *)
Glue(T) == [c \in Seq(T) |-> [r \in Seq(T) |-> r \o c]]

LEMMA GlueType == \A T : Glue(T) \in [Seq(T) -> [Seq(T) -> Seq(T)]]
  BY ConcatProperties DEF Glue

LEMMA FlatIsRun ==
  ASSUME NEW T, NEW ss \in Seq(Seq(T))
  PROVE  FlattenSeq(ss) = RunEnd(Seq(T), Glue(T), ss, <<>>)
<1> DEFINE none == <<>>
           Solves(g) ==
             g = [i \in 1..Len(ss) |-> IF i = 1 THEN ss[i] ELSE g[i - 1] \o ss[i]]
<1>1. none \in Seq(T) /\ none = <<>>
  BY EmptySeq
<1>2. \E f : Runs(f, Seq(T), Glue(T), ss, none)
  <2>. HIDE DEF none
  <2>. QED  BY <1>1, GlueType, RunExists
<1>3. PICK f : Runs(f, Seq(T), Glue(T), ss, none)
  BY <1>2
<1>4. RunEnd(Seq(T), Glue(T), ss, none) = f[Len(ss)]
  <2> DEFINE S == Seq(T)
             step == Glue(T)
  <2>1. step \in [S -> [S -> S]] /\ none \in S /\ ss \in Seq(S)
    BY <1>1, GlueType
  <2>2. Runs(f, S, step, ss, none)
    BY <1>3
  <2>. HIDE DEF none, S, step
  <2>3. RunEnd(S, step, ss, none) = f[Len(ss)]
    BY <2>1, <2>2, RunEndIs
  <2>. QED  BY <2>3 DEF S, step
<1>5. Len(ss) \in Nat /\ \A k \in 1..Len(ss) : ss[k] \in Seq(T)
  BY LenProperties, ElementOfSeq
<1>6. \A k \in 0..Len(ss) : f[k] \in Seq(T)
  BY <1>3 DEF Runs
<1>7. f[0] = none
  BY <1>3 DEF Runs, Obeys
<1>8. ASSUME NEW k \in 1..Len(ss)  PROVE f[k] = f[k - 1] \o ss[k]
  <2>1. f[k] = Glue(T)[ss[k]][f[k - 1]]
    BY <1>3 DEF Runs, Obeys
  <2>2. k - 1 \in 0..Len(ss)
    BY <1>5
  <2>3. f[k - 1] \in Seq(T) /\ ss[k] \in Seq(T)
    BY <1>5, <1>6, <2>2
  <2>. QED  BY <2>1, <2>3 DEF Glue
<1>9. CASE Len(ss) = 0
  <2>1. ss = none
    BY <1>9, EmptySeq
  <2>2. FlattenSeq(ss) = ss
    BY <1>9 DEF FlattenSeq
  <2>. QED  BY <1>4, <1>7, <1>9, <2>1, <2>2
<1>10. CASE Len(ss) # 0
  <2>1. ASSUME NEW i \in 1..Len(ss)
        PROVE  f[i] = IF i = 1 THEN ss[i] ELSE f[i - 1] \o ss[i]
    <3>1. i = 1 => f[i] = none \o ss[i]
      <4>1. 1 - 1 = 0
        OBVIOUS
      <4>. QED  BY <1>7, <1>8, <4>1
    <3>2. none \o ss[i] = ss[i]
      BY <1>5, ConcatEmptySeq
    <3>. QED  BY <1>8, <3>1, <3>2
  <2> DEFINE h == [i \in 1..Len(ss) |-> f[i]]
  <2>2. Solves(h)
    <3>1. ASSUME NEW i \in 1..Len(ss)
          PROVE  h[i] = IF i = 1 THEN ss[i] ELSE h[i - 1] \o ss[i]
      <4>1. i = 1 \/ i - 1 \in 1..Len(ss)
        BY <1>5
      <4>. QED  BY <2>1, <4>1
    <3>. QED  BY <3>1
  <2> DEFINE flatten == CHOOSE g : Solves(g)
  <2>3. Solves(flatten)
    <3>. HIDE DEF h, Solves
    <3>. QED  BY <2>2, Zenon
  <2>4. FlattenSeq(ss) = flatten[Len(ss)]
    BY <1>10, Zenon DEF FlattenSeq
  <2>5. \A i \in 1..Len(ss) :
          flatten[i] = IF i = 1 THEN ss[i] ELSE flatten[i - 1] \o ss[i]
    <3>. HIDE DEF flatten
    <3>. QED  BY <2>3
  <2>. HIDE DEF flatten
  <2> DEFINE D == {k \in Nat : k + 1 \in 1..Len(ss) => flatten[k + 1] = f[k + 1]}
  <2>6. 0 \in D
    BY <2>1, <2>5
  <2>7. ASSUME NEW k \in Nat, k \in D, (k + 1) + 1 \in 1..Len(ss)
        PROVE  flatten[(k + 1) + 1] = f[(k + 1) + 1]
    <3>1. k + 1 \in 1..Len(ss) /\ ((k + 1) + 1) - 1 = k + 1 /\ (k + 1) + 1 # 1
      BY <1>5, <2>7
    <3>2. flatten[k + 1] = f[k + 1]
      BY <2>7, <3>1
    <3>3. flatten[(k + 1) + 1] = flatten[k + 1] \o ss[(k + 1) + 1]
      BY <2>5, <2>7, <3>1
    <3>4. f[(k + 1) + 1] = f[k + 1] \o ss[(k + 1) + 1]
      BY <1>8, <2>7, <3>1
    <3>. QED  BY <3>2, <3>3, <3>4
  <2>8. \A k \in Nat : k \in D => k + 1 \in D
    BY <2>7
  <2>. HIDE DEF D
  <2>9. Nat \subseteq D
    BY <2>6, <2>8, Induction
  <2>10. Len(ss) - 1 \in Nat /\ (Len(ss) - 1) + 1 = Len(ss) /\ Len(ss) \in 1..Len(ss)
    BY <1>5, <1>10
  <2>11. flatten[Len(ss)] = f[Len(ss)]
    BY <2>9, <2>10 DEF D
  <2>. QED  BY <1>4, <2>4, <2>11
<1>. QED  BY <1>9, <1>10

LEMMA FlatIn ==
  ASSUME NEW T, NEW ss \in Seq(Seq(T))
  PROVE  FlattenSeq(ss) \in Seq(T)
<1> DEFINE none == <<>>
<1>1. none \in Seq(T)
  BY EmptySeq
<1>2. FlattenSeq(ss) = RunEnd(Seq(T), Glue(T), ss, none)
  BY FlatIsRun
<1>. HIDE DEF none
<1>3. RunEnd(Seq(T), Glue(T), ss, none) \in Seq(T)
  BY <1>1, GlueType, RunEndIn
<1>. QED  BY <1>2, <1>3

LEMMA FlatAfter ==
  ASSUME NEW T, NEW ss \in Seq(Seq(T)), NEW c \in Seq(T)
  PROVE  FlattenSeq(Append(ss, c)) = FlattenSeq(ss) \o c
<1> DEFINE none == <<>>
           tt == Append(ss, c)
<1>1. none \in Seq(T) /\ tt \in Seq(Seq(T))
  BY EmptySeq, AppendProperties
<1>2. FlattenSeq(ss) = RunEnd(Seq(T), Glue(T), ss, none)
  BY FlatIsRun
<1>3. FlattenSeq(tt) = RunEnd(Seq(T), Glue(T), tt, none)
  <2>. HIDE DEF tt
  <2>. QED  BY <1>1, FlatIsRun DEF none
<1>. HIDE DEF none
<1>4. RunEnd(Seq(T), Glue(T), Append(ss, c), none)
        = Glue(T)[c][RunEnd(Seq(T), Glue(T), ss, none)]
  BY <1>1, GlueType, RunEndAfter
<1>5. RunEnd(Seq(T), Glue(T), ss, none) \in Seq(T)
  BY <1>1, GlueType, RunEndIn
<1>. QED  BY <1>2, <1>3, <1>4, <1>5 DEF Glue

LEMMA AppendConcat ==
  ASSUME NEW T, NEW s \in Seq(T), NEW t \in Seq(T), NEW c \in T
  PROVE  s \o Append(t, c) = Append(s \o t, c)
  BY AppendProperties, ConcatProperties

LEMMA FlatEmpty == FlattenSeq(<<>>) = <<>>
  BY EmptySeq DEF FlattenSeq

-----------------------------------------------------------------------------
(* Sequences that are computed thing by thing                              *)

(* One thing more gives one result more.                                   *)
Maps(f, s) == f = [k \in DOMAIN s |-> f[k]]
AgreeOn(f, g, s) == \A k \in 1..Len(s) : g[k] = f[k]

LEMMA MapAfter ==
  ASSUME NEW C, NEW s \in Seq(C), NEW c \in C, NEW f, NEW g,
         Maps(f, s), Maps(g, Append(s, c)), AgreeOn(f, g, s)
  PROVE  g = Append(f, g[Len(s) + 1])
<1>1. /\ Len(s) \in Nat /\ DOMAIN s = 1..Len(s)
      /\ DOMAIN Append(s, c) = 1..(Len(s) + 1)
  BY LenProperties, AppendProperties
<1>. USE DEF Maps, AgreeOn
<1>2. DOMAIN f = 1..Len(s) /\ DOMAIN g = 1..(Len(s) + 1)
  BY <1>1
<1> DEFINE T == {f[k] : k \in 1..Len(s)} \cup {g[Len(s) + 1]}
<1>3. f \in Seq(T) /\ Len(f) = Len(s)
  <2>1. f \in [1..Len(s) -> T]
    BY <1>1
  <2>. HIDE DEF T
  <2>. QED  BY <1>1, <2>1, IsASeq
<1>4. g[Len(s) + 1] \in T
  OBVIOUS
<1> DEFINE h == Append(f, g[Len(s) + 1])
<1>5. h \in Seq(T) /\ Len(h) = Len(s) + 1 /\ h[Len(s) + 1] = g[Len(s) + 1]
        /\ \A k \in 1..Len(s) : h[k] = f[k]
  BY <1>3, <1>4, AppendProperties
<1>6. DOMAIN h = 1..(Len(s) + 1) /\ h = [k \in 1..(Len(s) + 1) |-> h[k]]
  BY <1>5
<1>7. \A k \in 1..(Len(s) + 1) : h[k] = g[k]
  BY <1>1, <1>5
<1>. HIDE DEF h
<1>8. h = g
  BY <1>1, <1>6, <1>7
<1>. QED  BY <1>8 DEF h

(* Sequences with something between them.                                  *)
GluePieces(ls, sep) == [k \in DOMAIN ls |-> IF k = 1 THEN ls[1] ELSE sep \o ls[k]]
Glued(ls, sep) == FlattenSeq(GluePieces(ls, sep))

LEMMA GluePiecesType ==
  ASSUME NEW T, NEW sep \in Seq(T), NEW ls \in Seq(Seq(T))
  PROVE  GluePieces(ls, sep) \in Seq(Seq(T)) /\ Glued(ls, sep) \in Seq(T)
<1>1. Len(ls) \in Nat /\ DOMAIN ls = 1..Len(ls) /\ \A k \in 1..Len(ls) : ls[k] \in Seq(T)
  BY LenProperties, ElementOfSeq
<1>3. \A k \in 1..Len(ls) : sep \o ls[k] \in Seq(T)
  BY <1>1, ConcatProperties
<1>4. GluePieces(ls, sep) \in [1..Len(ls) -> Seq(T)]
  BY <1>1, <1>3 DEF GluePieces
<1>5. GluePieces(ls, sep) \in Seq(Seq(T))
  BY <1>1, <1>4, FunctionIsSeq
<1>6. Glued(ls, sep) = FlattenSeq(GluePieces(ls, sep))
  BY DEF Glued, GluePieces
<1>. QED  BY <1>5, <1>6, FlatIn

LEMMA GluedNone == \A sep : Glued(<<>>, sep) = <<>>
<1> TAKE sep
<1> DEFINE e == <<>>
           T == {}
<1>1. e \in Seq(Seq(T)) /\ DOMAIN e = 1..0
  BY EmptySeq
<1>2. GluePieces(e, sep) \in Seq(Seq(T)) /\ DOMAIN GluePieces(e, sep) = 1..0
  <2>1. DOMAIN GluePieces(e, sep) = 1..0 /\ GluePieces(e, sep) \in [1..0 -> Seq(T)]
    <3>. HIDE DEF e
    <3>. QED  BY <1>1 DEF GluePieces
  <2>. QED  BY <2>1, FunctionIsSeq
<1>3. GluePieces(e, sep) = <<>>
  BY <1>2, EmptySeq
<1>4. Glued(e, sep) = FlattenSeq(GluePieces(e, sep))
  BY DEF Glued, GluePieces
<1>. QED  BY <1>3, <1>4, FlatEmpty

LEMMA GluedAfter ==
  ASSUME NEW T, NEW sep \in Seq(T), NEW ls \in Seq(Seq(T)), NEW l \in Seq(T)
  PROVE  Glued(Append(ls, l), sep) = IF ls = <<>> THEN l ELSE Glued(ls, sep) \o sep \o l
<1> DEFINE t == Append(ls, l)
           f == GluePieces(ls, sep)
           g == GluePieces(t, sep)
           p == IF ls = <<>> THEN l ELSE sep \o l
<1>1. /\ Len(ls) \in Nat /\ DOMAIN ls = 1..Len(ls) /\ DOMAIN t = 1..(Len(ls) + 1)
      /\ t[Len(ls) + 1] = l /\ \A k \in 1..Len(ls) : t[k] = ls[k]
  BY LenProperties, AppendProperties
<1>2. ls = <<>> <=> Len(ls) + 1 = 1
  BY <1>1, EmptySeq
<1>. HIDE DEF t
<1>3. Maps(f, ls)
  BY DEF Maps, GluePieces
<1>4. Maps(g, t)
  BY DEF Maps, GluePieces
<1>5. AgreeOn(f, g, ls)
  <2>1. \A k \in 1..Len(ls) : 1 \in 1..Len(ls)
    BY <1>1
  <2>. QED  BY <1>1, <2>1 DEF AgreeOn, GluePieces
<1>6. g[Len(ls) + 1] = p
  <2>1. g[Len(ls) + 1] = IF Len(ls) + 1 = 1 THEN t[1] ELSE sep \o t[Len(ls) + 1]
    BY <1>1 DEF GluePieces
  <2>2. Len(ls) + 1 = 1 => t[1] = l
    BY <1>1
  <2>. QED  BY <1>1, <1>2, <2>1, <2>2
<1>7. f \in Seq(Seq(T)) /\ sep \in Seq(T)
  BY GluePiecesType
<1>8. p \in Seq(T)
  <2>1. sep \o l \in Seq(T)
    BY <1>7, ConcatProperties
  <2>. QED  BY <2>1
<1>9. Glued(ls, sep) = FlattenSeq(f) /\ Glued(t, sep) = FlattenSeq(g)
  BY DEF Glued, GluePieces
<1>10. Glued(ls, sep) \in Seq(T)
  BY GluePiecesType
<1>. HIDE DEF f, g
<1>11. Glued(t, sep) = Glued(ls, sep) \o p
  <2>. HIDE DEF p
  <2>1. g = Append(f, p)
    BY <1>3, <1>4, <1>5, <1>6, MapAfter DEF t
  <2>2. FlattenSeq(Append(f, p)) = FlattenSeq(f) \o p
    BY <1>7, <1>8, FlatAfter
  <2>. QED  BY <1>9, <2>1, <2>2
<1>12. CASE ls = <<>>
  <2>1. Glued(t, sep) = <<>> \o l
    BY <1>11, <1>12, GluedNone
  <2>2. <<>> \o l = l
    BY ConcatEmptySeq
  <2>. QED  BY <1>12, <2>1, <2>2 DEF t
<1>13. CASE ls # <<>>
  <2>1. Glued(t, sep) = Glued(ls, sep) \o (sep \o l)
    BY <1>11, <1>13
  <2> DEFINE j == Glued(ls, sep)
             n == sep
  <2>2. j \in Seq(T) /\ n \in Seq(T)
    BY <1>7, <1>10
  <2>. HIDE DEF j, n
  <2>3. (j \o n) \o l = j \o (n \o l)
    BY <2>2, ConcatAssociative
  <2>. QED  BY <1>13, <2>1, <2>3 DEF t, j, n
<1>. QED  BY <1>12, <1>13
=============================================================================
