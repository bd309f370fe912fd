--------------------------- MODULE LlmRetryProofs ---------------------------
(***************************************************************************)
(* Proofs about LlmRetry, for every MaxRetries, every set of retry-after   *)
(* values and every limit of the provider.                                 *)
(***************************************************************************)
EXTENDS LlmRetry, DataLemmas

-----------------------------------------------------------------------------
(* The powers of two and the least waits                                   *)

LEMMA PowerDef ==
  /\ Power \in [Nat -> Nat]
  /\ Power[0] = 1
  /\ \A n \in Nat : Power[n + 1] = 2 * Power[n]
<1> DEFINE step == [n \in Nat |-> [k \in Nat |-> 2 * k]]
           Solves(f) == f = [n \in Nat |-> IF n = 0 THEN 1 ELSE 2 * f[n - 1]]
<1>1. step \in Steps(Nat) /\ 1 \in Nat /\ \A n, k \in Nat : step[n][k] = 2 * k
  BY DEF Steps
<1>. HIDE DEF step
<1>2. PICK f : Follows(f, 1, step)
  BY <1>1, Recursion
<1>3. Unfolds(f, Nat, 1, step)
  BY <1>1, <1>2, Unfold
<1>4. Solves(f)
  <2>1. ASSUME NEW n \in Nat  PROVE f[n] = IF n = 0 THEN 1 ELSE 2 * f[n - 1]
    <3>1. n = 0 \/ (n - 1 \in Nat /\ n = (n - 1) + 1)
      OBVIOUS
    <3>. QED  BY <1>1, <1>3, <3>1 DEF Unfolds
  <2>. QED  BY <1>3, <2>1 DEF Unfolds
<1>5. Solves(Power)
  <2>. HIDE DEF Solves
  <2>1. Solves(CHOOSE g : Solves(g))
    BY <1>4, Zenon
  <2>. QED  BY <2>1, Zenon DEF Power, Solves
<1>6. Power = [n \in Nat |-> Power[n]] /\ Power[0] = 1
  BY <1>5
<1>7. \A n \in Nat : Power[n + 1] = 2 * Power[n]
  BY <1>5
<1>8. \A n \in Nat : Power[n] \in Nat
  <2> DEFINE D == {n \in Nat : Power[n] \in Nat}
  <2>1. 0 \in D
    BY <1>6
  <2>2. \A n \in Nat : n \in D => n + 1 \in D
    BY <1>7
  <2>. HIDE DEF D
  <2>3. Nat \subseteq D
    BY <2>1, <2>2, Induction
  <2>. QED  BY <2>3 DEF D
<1>. QED  BY <1>6, <1>7, <1>8

LEMMA PowersPositive ==
  /\ \A n \in Nat : Power[n] >= 1
  /\ \A n \in Nat : Power[n] < Power[n + 1]
<1> DEFINE D == {n \in Nat : Power[n] >= 1}
<1>1. 0 \in D
  BY PowerDef
<1>2. \A n \in Nat : n \in D => n + 1 \in D
  BY PowerDef
<1>. HIDE DEF D
<1>3. Nat \subseteq D
  BY <1>1, <1>2, Induction
<1>. QED  BY <1>3, PowerDef DEF D

LEMMA PowersGrow ==
  ASSUME NEW m \in Nat, NEW n \in Nat, m < n
  PROVE  Power[m] < Power[n]
<1> DEFINE Higher == {d \in Nat : Power[m] < Power[m + d + 1]}
<1>1. 0 \in Higher
  BY PowersPositive
<1>2. ASSUME NEW d \in Nat, d \in Higher  PROVE d + 1 \in Higher
  <2>1. Power[m + d + 1] < Power[m + d + 1 + 1] /\ m + (d + 1) + 1 = m + d + 1 + 1
    BY PowersPositive
  <2>2. Power[m] \in Nat /\ Power[m + d + 1] \in Nat /\ Power[m + d + 1 + 1] \in Nat
    BY PowerDef
  <2>. QED  BY <1>2, <2>1, <2>2
<1>. HIDE DEF Higher
<1>3. Nat \subseteq Higher
  BY <1>1, <1>2, Induction
<1>4. n - m - 1 \in Nat /\ m + (n - m - 1) + 1 = n
  OBVIOUS
<1>. QED  BY <1>3, <1>4 DEF Higher

(* A power that fits its integer does not wrap.                            *)
LEMMA PowFits ==
  ASSUME NEW n \in Nat, n < Width
  PROVE  Pow(n) = Power[n]
<1>1. Power[n] \in Nat /\ Power[Width] \in Nat /\ Power[n] < Power[Width]
  BY PowersGrow, PowerDef, RetryAssumption
<1>2. \A x, y \in Nat : x < y => x % y = x
  OBVIOUS
<1>. QED  BY <1>1, <1>2 DEF Pow

LEMMA ShortestIs ==
  ASSUME NEW n \in Nat
  PROVE  /\ Shortest(n) \in Nat
         /\ Shortest(n) <= Power[n]
         /\ \A r \in RetryAfter : Shortest(n) <= r
<1>1. {Power[n]} \cup RetryAfter \in SUBSET Nat
  BY PowerDef, RetryAssumption
<1>2. PICK i \in {Power[n]} \cup RetryAfter : \A j \in {Power[n]} \cup RetryAfter : i <= j
  BY <1>1, LeastOf
<1>3. /\ Shortest(n) \in {Power[n]} \cup RetryAfter
      /\ \A j \in {Power[n]} \cup RetryAfter : Shortest(n) <= j
  BY <1>2 DEF Shortest, Min
<1>. QED  BY <1>1, <1>3

LEMMA LeastWaitDef ==
  /\ LeastWait \in [Nat -> Nat]
  /\ LeastWait[0] = 0
  /\ \A n \in Nat : LeastWait[n + 1] = LeastWait[n] + Shortest(n)
<1> DEFINE step == [n \in Nat |-> [k \in Nat |-> k + Shortest(n)]]
           Solves(f) == f = [n \in Nat |-> IF n = 0 THEN 0 ELSE f[n - 1] + Shortest(n - 1)]
<1>1. step \in Steps(Nat) /\ 0 \in Nat /\ \A n, k \in Nat : step[n][k] = k + Shortest(n)
  BY ShortestIs DEF Steps
<1>. HIDE DEF step
<1>2. PICK f : Follows(f, 0, step)
  BY <1>1, Recursion
<1>3. Unfolds(f, Nat, 0, step)
  BY <1>1, <1>2, Unfold
<1>4. Solves(f)
  <2>1. ASSUME NEW n \in Nat  PROVE f[n] = IF n = 0 THEN 0 ELSE f[n - 1] + Shortest(n - 1)
    <3>1. n = 0 \/ (n - 1 \in Nat /\ n = (n - 1) + 1)
      OBVIOUS
    <3>. QED  BY <1>1, <1>3, <3>1 DEF Unfolds
  <2>. QED  BY <1>3, <2>1 DEF Unfolds
<1>5. Solves(LeastWait)
  <2>. HIDE DEF Solves
  <2>1. Solves(CHOOSE g : Solves(g))
    BY <1>4, Zenon
  <2>. QED  BY <2>1, Zenon DEF LeastWait, Solves
<1>6. LeastWait = [n \in Nat |-> LeastWait[n]] /\ LeastWait[0] = 0
  BY <1>5
<1>7. \A n \in Nat : LeastWait[n + 1] = LeastWait[n] + Shortest(n)
  BY <1>5
<1>8. \A n \in Nat : LeastWait[n] \in Nat
  <2> DEFINE D == {n \in Nat : LeastWait[n] \in Nat}
  <2>1. 0 \in D
    BY <1>6
  <2>2. \A n \in Nat : n \in D => n + 1 \in D
    BY <1>7, ShortestIs
  <2>. HIDE DEF D
  <2>3. Nat \subseteq D
    BY <2>1, <2>2, Induction
  <2>. QED  BY <2>3 DEF D
<1>. QED  BY <1>6, <1>7, <1>8

-----------------------------------------------------------------------------
(* The call                                                                *)

(* A request was carried out only if the call is over and not limited; a   *)
(* call that is under way has sent one request per retry before it, and    *)
(* one more if it has an answer.                                           *)
RetryInv ==
  /\ retries \in Nat /\ retries <= MaxRetries
  /\ posts \in Nat /\ served \in Nat
  /\ call \in {"posting", "limited", "sleeping"} \cup Results
  /\ call \notin {"Ok", "Http"} => served = 0
  /\ served <= 1
  /\ posts = retries + (IF call \in {"posting", "sleeping"} THEN 0 ELSE 1)
  /\ call = "RateLimited" => retries = MaxRetries

(* RetryInv holds initially and every step preserves it.                   *)
LEMMA RetryInvInit == Init => RetryInv
BY RetryAssumption DEF Init, RetryInv, Results

LEMMA RetryInvStep == RetryInv /\ [Next]_vars => RetryInv'
<1> SUFFICES ASSUME RetryInv, [Next]_vars PROVE RetryInv'
  OBVIOUS
<1> USE RetryAssumption DEF RetryInv, Results
<1>1. CASE PostServed
  BY <1>1 DEF PostServed
<1>2. CASE PostRejected
  BY <1>2 DEF PostRejected
<1>3. CASE PostLimited
  BY <1>3 DEF PostLimited
<1>4. CASE GiveUp
  BY <1>4 DEF GiveUp
<1>5. CASE BackOff
  BY <1>5 DEF BackOff
<1>6. CASE Sleep
  BY <1>6 DEF Sleep
<1>7. CASE Wake
  BY <1>7 DEF Wake
<1>8. CASE UNCHANGED vars
  BY <1>8 DEF vars
<1>9. QED
  BY <1>1, <1>2, <1>3, <1>4, <1>5, <1>6, <1>7, <1>8 DEF Next

LEMMA RetryInvHolds == Spec => []RetryInv
BY RetryInvInit, RetryInvStep, PTL DEF Spec

(* complete never repeats a request that the provider may have carried     *)
(* out, however its answers and the limits come.                           *)
THEOREM CarriedOutOnce == Spec => []ServedOnce
<1>1. RetryInv => ServedOnce
  BY DEF RetryInv, ServedOnce
<1>2. QED
  BY <1>1, RetryInvHolds, PTL

(* complete sends at most max_retries + 1 requests, and exactly as many    *)
(* before it reports RateLimited.                                          *)
THEOREM RetriesBounded == Spec => []RetriesCounted
<1>1. RetryInv => RetriesCounted
  BY RetryAssumption DEF RetryInv, RetriesCounted
<1>2. QED
  BY <1>1, RetryInvHolds, PTL

(* complete's variables have their types: retries never passes max_retries.*)
THEOREM RetryTypes == Spec => []RetryTypeOK
<1>1. Init => RetryTypeOK
  BY RetryAssumption DEF Init, RetryTypeOK
<1>2. RetryTypeOK /\ [Next]_vars => RetryTypeOK'
  <2> SUFFICES ASSUME RetryTypeOK, [Next]_vars  PROVE RetryTypeOK'
    OBVIOUS
  <2>. USE RetryAssumption DEF RetryTypeOK, Results
  <2>1. CASE PostServed
    BY <2>1 DEF PostServed
  <2>2. CASE PostRejected
    BY <2>2 DEF PostRejected
  <2>3. CASE PostLimited
    BY <2>3 DEF PostLimited
  <2>4. CASE GiveUp
    BY <2>4 DEF GiveUp
  <2>5. CASE BackOff
    <3>1. Backoff \in Nat
      <4>1. Power[retries] \in Nat /\ Power[Width] \in Nat /\ Power[Width] > 0
        BY PowerDef, PowersPositive
      <4>. QED  BY <4>1 DEF Backoff, Pow
    <3>. QED  BY <2>5, <3>1 DEF BackOff
  <2>6. CASE Sleep
    BY <2>6 DEF Sleep
  <2>7. CASE Wake
    BY <2>7 DEF Wake
  <2>8. CASE UNCHANGED vars
    BY <2>8 DEF vars
  <2>. QED
    BY <2>1, <2>2, <2>3, <2>4, <2>5, <2>6, <2>7, <2>8 DEF Next
<1>. QED  BY <1>1, <1>2, PTL DEF Spec

(* The clock is where the shortest waits of the retries so far would have  *)
(* brought it, at least, and the answer 429 tells that the limit lasts on. *)
WaitInv ==
  /\ call = "posting" => now >= LeastWait[retries]
  /\ call = "limited" => until > now /\ now >= LeastWait[retries]
  /\ call = "sleeping" => wake >= LeastWait[retries]
  /\ call = "RateLimited" => until > LeastWait[MaxRetries]

LEMMA WaitInvStep ==
  ASSUME MaxRetries <= Width, RetryTypeOK, WaitInv, [Next]_vars
  PROVE  WaitInv'
<1>. USE RetryAssumption, LeastWaitDef DEF RetryTypeOK, WaitInv, Results
<1>1. CASE PostServed
  BY <1>1 DEF PostServed
<1>2. CASE PostRejected
  BY <1>2 DEF PostRejected
<1>3. CASE PostLimited
  BY <1>3 DEF PostLimited
<1>4. CASE GiveUp
  <2>1. retries = MaxRetries /\ UNCHANGED <<now, until, retries>> /\ call = "limited"
    BY <1>4 DEF GiveUp
  <2>2. LeastWait[MaxRetries] \in Nat
    OBVIOUS
  <2>. QED  BY <1>4, <2>1, <2>2 DEF GiveUp
<1>5. CASE BackOff
  <2>1. Backoff \in Nat /\ Backoff >= Shortest(retries)
    BY <1>5, PowFits, PowerDef, ShortestIs DEF BackOff, Backoff
  <2>2. /\ LeastWait[retries + 1] = LeastWait[retries] + Shortest(retries)
        /\ LeastWait[retries] \in Nat /\ Shortest(retries) \in Nat
    <3>1. retries \in Nat
      OBVIOUS
    <3>. QED  BY <3>1, ShortestIs
  <2>3. call' = "sleeping" /\ wake' = now + Backoff /\ retries' = retries + 1
        /\ now >= LeastWait[retries]
    BY <1>5 DEF BackOff
  <2>. QED  BY <2>1, <2>2, <2>3
<1>6. CASE Sleep
  BY <1>6 DEF Sleep
<1>7. CASE Wake
  BY <1>7 DEF Wake
<1>8. CASE UNCHANGED vars
  BY <1>8 DEF vars
<1>. QED  BY <1>1, <1>2, <1>3, <1>4, <1>5, <1>6, <1>7, <1>8 DEF Next

(* The backoff of complete outlasts every limit that is not longer than    *)
(* the shortest waits add up to, for any retry-after values, as long as    *)
(* the powers of two fit their integer.                                    *)
THEOREM LimitOutlasted == Spec => []OutlastsLimit
<1>1. CASE MaxRetries <= Width
  <2>1. Init => WaitInv
    BY LeastWaitDef, RetryAssumption DEF Init, WaitInv
  <2>2. RetryTypeOK /\ WaitInv /\ [Next]_vars => WaitInv'
    BY <1>1, WaitInvStep
  <2>3. WaitInv => OutlastsLimit
    BY DEF WaitInv, OutlastsLimit
  <2>. QED  BY <2>1, <2>2, <2>3, RetryTypes, PTL DEF Spec
<1>2. CASE ~ (MaxRetries <= Width)
  <2>1. OutlastsLimit
    BY <1>2 DEF OutlastsLimit
  <2>. QED  BY <2>1, PTL
<1>. QED  BY <1>1, <1>2
=============================================================================
