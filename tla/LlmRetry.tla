------------------------------ MODULE LlmRetry ------------------------------
(***************************************************************************)
(* OpenAiClient::complete (src/llm/openai.rs): one request, repeated while *)
(* the provider answers 429 and max_retries allows it.  Time is a clock of *)
(* seconds that passes while the call sleeps; the provider limits the call *)
(* for a while of its own choosing.                                        *)
(***************************************************************************)
EXTENDS Naturals, FiniteSetsExt

CONSTANTS
  MaxRetries,   \* max_retries
  RetryAfter,   \* values of the retry-after header
  NoHeader,     \* no header, or one that is not a number
  Width,        \* bits of the integer that holds the backoff
  Horizon       \* bound: the provider limits calls no longer than this

ASSUME RetryAssumption ==
  /\ MaxRetries \in Nat /\ Width \in Nat /\ Horizon \in Nat
  /\ RetryAfter \subseteq Nat /\ NoHeader \notin RetryAfter

VARIABLES
  call,      \* posting, limited (got a 429), sleeping, or the result
  retries,   \* retries
  header,    \* retry_after of the answer
  now,       \* seconds since the call began
  until,     \* the provider's limit lasts until then
  wake,      \* when the sleep ends
  posts,     \* requests sent
  served     \* requests it carried out

vars == <<call, retries, header, now, until, wake, posts, served>>

Results == {"Ok", "RateLimited", "Api", "Http"}

RetryTypeOK ==
  /\ call \in {"posting", "limited", "sleeping"} \cup Results
  /\ retries \in 0..MaxRetries
  /\ header \in RetryAfter \cup {NoHeader}
  /\ now \in Nat /\ until \in 0..Horizon /\ wake \in Nat
  /\ posts \in Nat /\ served \in Nat

Init ==
  /\ call = "posting" /\ retries = 0 /\ header = NoHeader
  /\ now = 0 /\ until \in 0..Horizon /\ wake = 0
  /\ posts = 0 /\ served = 0

-----------------------------------------------------------------------------

Power[n \in Nat] == IF n = 0 THEN 1 ELSE 2 * Power[n - 1]

(* 2u64.pow(retries), which wraps in a release build.                      *)
Pow(n) == Power[n] % Power[Width]

(* Mutant: a lost answer is retried as well.                               *)
MutPostServed ==
  /\ call = "posting" /\ now >= until
  /\ posts' = posts + 1 /\ served' = served + 1
  /\ call' \in {"Ok", "posting"}
  /\ UNCHANGED <<retries, header, now, until, wake>>

(* The provider carries the request out.  The answer is read and parsed,   *)
(* or a transport error or a body that does not parse loses it.            *)
PostServed ==
  /\ call = "posting" /\ now >= until
  /\ posts' = posts + 1 /\ served' = served + 1
  /\ call' \in {"Ok", "Http"}
  /\ UNCHANGED <<retries, header, now, until, wake>>

(* Another status, or an error before the provider saw the request.        *)
PostRejected ==
  /\ call = "posting"
  /\ posts' = posts + 1
  /\ call' \in {"Api", "Http"}
  /\ UNCHANGED <<retries, header, now, until, wake, served>>

PostLimited ==
  /\ call = "posting" /\ now < until
  /\ posts' = posts + 1
  /\ call' = "limited"
  /\ header' \in RetryAfter \cup {NoHeader}
  /\ UNCHANGED <<retries, now, until, wake, served>>

GiveUp ==
  /\ call = "limited" /\ retries >= MaxRetries
  /\ call' = "RateLimited"
  /\ UNCHANGED <<retries, header, now, until, wake, posts, served>>

Backoff == IF header = NoHeader THEN Pow(retries) ELSE header

(* Mutant: the backoff grows linearly, from zero.                          *)
MutBackOffLinear ==
  /\ call = "limited" /\ retries < MaxRetries
  /\ call' = "sleeping"
  /\ wake' = now + (IF header = NoHeader THEN 2 * retries ELSE header)
  /\ retries' = retries + 1
  /\ UNCHANGED <<header, now, until, posts, served>>

(* Mutant: one retry too many.                                             *)
MutBackOffOnceMore ==
  /\ call = "limited" /\ retries <= MaxRetries
  /\ call' = "sleeping"
  /\ wake' = now + Backoff
  /\ retries' = retries + 1
  /\ UNCHANGED <<header, now, until, posts, served>>

BackOff ==
  /\ call = "limited" /\ retries < MaxRetries
  /\ call' = "sleeping"
  /\ wake' = now + Backoff
  /\ retries' = retries + 1
  /\ UNCHANGED <<header, now, until, posts, served>>

Sleep ==
  /\ call = "sleeping" /\ now < wake
  /\ now' = now + 1
  /\ UNCHANGED <<call, retries, header, until, wake, posts, served>>

Wake ==
  /\ call = "sleeping" /\ now >= wake
  /\ call' = "posting"
  /\ UNCHANGED <<retries, header, now, until, wake, posts, served>>

Next ==
  PostServed \/ PostRejected \/ PostLimited \/ GiveUp \/ BackOff \/ Sleep \/ Wake

Spec == Init /\ [][Next]_vars

-----------------------------------------------------------------------------
(* Properties                                                              *)

(* A completion is carried out, and paid for, at most once: only 429 leads *)
(* to another request, never a lost answer, and a call that reports        *)
(* RateLimited was not carried out at all.                                 *)
ServedOnce ==
  /\ served <= 1
  /\ call = "RateLimited" => served = 0

(* "Retries on 429 up to max_retries times": RateLimited is reported after *)
(* exactly that many retries, and no call makes more.                      *)
RetriesCounted ==
  /\ posts <= MaxRetries + 1
  /\ call = "RateLimited" => posts = MaxRetries + 1

(* "With exponential backoff": a call gives up only on a limit that lasts  *)
(* longer than the shortest waits add up to, 2^MaxRetries - 1 seconds when *)
(* the provider names no time.  The power must fit its integer.            *)
Shortest(n) == Min({Power[n]} \cup RetryAfter)
LeastWait[n \in Nat] == IF n = 0 THEN 0 ELSE LeastWait[n - 1] + Shortest(n - 1)
OutlastsLimit ==
  MaxRetries <= Width => (call = "RateLimited" => until > LeastWait[MaxRetries])
=============================================================================
