------------------------- MODULE ReconcileQueueProofs -------------------------
(***************************************************************************)
(* Proofs about ReconcileQueue, for any number of records, invocations and *)
(* failures: no invocation, however old its copy of a record is, makes the *)
(* record due earlier than it was.                                         *)
(*                                                                         *)
(* That is a matter of scheduleRetry's filter alone: the delay it writes   *)
(* belongs to the number of attempts it found, which is the number the     *)
(* record has, so that it is no shorter than any delay written before.     *)
(* Hence the invariant: what is left of a delay is at most what the next   *)
(* one will be.  Nothing is said of the leases; it holds without them.     *)
(***************************************************************************)
EXTENDS ReconcileQueue, TLAPS

(* What is left of a delay, against the delay the next attempt would be given. *)
RetryInv ==
  /\ attempts \in [Requests -> 0 .. MaxAttempts]
  /\ delay \in [Requests -> Nat]
  /\ retries \in Nat
  /\ \A r \in Requests : delay[r] <= RetryDelay(attempts[r])

(* scheduleRetry doubles the delay, up to its maximum. *)
LEMMA DelaysGrow ==
  ASSUME NEW n \in 0 .. MaxAttempts
  PROVE  RetryDelay(n) \in Nat /\ (n < MaxAttempts => RetryDelay(n) <= RetryDelay(n + 1))
<1>1. MaxDelay \in Nat /\ MaxAttempts \in Nat
  BY QueueConstants
<1>2. 2 ^ n \in Nat /\ 2 ^ n <= 2 ^ (n + 1)
  BY PowersOfTwo
<1>3. RetryDelay(n) \in Nat
  BY <1>1, <1>2 DEF RetryDelay
<1>4. n < MaxAttempts => RetryDelay(n) <= RetryDelay(n + 1)
  <2>1. SUFFICES ASSUME n < MaxAttempts
                 PROVE  RetryDelay(n) <= RetryDelay(n + 1)
    OBVIOUS
  <2>2. n + 1 \in 0 .. MaxAttempts
    BY <1>1, <2>1
  <2>3. 2 ^ (n + 1) \in Nat
    BY <2>2, PowersOfTwo
  <2>4. PICK a \in Nat, b \in Nat : a = 2 ^ n /\ b = 2 ^ (n + 1) /\ a <= b
    BY <1>2, <2>3
  <2>5. RetryDelay(n) = (IF a < MaxDelay THEN a ELSE MaxDelay)
        /\ RetryDelay(n + 1) = (IF b < MaxDelay THEN b ELSE MaxDelay)
    BY <2>4 DEF RetryDelay
  <2> QED
    BY <1>1, <2>4, <2>5
<1> QED
  BY <1>3, <1>4

(***************************************************************************)
(* The one update that writes a delay: it counts the attempt it was made   *)
(* for, or nothing.                                                        *)
(***************************************************************************)
LEMMA ScheduleRetryStep ==
  ASSUME RetryInv, NEW w \in Workers, ScheduleRetry(w)
  PROVE  RetryInv' /\ \A r \in Requests : delay[r] <= delay'[r]
<1>1. UNCHANGED retries /\ MaxAttempts \in Nat
  BY QueueConstants DEF ScheduleRetry
<1>2. PICK candidate : candidate = Current(w)
  OBVIOUS
<1>3. CASE ~CountsAttempt(candidate)
  <2>1. UNCHANGED <<delay, attempts>>
    BY <1>2, <1>3 DEF ScheduleRetry
  <2> QED
    BY <1>1, <2>1 DEF RetryInv
<1>4. CASE CountsAttempt(candidate)
  <2> DEFINE n == attempts[candidate.request]
             grown == IF n < MaxAttempts THEN n + 1 ELSE MaxAttempts
  <2>1. /\ delay' = [delay EXCEPT ![candidate.request] = RetryDelay(n)]
        /\ attempts' = [attempts EXCEPT ![candidate.request] = grown]
    BY <1>2, <1>4 DEF ScheduleRetry, CountsAttempt
  <2>2. CASE candidate.request \notin Requests
    <3>1. UNCHANGED <<delay, attempts>>
      BY <2>1, <2>2 DEF RetryInv
    <3> QED
      BY <1>1, <3>1 DEF RetryInv
  <2>3. CASE candidate.request \in Requests
    <3>1. n \in 0 .. MaxAttempts /\ grown \in 0 .. MaxAttempts
      BY <1>1, <2>3 DEF RetryInv
    <3>2. RetryDelay(n) \in Nat /\ RetryDelay(grown) \in Nat
          /\ RetryDelay(n) <= RetryDelay(grown)
      <4>1. CASE n < MaxAttempts
        BY <3>1, <4>1, DelaysGrow
      <4>2. CASE n = MaxAttempts
        BY <3>1, <4>2, <1>1, DelaysGrow
      <4> QED
        BY <1>1, <3>1, <4>1, <4>2
    <3>3. delay[candidate.request] <= RetryDelay(n)
      BY <2>3 DEF RetryInv
    <3> HIDE DEF n, grown
    <3>4. \A r \in Requests :
            /\ delay'[r] = IF r = candidate.request THEN RetryDelay(n) ELSE delay[r]
            /\ attempts'[r] = IF r = candidate.request THEN grown ELSE attempts[r]
      BY <2>1 DEF RetryInv
    <3>5. delay' \in [Requests -> Nat] /\ attempts' \in [Requests -> 0 .. MaxAttempts]
      BY <2>1, <3>1, <3>2 DEF RetryInv
    <3>6. \A r \in Requests : delay'[r] <= RetryDelay(attempts'[r])
      BY <3>2, <3>4 DEF RetryInv
    <3>7. \A r \in Requests : delay[r] <= delay'[r]
      BY <3>3, <3>4 DEF RetryInv
    <3> QED
      BY <1>1, <3>5, <3>6, <3>7 DEF RetryInv
  <2> QED
    BY <2>2, <2>3
<1> QED
  BY <1>3, <1>4

(* What RequestImmediateRetry and the passing of time do to the delays. *)
LEMMA ShorterDelaysStep ==
  ASSUME RetryInv, UNCHANGED attempts, retries' \in Nat,
         \/ \E r : delay' = [delay EXCEPT ![r] = 0]
         \/ delay' = [r \in Requests |-> Elapsed(delay[r])]
  PROVE  RetryInv'
<1>1. \A r \in Requests : Elapsed(delay[r]) \in Nat /\ Elapsed(delay[r]) <= delay[r]
  BY DEF Elapsed, RetryInv
<1>2. delay' \in [Requests -> Nat] /\ \A r \in Requests : delay'[r] <= delay[r]
  BY <1>1 DEF RetryInv
<1>3. \A r \in Requests : RetryDelay(attempts[r]) \in Nat
  BY DelaysGrow DEF RetryInv
<1> QED
  BY <1>2, <1>3 DEF RetryInv

(* No delay yet. *)
LEMMA RetryInit == Init => RetryInv
<1> SUFFICES ASSUME Init
             PROVE  RetryInv
  OBVIOUS
<1>1. attempts = [r \in Requests |-> 0] /\ delay = [r \in Requests |-> 0] /\ retries = 0
  BY DEF Init
<1>2. 0 \in 0 .. MaxAttempts
  BY QueueConstants
<1>3. RetryDelay(0) \in Nat
  BY <1>2, DelaysGrow
<1> QED
  BY <1>1, <1>2, <1>3 DEF RetryInv

(* Only time and the retry endpoint shorten a delay. *)
LEMMA RetryStep ==
  ASSUME RetryInv, [Next]_vars
  PROVE  /\ RetryInv'
         /\ \A r \in Requests :
              delay'[r] < delay[r] =>
                \/ delay'[r] = Elapsed(delay[r]) /\ UNCHANGED worker
                \/ retries' # retries
<1>1. CASE UNCHANGED <<attempts, delay, retries>>
  BY <1>1 DEF RetryInv
<1>2. ASSUME NEW w \in Workers, ScheduleRetry(w)
      PROVE  RetryInv' /\ \A r \in Requests : ~(delay'[r] < delay[r])
  <2>1. RetryInv' /\ \A r \in Requests : delay[r] <= delay'[r]
    BY <1>2, ScheduleRetryStep
  <2>2. \A r \in Requests : delay[r] \in Nat /\ delay'[r] \in Nat
    BY <2>1 DEF RetryInv
  <2> QED
    BY <2>1, <2>2
<1>3. CASE \E r \in Requests : RequestImmediateRetry(r)
  <2>1. retries' = retries + 1 /\ retries \in Nat /\ UNCHANGED attempts
        /\ \E r : delay' = [delay EXCEPT ![r] = 0]
    BY <1>3 DEF RequestImmediateRetry, RetryInv
  <2>2. retries' \in Nat /\ retries' # retries
    BY <2>1
  <2>3. RetryInv'
    BY <2>1, <2>2, ShorterDelaysStep
  <2> QED
    BY <2>2, <2>3
<1>4. CASE Tick
  <2>1. /\ delay' = [r \in Requests |-> Elapsed(delay[r])]
        /\ UNCHANGED <<attempts, worker, retries>>
    BY <1>4 DEF Tick
  <2>2. RetryInv'
    BY <2>1, ShorterDelaysStep DEF RetryInv
  <2>3. \A r \in Requests : delay'[r] = Elapsed(delay[r])
    BY <2>1
  <2>4. worker' = worker
    BY <2>1
  <2> QED
    BY <2>2, <2>3, <2>4
<1>5. CASE \E w \in Workers : Work(w) \/ Crash(w)
  <2>1. PICK w \in Workers : Work(w) \/ Crash(w)
    BY <1>5
  <2>2. CASE \/ List(w) \/ TakeLease(w) \/ LeaseBusy(w)
             \/ AttemptWaits(w) \/ AttemptAdvances(w) \/ Resubmit(w) \/ AttemptThrows(w)
             \/ RequireReview(w) \/ RequireReviewThrows(w) \/ Crash(w)
    BY <2>2, <1>1 DEF List, TakeLease, LeaseBusy, AttemptWaits, AttemptAdvances, Resubmit,
                      AttemptThrows, RequireReview, RequireReviewThrows, Crash, records
  <2> QED
    BY <1>2, <2>1, <2>2 DEF Work
<1>6. CASE \E r \in Requests : LeaseExpires(r) \/ ChainAnswers(r)
  BY <1>6, <1>1 DEF LeaseExpires, ChainAnswers, records
<1>7. CASE UNCHANGED vars
  BY <1>7, <1>1 DEF vars, records
<1> QED
  BY <1>3, <1>4, <1>5, <1>6, <1>7 DEF Next

(***************************************************************************)
(* What is left of a retry's delay is never more than the delay the record *)
(* would be given next.                                                    *)
(***************************************************************************)
THEOREM DelayBelowNext == Spec => []RetryInv
<1>1. RetryInv /\ [Next]_vars => RetryInv'
  BY RetryStep
<1> QED
  BY RetryInit, <1>1, PTL DEF Spec

(***************************************************************************)
(* However many invocations overlap and however old the copies they work   *)
(* from are, a record becomes due earlier only because time passes or      *)
(* because somebody asked for a retry (scheduleRetry's filter on           *)
(* `attempts').                                                            *)
(***************************************************************************)
THEOREM DelaysAreKept == Spec => DelayIsKept
<1>1. RetryInv /\ [Next]_vars =>
        [\A r \in Requests :
           delay'[r] < delay[r] =>
             \/ delay'[r] = Elapsed(delay[r]) /\ UNCHANGED worker
             \/ retries' # retries]_vars
  BY RetryStep
<1> QED
  BY DelayBelowNext, <1>1, PTL DEF Spec, DelayIsKept
=============================================================================
