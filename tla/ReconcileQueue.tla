---------------------------- MODULE ReconcileQueue ----------------------------
(***************************************************************************)
(* reconcileRequests over many records (apps/web/lib/services/reconcile.ts *)
(* with lib/db/requests.ts and leases.ts): which records an invocation     *)
(* takes, in which order, and what a failure does to the others.           *)
(*                                                                         *)
(* What reconcileBridgeRequest does with one record is the module          *)
(* Reconciler; here an attempt finds nothing new, advances the record by a *)
(* stage, or throws.  `updatedAt' matters only as an order, so the         *)
(* records are a sequence, and every update moves its record to the end.   *)
(* `nextAttemptAt' is the number of units of time that are left until then. *)
(***************************************************************************)
EXTENDS Naturals, Sequences, FiniteSets, SequencesExt

CONSTANTS
  Requests,         \* the requests that are registered
  Stuck,            \* those no chain ever answers
  Broken,           \* those whose attempts throw for ever
  Workers,          \* invocations of /api/v1/reconcile in progress at once
  Nobody,           \* holder of a lease that is not taken
  Limit,            \* records per invocation; 25 in the source
  Stages,           \* updates until a request is executed
  MaxDelay,         \* longest delay of a retry; an hour in the source
  MaxAttempts,      \* bound: attempts counted; the delay no longer grows
  MaxFaults,        \* bound: invocations that die, chains that fail once
  MaxRetries        \* bound: calls of the retry endpoint; for the last two
                    \* EveryRequestIsServed assumes that there is a bound

ASSUME QueueConstants ==
  /\ Nobody \notin Workers
  /\ Stuck \cup Broken \subseteq Requests
  /\ {Limit, Stages, MaxDelay} \subseteq Nat \ {0}
  /\ {MaxAttempts, MaxFaults, MaxRetries} \subseteq Nat
  /\ IsFiniteSet(Requests)

(* Arithmetic the provers do not know, as far as retries are counted. *)
ASSUME PowersOfTwo == \A n \in 0 .. MaxAttempts : 2 ^ n \in Nat /\ 2 ^ n <= 2 ^ (n + 1)

(* What keeps one request from being passed over for ever (see             *)
(* EveryRequestIsServed): fewer records that nothing ever updates than an  *)
(* invocation takes.                                                       *)
ASSUME StuckLeaveRoom == Cardinality(Stuck) < Limit

VARIABLES
  queue,            \* the records not yet executed, least recently updated first
  stage,            \* updates each record had
  answered,         \* requests whose chains have something new
  reviewed,         \* records whose status is REQUIRES_REVIEW
  attempts,         \* `attempts' of each record
  delay,            \* time left until nextAttemptAt
  lease,            \* who inserted the document in `leases'
  worker,           \* [Workers -> what an invocation holds in memory]
  faults,           \* what failed once
  retries           \* calls of the retry endpoint

records == <<queue, stage, reviewed, attempts, delay>>
vars == <<records, answered, lease, worker, faults, retries>>

Idle == [pc |-> "idle", batch |-> <<>>]

Init ==
  /\ queue \in [1 .. Cardinality(Requests) -> Requests]
  /\ IsInjective(queue)
  /\ stage = [r \in Requests |-> 0]
  /\ answered = {}
  /\ reviewed = {}
  /\ attempts = [r \in Requests |-> 0]
  /\ delay = [r \in Requests |-> 0]
  /\ lease = [r \in Requests |-> Nobody]
  /\ worker = [w \in Workers |-> Idle]
  /\ faults = 0
  /\ retries = 0

Registered == Range(queue)
Executed(r) == stage[r] = Stages

-----------------------------------------------------------------------------
(***************************************************************************)
(* lib/db/requests.ts.                                                     *)
(***************************************************************************)

(* updatedAt = now. *)
Touched(r) == IF r \in Registered
              THEN Append(SelectSeq(queue, LAMBDA q : q # r), r) ELSE queue

(* listReconciliationCandidates: the due ones, by updatedAt, at most Limit. *)
Candidates_NewestFirst ==
  LET due == SelectSeq(Reverse(queue), LAMBDA r : delay[r] = 0)
  IN SubSeq(due, 1, IF Len(due) < Limit THEN Len(due) ELSE Limit)

Candidates ==
  LET due == SelectSeq(queue, LAMBDA r : delay[r] = 0)
  IN SubSeq(due, 1, IF Len(due) < Limit THEN Len(due) ELSE Limit)

(* scheduleRetry: 15 seconds, doubled by every attempt, at most an hour. *)
RetryDelay(n) == IF 2 ^ n < MaxDelay THEN 2 ^ n ELSE MaxDelay

(* The filter of the update: nobody else counted an attempt meanwhile. *)
CountsAttempt_Always(candidate) == TRUE
CountsAttempt(candidate) == attempts[candidate.request] = candidate.attempts

(* requestImmediateRetry and the route that calls it, for anybody. *)
RequestImmediateRetry(r) ==
  /\ r \in Registered
  /\ retries < MaxRetries
  /\ retries' = retries + 1
  /\ delay' = [delay EXCEPT ![r] = 0]
  /\ queue' = Touched(r)
  /\ UNCHANGED <<stage, answered, reviewed, attempts, lease, worker, faults>>

-----------------------------------------------------------------------------
(***************************************************************************)
(* One invocation of reconcileRequests.                                    *)
(***************************************************************************)
At(w, pc) == worker[w].pc = pc
GoTo(w, pc) == worker' = [worker EXCEPT ![w].pc = pc]

Current(w) == Head(worker[w].batch)
OnRequest(w, r) ==
  worker[w].pc \in {"attempt", "review", "retry"}
    /\ Current(w).request = r

(* Goes on with the rest of its batch. *)
Proceed(w) ==
  worker' = [worker EXCEPT
    ![w] = IF Len(@.batch) > 1
           THEN [pc |-> "take", batch |-> Tail(@.batch)] ELSE Idle]

List(w) ==
  /\ At(w, "idle")
  /\ Candidates # <<>>
  /\ worker' = [worker EXCEPT
       ![w] = [pc |-> "take",
               batch |-> [i \in DOMAIN Candidates |->
                            [request |-> Candidates[i],
                             attempts |-> attempts[Candidates[i]]]]]]
  /\ UNCHANGED <<records, answered, lease, faults, retries>>

TakeLease(w) ==
  /\ At(w, "take")
  /\ lease[Current(w).request] = Nobody
  /\ lease' = [lease EXCEPT ![Current(w).request] = w]
  /\ GoTo(w, "attempt")
  /\ UNCHANGED <<records, answered, faults, retries>>

LeaseBusy(w) ==
  /\ At(w, "take")
  /\ lease[Current(w).request] # Nobody
  /\ Proceed(w)
  /\ UNCHANGED <<records, answered, lease, faults, retries>>

(* `finally', whoever holds the lease by now. *)
Released(w) == [lease EXCEPT ![Current(w).request] = Nobody]

Release(w) == lease' = Released(w) /\ Proceed(w)

(* An attempt that finds nothing to do updates nothing. *)
AttemptWaits(w) ==
  LET r == Current(w).request
  IN /\ At(w, "attempt")
     /\ Executed(r) \/ (r \notin answered /\ r \notin Broken)
     /\ Release(w)
     /\ UNCHANGED <<records, answered, faults, retries>>

AttemptAdvances(w) ==
  LET r == Current(w).request
  IN /\ At(w, "attempt")
     /\ r \in answered /\ ~Executed(r)
     /\ stage' = [stage EXCEPT ![r] = @ + 1]
     /\ queue' = IF stage[r] + 1 = Stages THEN SelectSeq(queue, LAMBDA q : q # r)
                 ELSE Touched(r)
     /\ answered' = answered \ {r}
     /\ Release(w)
     /\ UNCHANGED <<reviewed, attempts, delay, faults, retries>>

(* A record under review is submitted again before it can fail again. *)
Resubmit(w) ==
  LET r == Current(w).request
  IN /\ At(w, "attempt")
     /\ r \in reviewed
     /\ reviewed' = reviewed \ {r}
     /\ queue' = Touched(r)
     /\ Release(w)
     /\ UNCHANGED <<stage, answered, attempts, delay, faults, retries>>

(* An RPC fails, a commitment does not match; or NoResultFinalizedError. *)
AttemptThrows(w) ==
  LET r == Current(w).request
  IN /\ At(w, "attempt")
     /\ \/ /\ r \in Broken \ reviewed
           /\ GoTo(w, "review") \/ GoTo(w, "retry")
           /\ UNCHANGED faults
        \/ /\ r \notin Broken /\ ~Executed(r)
           /\ faults < MaxFaults
           /\ faults' = faults + 1
           /\ GoTo(w, "retry")
     /\ UNCHANGED <<records, answered, lease, retries>>

RequireReview(w) ==
  LET r == Current(w).request
  IN /\ At(w, "review")
     /\ r \notin reviewed
     /\ reviewed' = reviewed \cup {r}
     /\ queue' = Touched(r)
     /\ GoTo(w, "retry")
     /\ UNCHANGED <<stage, answered, attempts, delay, lease, faults, retries>>

(* transitionRequest throws inside the catch block when another invocation *)
(* was faster: the exception ends the whole batch, and no retry is         *)
(* scheduled.                                                              *)
RequireReviewThrows(w) ==
  LET r == Current(w).request
  IN /\ At(w, "review")
     /\ r \in reviewed
     /\ lease' = Released(w)
     /\ worker' = [worker EXCEPT ![w] = Idle]
     /\ UNCHANGED <<records, answered, faults, retries>>

ScheduleRetry(w) ==
  LET candidate == Current(w)
      r == candidate.request
      grown == IF attempts[r] < MaxAttempts THEN attempts[r] + 1 ELSE MaxAttempts
  IN /\ At(w, "retry")
     /\ IF CountsAttempt(candidate)
        THEN /\ delay' = [delay EXCEPT ![r] = RetryDelay(candidate.attempts)]
             /\ attempts' = [attempts EXCEPT ![r] = grown]
             /\ queue' = Touched(r)
        ELSE UNCHANGED <<delay, attempts, queue>>
     /\ Release(w)
     /\ UNCHANGED <<stage, answered, reviewed, faults, retries>>

-----------------------------------------------------------------------------
(***************************************************************************)
(* Around the invocations.                                                 *)
(***************************************************************************)

(* maxDuration ends an invocation wherever it is; its lease stays. *)
Crash(w) ==
  /\ ~At(w, "idle")
  /\ faults < MaxFaults
  /\ faults' = faults + 1
  /\ worker' = [worker EXCEPT ![w] = Idle]
  /\ UNCHANGED <<records, answered, lease, retries>>

(* The TTL index. That it also removes the lease of an invocation that is  *)
(* still at work counts as a fault.                                        *)
LeaseExpires(r) ==
  /\ lease[r] # Nobody
  /\ lease' = [lease EXCEPT ![r] = Nobody]
  /\ IF OnRequest(lease[r], r)
     THEN faults < MaxFaults /\ faults' = faults + 1
     ELSE UNCHANGED faults
  /\ UNCHANGED <<records, answered, worker, retries>>

Elapsed(n) == IF n > 0 THEN n - 1 ELSE 0

Tick ==
  /\ \E r \in Requests : delay[r] > 0
  /\ delay' = [r \in Requests |-> Elapsed(delay[r])]
  /\ UNCHANGED <<queue, stage, answered, reviewed, attempts, lease, worker,
                 faults, retries>>

(* The hub, GenLayer or Base has something new for a request. *)
ChainAnswers(r) ==
  /\ r \in Registered \ (Stuck \cup Broken \cup answered)
  /\ answered' = answered \cup {r}
  /\ UNCHANGED <<records, lease, worker, faults, retries>>

-----------------------------------------------------------------------------
Work(w) ==
  \/ List(w) \/ TakeLease(w) \/ LeaseBusy(w)
  \/ AttemptWaits(w) \/ AttemptAdvances(w) \/ Resubmit(w) \/ AttemptThrows(w)
  \/ RequireReview(w) \/ RequireReviewThrows(w) \/ ScheduleRetry(w)

Next ==
  \/ \E w \in Workers : Work(w) \/ Crash(w)
  \/ \E r \in Requests :
       RequestImmediateRetry(r) \/ LeaseExpires(r) \/ ChainAnswers(r)
  \/ Tick

Spec == Init /\ [][Next]_vars

(* Invocations are started again and again and go on, time passes, the TTL *)
(* index is swept, and chains answer a request that is neither stuck nor   *)
(* broken.  Nobody has to ask for a retry.                                 *)
FairSpec ==
  /\ Spec
  /\ \A w \in Workers : WF_vars(Work(w))
  /\ \A r \in Requests : WF_vars(LeaseExpires(r)) /\ WF_vars(ChainAnswers(r))
  /\ WF_vars(Tick)

-----------------------------------------------------------------------------
(***************************************************************************)
(* An invocation that works from an old copy of a record never makes it    *)
(* due earlier: a retry's delay ends by time or because somebody asked     *)
(* (scheduleRetry's filter on `attempts').                                 *)
(***************************************************************************)
DelayIsKept ==
  [][\A r \in Requests :
       delay'[r] < delay[r] =>
         \/ delay'[r] = Elapsed(delay[r]) /\ UNCHANGED worker
         \/ retries' # retries]_vars

(***************************************************************************)
(* A request whose chains answer is executed in the end, whatever fails    *)
(* for ever beside it and whoever throws in the middle of a batch          *)
(* (listReconciliationCandidates) - as long as                             *)
(*  - fewer records than a batch has places are never updated, and         *)
(*  - invocations die, leases expire under their holders and somebody asks *)
(*    for a retry only finitely often, which MaxFaults and MaxRetries say. *)
(* A retry also moves its record behind the others: asked for again and    *)
(* again, of r and of a broken record, retries restore the order in which  *)
(* r is just outside the batch, and r is never taken.                      *)
(***************************************************************************)
EveryRequestIsServed ==
  \A r \in Requests \ (Stuck \cup Broken) : r \in Registered ~> Executed(r)
=============================================================================
