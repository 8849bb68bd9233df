-------------------------- MODULE ReconcilerProofs --------------------------
(***************************************************************************)
(* Proofs about Reconciler, for any number of invocations, submissions,    *)
(* failures and crashes: what the index shows is backed by the chains, its *)
(* status never runs backwards, a result is returned only if it was stored *)
(* and relayed, and one at most that is not lost.                          *)
(*                                                                         *)
(* None of this is inductive alone, because a worker writes what it        *)
(* decided long before, from a copy of the record that may be stale.  The  *)
(* invariant says for each place a worker can be at what it may still rely *)
(* on (Ready) and that every transition it has yet to make is backed       *)
(* (Steps).  That stays true while others go on, since nothing on the      *)
(* chains is undone (Grows).                                               *)
(***************************************************************************)
EXTENDS Reconciler, SequenceTheorems, FiniteSetTheorems, TLAPS

(* The adjudicate transactions, and those that finalized without an error. *)
Transactions == DOMAIN submissions
Returned == {tx \in Transactions : submissions[tx] = "returned"}

(***************************************************************************)
(* What happened on the chains is in order.                                *)
(***************************************************************************)
ChainsOK ==
  /\ submissions \in Seq({"pending", "returned", "failed"})
  /\ delivered \in BOOLEAN /\ relayed \in BOOLEAN
  /\ onchain \in {"DISPATCHED", "CALLBACK_PENDING", "CALLBACK_EXECUTED"}
  /\ resultBy \in Returned \cup {0}
  /\ usedResultTxHashes \subseteq Returned
  /\ submissions # <<>> => delivered
  /\ usedResultTxHashes # {} => resultBy # 0 /\ relayed
  /\ onchain # "DISPATCHED" => usedResultTxHashes # {}

(* What the index may show of the request, given what has happened. *)
Backed(status) ==
  /\ LifecycleRank[status] >= 3 => delivered /\ submissions # <<>>
  /\ LifecycleRank[status] >= 4 => resultBy # 0
  /\ LifecycleRank[status] >= 5 => usedResultTxHashes # {}
  /\ LifecycleRank[status] >= 7 => onchain # "DISPATCHED"
  /\ LifecycleRank[status] >= 8 => onchain = "CALLBACK_EXECUTED"

(* The record in the index. *)
RecordOK ==
  /\ record.status \in RequestStatus /\ Backed(record.status)
  /\ record.genlayerTransaction \in Transactions \cup {0}
  /\ record.returnTransaction \in usedResultTxHashes \cup {0}
  /\ record.result # 0 => resultBy # 0
  /\ record = [status |-> record.status,
               genlayerTransaction |-> record.genlayerTransaction,
               returnTransaction |-> record.returnTransaction,
               result |-> record.result]

(* Transitions that are backed wherever they lead. *)
Steps == {step \in [from : SUBSET RequestStatus, to : RequestStatus] : Backed(step.to)}

(* The places where a worker relies on nothing it has in memory. *)
Resting == {"idle", "listed", "bridge", "onchain", "finish", "release", "noresult"}

(* What a worker that is at `pc', with transaction tx, may rely on. *)
Ready(pc, tx) ==
  \/ pc \in Resting
  \/ pc = "submit" /\ delivered
  \/ pc \in {"record", "mark", "poll"} /\ tx \in Transactions
  \/ pc \in {"persist", "return", "forward"} /\ tx \in Returned /\ resultBy # 0
  \/ pc = "recordReturn" /\ tx \in usedResultTxHashes

(* What a worker can hold in memory. *)
WorkerState ==
  [pc : {"idle", "listed", "bridge", "onchain", "finish", "release", "noresult",
         "submit", "record", "mark", "poll", "persist", "return", "forward",
         "recordReturn", "transit"},
   candidate : [status : RequestStatus, tx : Transactions \cup {0}],
   tx : Transactions \cup {0}, relayed : BOOLEAN, todo : Seq(Steps),
   next : {"idle", "onchain", "persist", "release", "finish"}]

(* An invocation that works from what is in `me'. *)
WorkerOK(me) ==
  /\ me \in WorkerState
  /\ IF me.pc = "transit" THEN me.todo # <<>> /\ Ready(me.next, me.tx) ELSE Ready(me.pc, me.tx)

(* The inductive invariant. *)
IndexInv ==
  /\ ChainsOK
  /\ RecordOK
  /\ worker = [w \in Workers |-> worker[w]]
  /\ \A w \in Workers : WorkerOK(worker[w])

-----------------------------------------------------------------------------
(***************************************************************************)
(* The ranks of the lifecycle (lifecycleRank).                             *)
(***************************************************************************)
LEMMA Ranks ==
  /\ LifecycleRank["DISPATCHED"] = 1
  /\ LifecycleRank["DELIVERED"] = 2
  /\ LifecycleRank["ADJUDICATING"] = 3
  /\ LifecycleRank["REQUIRES_REVIEW"] = 3
  /\ LifecycleRank["FINALIZED"] = 4
  /\ LifecycleRank["RETURN_DISPATCHED"] = 5
  /\ LifecycleRank["RETURNED"] = 6
  /\ LifecycleRank["CALLBACK_PENDING"] = 7
  /\ LifecycleRank["CALLBACK_EXECUTED"] = 8
BY DEF LifecycleRank, RequestStatus

(***************************************************************************)
(* Every status has a rank of 1 to 8.                                      *)
(***************************************************************************)
LEMMA RankRange ==
  ASSUME NEW status \in RequestStatus
  PROVE  LifecycleRank[status] \in 1 .. 8
BY Ranks DEF RequestStatus

(***************************************************************************)
(* The table of transitions leads to no lower rank (canTransition).        *)
(***************************************************************************)
LEMMA TransitionsGoUp ==
  ASSUME NEW from, NEW to, canTransition(from, to)
  PROVE  /\ from \in RequestStatus /\ to \in RequestStatus
         /\ LifecycleRank[from] <= LifecycleRank[to]
BY Ranks DEF canTransition, AllowedTransitions, RequestStatus

(* Nothing on the chains is undone. *)
Grows ==
  /\ Transactions \subseteq Transactions'
  /\ Returned \subseteq Returned'
  /\ usedResultTxHashes \subseteq usedResultTxHashes'
  /\ delivered => delivered'
  /\ submissions # <<>> => submissions' # <<>>
  /\ resultBy # 0 => resultBy' # 0
  /\ onchain # "DISPATCHED" => onchain' # "DISPATCHED"
  /\ onchain = "CALLBACK_EXECUTED" => onchain' = "CALLBACK_EXECUTED"

(***************************************************************************)
(* A step that leaves the chains alone undoes nothing there.               *)
(***************************************************************************)
LEMMA BridgeUnchanged ==
  ASSUME UNCHANGED bridge
  PROVE  Grows /\ (ChainsOK => ChainsOK')
<1>1. Transactions' = Transactions /\ Returned' = Returned
  BY DEF bridge, Transactions, Returned
<1>2. Grows
  BY <1>1 DEF bridge, Grows
<1>3. ChainsOK => ChainsOK'
  BY <1>1 DEF bridge, ChainsOK
<1> QED
  BY <1>2, <1>3

(***************************************************************************)
(* A status that was backed stays backed while the chains go on.           *)
(***************************************************************************)
LEMMA BackedStays ==
  ASSUME Grows, NEW status, Backed(status)
  PROVE  Backed(status)'
BY DEF Grows, Backed

(***************************************************************************)
(* What an invocation relies on in memory stays true while the chains go   *)
(* on.                                                                     *)
(***************************************************************************)
LEMMA WorkerStays ==
  ASSUME Grows, NEW me, WorkerOK(me)
  PROVE  WorkerOK(me)'
<1>1. Steps \subseteq Steps'
  BY BackedStays DEF Steps
<1>2. Seq(Steps) \subseteq Seq(Steps')
  BY <1>1, SeqMonotonic
<1>3. WorkerState \subseteq WorkerState'
  BY <1>2 DEF WorkerState, Grows
<1>4. \A pc, tx : Ready(pc, tx) => Ready(pc, tx)'
  BY DEF Ready, Grows
<1> QED
  BY <1>3, <1>4 DEF WorkerOK

(***************************************************************************)
(* A record that is not written stays backed while the chains go on.       *)
(***************************************************************************)
LEMMA RecordStays ==
  ASSUME Grows, RecordOK, record' = record
  PROVE  RecordOK'
BY BackedStays DEF RecordOK, Grows

(***************************************************************************)
(* An invocation that stopped, or has not begun, relies on nothing.        *)
(***************************************************************************)
LEMMA StoppedOK ==
  ASSUME ChainsOK
  PROVE  WorkerOK(Stopped) /\ WorkerOK(Idle)
<1>1. <<>> \in Seq(Steps)
  BY EmptySeq
<1> QED
  BY <1>1 DEF Stopped, Idle, NoCandidate, WorkerOK, WorkerState, Ready, Resting, RequestStatus

(* w goes on as `me', and those in `late' are stopped. *)
GoesOn(w, me, late) ==
  worker' = [v \in Workers |-> IF v = w THEN me
                                ELSE IF v \in late THEN Stopped ELSE worker[v]]

(***************************************************************************)
(* A step in which w goes on as `me' and some others are stopped keeps the *)
(* invariant, if what w goes on with is in order.                          *)
(***************************************************************************)
LEMMA Continues ==
  ASSUME IndexInv, ChainsOK', RecordOK', Grows,
         NEW w \in Workers, NEW me, WorkerOK(me), NEW late, GoesOn(w, me, late)
  PROVE  IndexInv'
<1>1. ASSUME NEW v \in Workers, NEW its, its = worker'[v]
      PROVE  WorkerOK(its)'
  <2>1. WorkerOK(its)
    BY <1>1, StoppedOK DEF IndexInv, GoesOn
  <2> QED
    BY <2>1, WorkerStays
<1>2. \A v \in Workers : WorkerOK(worker[v])'
  BY <1>1
<1>3. (worker = [v \in Workers |-> worker[v]])'
  BY DEF GoesOn
<1> QED
  BY <1>2, <1>3 DEF IndexInv

(***************************************************************************)
(* A step of w that stops nobody keeps the invariant, if what w goes on    *)
(* with is in order.                                                       *)
(***************************************************************************)
LEMMA Alone ==
  ASSUME IndexInv, ChainsOK', RecordOK', Grows,
         NEW w \in Workers, NEW me, WorkerOK(me),
         worker' = [worker EXCEPT ![w] = me]
  PROVE  IndexInv'
<1>1. GoesOn(w, me, {})
  BY DEF IndexInv, GoesOn
<1> QED
  BY <1>1, Continues

(***************************************************************************)
(* Likewise a step that changes only what w holds in memory.               *)
(***************************************************************************)
LEMMA OnlyWorker ==
  ASSUME IndexInv, UNCHANGED <<record, bridge>>,
         NEW w \in Workers, NEW me, WorkerOK(me),
         worker' = [worker EXCEPT ![w] = me]
  PROVE  IndexInv'
<1>1. Grows /\ ChainsOK'
  BY BridgeUnchanged DEF IndexInv
<1>2. RecordOK'
  BY <1>1, RecordStays DEF IndexInv
<1> QED
  BY <1>1, <1>2, Alone

(***************************************************************************)
(* An invocation may set out on transitions that are all backed, if it may *)
(* be at the place it goes to afterwards.                                  *)
(***************************************************************************)
LEMMA TransitingOK ==
  ASSUME IndexInv, NEW w \in Workers, NEW todo \in Seq(Steps),
         NEW next \in {"idle", "onchain", "persist", "release", "finish"},
         Ready(next, worker[w].tx)
  PROVE  WorkerOK(Transiting(w, todo, next))
<1> DEFINE me == worker[w]
<1>1. me \in WorkerState
  BY DEF IndexInv, WorkerOK
<1>2. CASE todo = <<>>
  BY <1>1, <1>2 DEF Transiting, WorkerOK, WorkerState
<1>3. CASE todo # <<>>
  BY <1>1, <1>3 DEF Transiting, WorkerOK, WorkerState
<1> QED
  BY <1>2, <1>3

(* Every place but the transitions. *)
PCs ==
  {"idle", "listed", "bridge", "onchain", "finish", "release", "noresult",
   "submit", "record", "mark", "poll", "persist", "return", "forward",
   "recordReturn"}

(***************************************************************************)
(* An invocation may be at another place if it has what that place relies  *)
(* on.                                                                     *)
(***************************************************************************)
LEMMA GoingOK ==
  ASSUME IndexInv, NEW w \in Workers, NEW pc \in PCs, Ready(pc, worker[w].tx)
  PROVE  WorkerOK([worker[w] EXCEPT !.pc = pc])
<1>1. worker[w] \in WorkerState
  BY DEF IndexInv, WorkerOK
<1> QED
  BY <1>1 DEF WorkerOK, WorkerState, PCs

(***************************************************************************)
(* A step that only moves w to another place (GoTo).                       *)
(***************************************************************************)
LEMMA Goes ==
  ASSUME IndexInv, UNCHANGED <<record, bridge>>,
         NEW w \in Workers, NEW pc \in PCs, Ready(pc, worker[w].tx), GoTo(w, pc)
  PROVE  IndexInv'
<1> DEFINE me == [worker[w] EXCEPT !.pc = pc]
<1>1. WorkerOK(me)
  BY GoingOK
<1>2. worker' = [worker EXCEPT ![w] = me]
  BY DEF GoTo
<1> HIDE DEF me
<1> QED
  BY <1>1, <1>2, OnlyWorker

(***************************************************************************)
(* A step that only stops w, or ends it.                                   *)
(***************************************************************************)
LEMMA Stops ==
  ASSUME IndexInv, UNCHANGED <<record, bridge>>, NEW w \in Workers,
         Stop(w) \/ worker' = [worker EXCEPT ![w] = Idle]
  PROVE  IndexInv'
<1>1. WorkerOK(Stopped) /\ WorkerOK(Idle)
  BY StoppedOK DEF IndexInv
<1> QED
  BY <1>1, OnlyWorker DEF Stop

(***************************************************************************)
(* A step that only sets w out on transitions (Transit).                   *)
(***************************************************************************)
LEMMA Transits ==
  ASSUME IndexInv, UNCHANGED <<record, bridge>>, NEW w \in Workers, NEW todo \in Seq(Steps),
         NEW next \in {"idle", "onchain", "persist", "release", "finish"},
         Ready(next, worker[w].tx), Transit(w, todo, next)
  PROVE  IndexInv'
<1>1. WorkerOK(Transiting(w, todo, next))
  BY TransitingOK
<1> QED
  BY <1>1, OnlyWorker DEF Transit

(***************************************************************************)
(* Reading the candidates, taking and giving back the lease.               *)
(***************************************************************************)
LEMMA LeaseStep ==
  ASSUME IndexInv, NEW w \in Workers,
         List(w) \/ AcquireLease(w) \/ LeaseBusy(w) \/ ReleaseLease(w)
  PROVE  IndexInv'
<1>1. CASE List(w)
  <2> DEFINE me == [worker[w] EXCEPT !.pc = "listed",
                      !.candidate = [status |-> record.status,
                                     tx |-> record.genlayerTransaction]]
  <2>1. worker[w] \in WorkerState
    BY DEF IndexInv, WorkerOK
  <2>2. WorkerOK(me)
    BY <2>1 DEF WorkerOK, WorkerState, Ready, Resting, IndexInv, RecordOK
  <2>3. worker' = [worker EXCEPT ![w] = me] /\ UNCHANGED <<record, bridge>>
    BY <1>1 DEF List
  <2> HIDE DEF me
  <2> QED
    BY <2>2, <2>3, OnlyWorker
<1>2. CASE AcquireLease(w)
  BY <1>2, Goes DEF AcquireLease, Ready, Resting, PCs
<1>3. CASE LeaseBusy(w) \/ ReleaseLease(w)
  BY <1>3, Stops DEF LeaseBusy, ReleaseLease
<1> QED
  BY <1>1, <1>2, <1>3

(***************************************************************************)
(* The hub's message is read, and what is to be done decided on the        *)
(* candidate.                                                              *)
(***************************************************************************)
LEMMA ReadHubStep ==
  ASSUME IndexInv, NEW w \in Workers, ReadHub(w)
  PROVE  IndexInv'
<1> DEFINE pc == IF ~delivered THEN "onchain"
                 ELSE IF MustSubmit(worker[w].candidate) THEN "submit" ELSE "poll"
           me == [worker[w] EXCEPT !.relayed = relayed, !.tx = worker[w].candidate.tx,
                                   !.candidate.tx = 0, !.pc = pc]
<1>1. worker[w] \in WorkerState
  BY DEF IndexInv, WorkerOK
<1>2. Ready(pc, worker[w].candidate.tx) /\ pc \in {"onchain", "submit", "poll"}
  BY <1>1 DEF Ready, Resting, MustSubmit, WorkerState
<1>3. WorkerOK(me)
  <2> HIDE DEF pc
  <2> QED
    BY <1>1, <1>2 DEF WorkerOK, WorkerState, IndexInv, ChainsOK
<1>4. worker' = [worker EXCEPT ![w] = me] /\ UNCHANGED <<record, bridge>>
  BY DEF ReadHub
<1> HIDE DEF me
<1> QED
  BY <1>3, <1>4, OnlyWorker

(***************************************************************************)
(* Once anything was submitted, the transitions to ADJUDICATING are        *)
(* backed.                                                                 *)
(***************************************************************************)
LEMMA Asked ==
  ASSUME IndexInv, submissions # <<>>
  PROVE  ToAdjudicating \in Seq(Steps) /\ <<Always("ADJUDICATING")>> \in Seq(Steps)
<1>1. delivered
  BY DEF IndexInv, ChainsOK
<1>2. Backed("DELIVERED") /\ Backed("ADJUDICATING")
  BY <1>1, Ranks DEF Backed
<1>3. /\ Only("DISPATCHED", "DELIVERED") \in Steps
      /\ Only("DELIVERED", "ADJUDICATING") \in Steps
      /\ Always("ADJUDICATING") \in Steps
  BY <1>2 DEF Steps, Only, Always, RequestStatus
<1> QED
  BY <1>3 DEF ToAdjudicating

(***************************************************************************)
(* Once a result is stored, those to FINALIZED are.                        *)
(***************************************************************************)
LEMMA Stored ==
  ASSUME IndexInv, resultBy # 0
  PROVE  submissions # <<>> /\ ToFinalized \in Seq(Steps)
<1>1. submissions # <<>>
  BY DEF IndexInv, ChainsOK, Returned, Transactions
<1>2. Backed("FINALIZED")
  BY <1>1, Ranks DEF Backed, IndexInv, ChainsOK
<1>3. Only("ADJUDICATING", "FINALIZED") \in Steps
  BY <1>2 DEF Steps, Only, RequestStatus
<1>4. ToAdjudicating \in Seq(Steps)
  BY <1>1, Asked
<1>5. Append(ToAdjudicating, Only("ADJUDICATING", "FINALIZED")) \in Seq(Steps)
  <2> HIDE DEF Steps
  <2> QED
    BY <1>3, <1>4, AppendProperties
<1> QED
  BY <1>1, <1>5 DEF ToFinalized

(***************************************************************************)
(* Once a result was forwarded, the one to RETURN_DISPATCHED is.           *)
(***************************************************************************)
LEMMA Forwarded ==
  ASSUME IndexInv, usedResultTxHashes # {}
  PROVE  ToReturnDispatched \in Seq(Steps)
<1>1. Backed("RETURN_DISPATCHED")
  BY Ranks DEF Backed, IndexInv, ChainsOK, Returned, Transactions
<1>2. Only("FINALIZED", "RETURN_DISPATCHED") \in Steps
  BY <1>1 DEF Steps, Only, RequestStatus
<1> QED
  BY <1>2 DEF ToReturnDispatched

(***************************************************************************)
(* A submission, which is the transaction w goes on with.                  *)
(***************************************************************************)
LEMMA SubmitStep ==
  ASSUME IndexInv, NEW w \in Workers, Submit(w)
  PROVE  IndexInv'
<1> DEFINE me == [worker[w] EXCEPT !.tx = Len(submissions) + 1, !.pc = "record"]
<1>1. /\ worker[w] \in WorkerState
      /\ delivered
  BY DEF IndexInv, WorkerOK, Ready, Resting, Submit, At
<1>2. submissions \in Seq({"pending", "returned", "failed"})
  BY DEF IndexInv, ChainsOK
<1>3. /\ submissions' \in Seq({"pending", "returned", "failed"})
      /\ Len(submissions') = Len(submissions) + 1
      /\ \A i \in 1 .. Len(submissions) : submissions'[i] = submissions[i]
  BY <1>2, AppendProperties DEF Submit
<1>4. /\ Transactions = 1 .. Len(submissions) /\ Transactions' = 1 .. Len(submissions) + 1
      /\ submissions' # <<>>
      /\ Len(submissions) \in Nat
  BY <1>2, <1>3, LenProperties, EmptySeq DEF Transactions
<1>5. /\ Transactions \subseteq Transactions' /\ Returned \subseteq Returned'
      /\ Len(submissions) + 1 \in Transactions'
  BY <1>3, <1>4 DEF Returned
<1>6. Grows
  BY <1>4, <1>5 DEF Grows, Submit
<1>7. ChainsOK'
  BY <1>1, <1>3, <1>5 DEF IndexInv, ChainsOK, Submit
<1>8. RecordOK'
  BY <1>6, RecordStays DEF IndexInv, Submit
<1>9. ASSUME NEW its, its = me
      PROVE  WorkerOK(its)'
  <2>1. its.todo \in Seq(Steps)'
    <3>1. Steps \subseteq Steps'
      BY <1>6, BackedStays DEF Steps
    <3>2. its.todo \in Seq(Steps)
      BY <1>1, <1>9 DEF WorkerState
    <3> QED
      BY <3>1, <3>2, SeqMonotonic
  <2> QED
    BY <1>1, <1>5, <1>9, <2>1 DEF WorkerOK, WorkerState, Ready
<1>10. worker' = [worker EXCEPT ![w] = me]
  BY DEF Submit
<1> HIDE DEF me
<1>11. ASSUME NEW v \in Workers, NEW its, its = worker'[v]
       PROVE  WorkerOK(its)'
  <2>1. CASE v = w
    BY <1>9, <1>10, <1>11, <2>1 DEF IndexInv
  <2>2. CASE v # w
    <3>1. its = worker[v]
      BY <1>10, <1>11, <2>2 DEF IndexInv
    <3>2. WorkerOK(its)
      BY <3>1 DEF IndexInv
    <3> QED
      BY <3>2, <1>6, WorkerStays
  <2> QED
    BY <2>1, <2>2
<1>12. \A v \in Workers : WorkerOK(worker[v])'
  BY <1>11
<1>13. (worker = [v \in Workers |-> worker[v]])'
  BY <1>10 DEF IndexInv
<1> QED
  BY <1>7, <1>8, <1>12, <1>13 DEF IndexInv

(***************************************************************************)
(* The record gets the transaction that was submitted.                     *)
(***************************************************************************)
LEMMA RecordSubmissionStep ==
  ASSUME IndexInv, NEW w \in Workers, RecordSubmission(w)
  PROVE  IndexInv'
<1> DEFINE to == IF worker[w].candidate.status = "REQUIRES_REVIEW"
                 THEN Transiting(w, <<Always("ADJUDICATING")>>, "onchain")
                 ELSE IF MustMark(w) THEN [worker[w] EXCEPT !.pc = "mark"]
                 ELSE Transiting(w, ToAdjudicating, "onchain")
<1>1. worker[w].tx \in Transactions
  BY DEF IndexInv, WorkerOK, Ready, Resting, RecordSubmission, At
<1>2. submissions # <<>>
  BY <1>1 DEF Transactions
<1>3. UNCHANGED bridge /\ Grows /\ ChainsOK'
  BY BridgeUnchanged DEF IndexInv, RecordSubmission
<1>4. RecordOK'
  <2>1. /\ record'.status = record.status /\ record'.genlayerTransaction = worker[w].tx
        /\ record'.returnTransaction = record.returnTransaction
        /\ record'.result = record.result
        /\ record' = [status |-> record.status, genlayerTransaction |-> worker[w].tx,
                      returnTransaction |-> record.returnTransaction,
                      result |-> record.result]
    BY DEF RecordSubmission, IndexInv, RecordOK
  <2>2. Backed(record.status)'
    BY <1>3, <2>1, BackedStays DEF IndexInv, RecordOK, Backed
  <2> QED
    BY <1>1, <1>3, <2>1, <2>2 DEF IndexInv, RecordOK, Grows, Transactions, bridge
<1>5. WorkerOK(to)
  <2>1. Ready("onchain", worker[w].tx) /\ Ready("mark", worker[w].tx)
    BY <1>1 DEF Ready, Resting
  <2> QED
    BY <1>2, <2>1, Asked, TransitingOK, GoingOK DEF PCs
<1>6. worker' = [worker EXCEPT ![w] = to]
  BY DEF RecordSubmission, Transit, GoTo
<1> HIDE DEF to
<1> QED
  BY <1>3, <1>4, <1>5, <1>6, Alone

(***************************************************************************)
(* The hub's message is marked as relayed, or the call reverts.            *)
(***************************************************************************)
LEMMA MarkRelayedStep ==
  ASSUME IndexInv, NEW w \in Workers, MarkRelayed(w) \/ MarkRelayedReverts(w)
  PROVE  IndexInv'
<1>1. worker[w].tx \in Transactions
  BY DEF IndexInv, WorkerOK, Ready, Resting, MarkRelayed, MarkRelayedReverts, At
<1>2. submissions # <<>> /\ Ready("onchain", worker[w].tx)
  BY <1>1 DEF Transactions, Ready, Resting
<1>3. CASE MarkRelayed(w)
  <2>1. Grows
    BY <1>3 DEF MarkRelayed, Grows, Transactions, Returned
  <2>2. ChainsOK'
    BY <1>3 DEF MarkRelayed, IndexInv, ChainsOK, Transactions, Returned
  <2>3. RecordOK'
    BY <1>3, <2>1, RecordStays DEF MarkRelayed, IndexInv
  <2>4. WorkerOK(Transiting(w, ToAdjudicating, "onchain"))
    BY <1>2, Asked, TransitingOK
  <2> QED
    BY <1>3, <2>1, <2>2, <2>3, <2>4, Alone DEF MarkRelayed, Transit
<1>4. CASE MarkRelayedReverts(w)
  BY <1>2, <1>4, Asked, Stops, Transits DEF MarkRelayedReverts
<1> QED
  BY <1>3, <1>4

(***************************************************************************)
(* A finalized transaction is looked at; w goes on to the result only if   *)
(* one is stored.                                                          *)
(***************************************************************************)
LEMMA PollStep ==
  ASSUME IndexInv, NEW w \in Workers, Poll(w)
  PROVE  IndexInv'
<1> DEFINE tx == worker[w].tx
<1>1. tx \in Transactions /\ UNCHANGED <<record, bridge>>
  BY DEF IndexInv, WorkerOK, Ready, Resting, Poll, At
<1>2. CASE submissions[tx] = "pending"
  BY <1>1, <1>2, Goes DEF Poll, Ready, Resting, PCs
<1>3. CASE submissions[tx] # "pending" /\ ~ExecutionReturned(tx)
  BY <1>1, <1>3, Stops DEF Poll
<1>4. CASE ExecutionReturned(tx)
  <2>1. tx \in Returned
    BY <1>1, <1>4 DEF ExecutionReturned, Returned
  <2>2. CASE ~ResultIsReadable
    <3>1. GoTo(w, "noresult")
      BY <1>4, <2>2 DEF Poll, ExecutionReturned
    <3> QED
      BY <1>1, <3>1, Goes DEF Ready, Resting, PCs
  <2>3. CASE ResultIsReadable
    <3>1. Transit(w, ToFinalized, "persist")
      BY <1>4, <2>3 DEF Poll, ExecutionReturned
    <3>2. Ready("persist", worker[w].tx)
      BY <2>1, <2>3 DEF Ready, ResultIsReadable
    <3>3. ToFinalized \in Seq(Steps)
      BY <2>3, Stored DEF ResultIsReadable
    <3> QED
      BY <1>1, <3>1, <3>2, <3>3, Transits
  <2> QED
    BY <2>2, <2>3
<1> QED
  BY <1>2, <1>3, <1>4

(***************************************************************************)
(* A step that may stop others that read the status it replaces.           *)
(***************************************************************************)
LEMMA OvertakingKeeps ==
  ASSUME IndexInv, ChainsOK', RecordOK', Grows, NEW w \in Workers, NEW me, WorkerOK(me),
         Overtaking(w, me)
  PROVE  IndexInv'
<1>1. \E late : GoesOn(w, me, late)
  BY DEF Overtaking, GoesOn
<1> QED
  BY <1>1, Continues

(***************************************************************************)
(* ADJUDICATING becomes REQUIRES_REVIEW, which is of the same rank.        *)
(***************************************************************************)
LEMMA RequireReviewStep ==
  ASSUME IndexInv, NEW w \in Workers, RequireReview(w)
  PROVE  IndexInv'
<1>1. UNCHANGED bridge /\ Grows /\ ChainsOK'
  BY BridgeUnchanged DEF IndexInv, RequireReview
<1>2. RecordOK'
  <2>1. CASE record' = record
    BY <1>1, <2>1, RecordStays DEF IndexInv
  <2>2. CASE /\ record.status = "ADJUDICATING"
             /\ record' = [record EXCEPT !.status = "REQUIRES_REVIEW"]
    <3>1. Backed("REQUIRES_REVIEW")
      BY <2>2, Ranks DEF Backed, IndexInv, RecordOK
    <3>2. Backed("REQUIRES_REVIEW")'
      BY <1>1, <3>1, BackedStays
    <3> QED
      BY <1>1, <2>2, <3>2 DEF IndexInv, RecordOK, Backed, Grows, RequestStatus
  <2> QED
    BY <2>1, <2>2 DEF RequireReview
<1>3. WorkerOK(Stopped)
  BY StoppedOK DEF IndexInv
<1> QED
  BY <1>1, <1>2, <1>3, OvertakingKeeps DEF RequireReview

(***************************************************************************)
(* A result is written to the record once, and one was stored by then.     *)
(***************************************************************************)
LEMMA PersistedBacked ==
  ASSUME IndexInv, UNCHANGED bridge, NEW tx, tx # 0 => resultBy # 0, record' = PersistedOnce(tx)
  PROVE  RecordOK'
<1>1. Grows
  BY BridgeUnchanged
<1>2. CASE record' = record
  BY <1>1, <1>2, RecordStays DEF IndexInv
<1>3. CASE record' = [record EXCEPT !.result = tx]
  <2>1. /\ record'.status = record.status
        /\ record'.genlayerTransaction = record.genlayerTransaction
        /\ record'.returnTransaction = record.returnTransaction
        /\ record'.result = tx
    BY <1>3 DEF IndexInv, RecordOK
  <2>2. Backed(record.status)'
    BY <1>1, <2>1, BackedStays DEF IndexInv, RecordOK, Backed
  <2> QED
    BY <1>1, <1>3, <2>1, <2>2 DEF IndexInv, RecordOK, Grows
<1> QED
  BY <1>2, <1>3 DEF PersistedOnce

(***************************************************************************)
(* The two places that persist a result.                                   *)
(***************************************************************************)
LEMMA PersistStep ==
  ASSUME IndexInv, NEW w \in Workers, PersistResult(w) \/ Finish(w)
  PROVE  IndexInv'
<1>1. UNCHANGED bridge /\ Grows /\ ChainsOK'
  BY BridgeUnchanged DEF IndexInv, PersistResult, Finish
<1>2. CASE PersistResult(w)
  <2>1. worker[w].tx \in Returned /\ resultBy # 0
    BY <1>2 DEF PersistResult, At, IndexInv, WorkerOK, Ready, Resting
  <2>2. RecordOK'
    BY <1>1, <1>2, <2>1, PersistedBacked DEF PersistResult
  <2>3. WorkerOK([worker[w] EXCEPT !.pc = "return"])
    BY <2>1, GoingOK DEF PCs, Ready
  <2> QED
    BY <1>1, <1>2, <2>2, <2>3, Alone DEF PersistResult, GoTo
<1>3. CASE Finish(w)
  <2>1. RecordOK'
    BY <1>1, <1>3, PersistedBacked DEF Finish
  <2>2. WorkerOK(Stopped)
    BY StoppedOK DEF IndexInv
  <2> QED
    BY <1>1, <1>3, <2>1, <2>2, Alone DEF Finish, Stop
<1> QED
  BY <1>2, <1>3

(***************************************************************************)
(* The return is decided on, reverts, or is recorded.                      *)
(***************************************************************************)
LEMMA ReturnStep ==
  ASSUME IndexInv, NEW w \in Workers,
         CheckReturn(w) \/ ForwardReverts(w) \/ RecordReturn(w)
  PROVE  IndexInv'
<1>1. Ready("onchain", worker[w].tx)
  BY DEF Ready, Resting
<1>2. CASE CheckReturn(w)
  <2>1. Ready("forward", worker[w].tx)
    BY <1>2 DEF CheckReturn, At, IndexInv, WorkerOK, Ready, Resting
  <2>2. UNCHANGED <<record, bridge>>
    BY <1>2 DEF CheckReturn
  <2>3. CASE record.returnTransaction # 0
    <3>1. usedResultTxHashes # {}
      BY <2>3 DEF IndexInv, RecordOK
    <3> QED
      BY <1>1, <1>2, <2>2, <2>3, <3>1, Forwarded, Transits DEF CheckReturn
  <2>4. CASE record.returnTransaction = 0
    BY <1>1, <1>2, <2>1, <2>2, <2>4, Goes DEF CheckReturn, PCs
  <2> QED
    BY <2>3, <2>4
<1>3. CASE ForwardReverts(w)
  <2>1. CASE ~NotForwarded(worker[w].tx) /\ GoTo(w, "recordReturn")
    <3>1. Ready("recordReturn", worker[w].tx)
      BY <2>1 DEF NotForwarded, Ready
    <3> QED
      BY <1>3, <2>1, <3>1, Goes DEF ForwardReverts, PCs
  <2> QED
    BY <1>3, <2>1, Stops DEF ForwardReverts
<1>4. CASE RecordReturn(w)
  <2>1. worker[w].tx \in usedResultTxHashes
    BY <1>4 DEF RecordReturn, At, IndexInv, WorkerOK, Ready, Resting
  <2>2. UNCHANGED bridge /\ Grows /\ ChainsOK'
    BY <1>4, BridgeUnchanged DEF IndexInv, RecordReturn
  <2>3. RecordOK'
    <3>1. /\ record'.status = record.status
          /\ record'.genlayerTransaction = worker[w].tx
          /\ record'.returnTransaction = worker[w].tx
          /\ record'.result = record.result
          /\ record' = [status |-> record.status, genlayerTransaction |-> worker[w].tx,
                        returnTransaction |-> worker[w].tx, result |-> record.result]
      BY <1>4 DEF RecordReturn, IndexInv, RecordOK
    <3>2. Backed(record.status)'
      BY <2>2, <3>1, BackedStays DEF IndexInv, RecordOK, Backed
    <3>3. worker[w].tx \in Transactions'
      BY <2>1, <2>2 DEF IndexInv, ChainsOK, Returned, Grows
    <3> QED
      BY <2>1, <2>2, <3>1, <3>2, <3>3 DEF IndexInv, RecordOK, Grows
  <2>4. WorkerOK(Transiting(w, ToReturnDispatched, "onchain"))
    BY <1>1, <2>1, Forwarded, TransitingOK
  <2> QED
    BY <1>4, <2>2, <2>3, <2>4, Alone DEF RecordReturn, Transit
<1> QED
  BY <1>2, <1>3, <1>4

(***************************************************************************)
(* The hub takes a result: of a relayed message, by a transaction that     *)
(* returned.                                                               *)
(***************************************************************************)
LEMMA ForwardStep ==
  ASSUME IndexInv, NEW w \in Workers, ForwardResult(w)
  PROVE  IndexInv'
<1>1. worker[w].tx \in Returned /\ resultBy # 0 /\ relayed
  BY DEF ForwardResult, HubTakesResult, At, IndexInv, WorkerOK, Ready, Resting
<1>2. Transactions' = Transactions /\ Returned' = Returned
  BY DEF ForwardResult, Transactions, Returned
<1>3. Grows
  BY <1>2 DEF ForwardResult, Grows
<1>4. ChainsOK'
  BY <1>1, <1>2 DEF ForwardResult, IndexInv, ChainsOK
<1>5. RecordOK'
  BY <1>3, RecordStays DEF ForwardResult, IndexInv
<1> DEFINE me == [worker[w] EXCEPT !.pc = "recordReturn"]
<1>6. ASSUME NEW its, its = me
      PROVE  WorkerOK(its)'
  <2>1. Ready("return", worker[w].tx) /\ worker[w] \in WorkerState
    BY <1>1 DEF Ready, IndexInv, WorkerOK
  <2>2. WorkerOK([worker[w] EXCEPT !.pc = "return"])
    BY <2>1, GoingOK DEF PCs
  <2>3. its \in WorkerState
    BY <1>6, <2>1 DEF WorkerState
  <2>4. its \in WorkerState'
    <3>1. Steps \subseteq Steps'
      BY <1>3, BackedStays DEF Steps
    <3>2. Seq(Steps) \subseteq Seq(Steps')
      BY <3>1, SeqMonotonic
    <3> QED
      BY <1>2, <2>3, <3>2 DEF WorkerState
  <2>5. its.pc = "recordReturn" /\ its.tx = worker[w].tx
    BY <1>6, <2>1 DEF WorkerState
  <2> QED
    BY <2>4, <2>5 DEF WorkerOK, Ready, ForwardResult
<1>7. worker' = [worker EXCEPT ![w] = me]
  BY DEF ForwardResult, GoTo
<1> HIDE DEF me
<1>8. ASSUME NEW v \in Workers, NEW its, its = worker'[v]
      PROVE  WorkerOK(its)'
  <2>1. CASE v = w
    BY <1>6, <1>7, <1>8, <2>1 DEF IndexInv
  <2>2. CASE v # w
    <3>1. WorkerOK(its)
      BY <1>7, <1>8, <2>2 DEF IndexInv
    <3> QED
      BY <3>1, <1>3, WorkerStays
  <2> QED
    BY <2>1, <2>2
<1>9. \A v \in Workers : WorkerOK(worker[v])'
  BY <1>8
<1>10. (worker = [v \in Workers |-> worker[v]])'
  BY <1>7 DEF IndexInv
<1> QED
  BY <1>4, <1>5, <1>9, <1>10 DEF IndexInv

(***************************************************************************)
(* transitionRequest: the record gets a status that is backed, or w stops. *)
(***************************************************************************)
LEMMA TransitionStep ==
  ASSUME IndexInv, NEW w \in Workers, Transition(w)
  PROVE  IndexInv'
<1> DEFINE todo == worker[w].todo
           step == Head(todo)
           skip == record.status = step.to \/ record.status \notin step.from
           allowed == canTransition(record.status, step.to)
<1>1. /\ todo \in Seq(Steps) /\ todo # <<>>
      /\ Ready(worker[w].next, worker[w].tx)
      /\ worker[w].next \in {"idle", "onchain", "persist", "release", "finish"}
  BY DEF Transition, At, IndexInv, WorkerOK, WorkerState
<1>2. step \in Steps /\ Tail(todo) \in Seq(Steps)
  <2> HIDE DEF todo, Steps
  <2> QED
    BY <1>1, HeadTailProperties
<1>3. UNCHANGED bridge /\ Grows /\ ChainsOK'
  BY BridgeUnchanged DEF IndexInv, Transition
<1>4. RecordOK'
  <2>1. CASE record' = record
    BY <1>3, <2>1, RecordStays DEF IndexInv
  <2>2. CASE record' = [record EXCEPT !.status = step.to]
    <3>1. step.to \in RequestStatus /\ Backed(step.to)
      BY <1>2 DEF Steps
    <3>2. /\ record'.status = step.to
          /\ record'.genlayerTransaction = record.genlayerTransaction
          /\ record'.returnTransaction = record.returnTransaction
          /\ record'.result = record.result
          /\ record' = [status |-> step.to,
                        genlayerTransaction |-> record.genlayerTransaction,
                        returnTransaction |-> record.returnTransaction,
                        result |-> record.result]
      BY <2>2 DEF IndexInv, RecordOK
    <3>3. Backed(record.status)'
      <4>1. ASSUME NEW s, s = step.to PROVE Backed(s)'
        BY <1>3, <3>1, <4>1, BackedStays
      <4> QED
        BY <3>2, <4>1 DEF Backed
    <3> HIDE DEF step
    <3> QED
      BY <1>3, <3>1, <3>2, <3>3 DEF IndexInv, RecordOK, Grows
  <2> QED
    BY <2>1, <2>2 DEF Transition
<1>5. WorkerOK(Transiting(w, Tail(todo), worker[w].next))
  BY <1>1, <1>2, TransitingOK
<1>6. WorkerOK(Stopped)
  BY StoppedOK DEF IndexInv
<1>7. \/ Overtaking(w, Transiting(w, Tail(todo), worker[w].next))
      \/ Overtaking(w, Stopped)
  BY DEF Transition
<1> HIDE DEF todo
<1> QED
  BY <1>3, <1>4, <1>5, <1>6, <1>7, OvertakingKeeps

(***************************************************************************)
(* The states of a catch-up path are in the order of their ranks.          *)
(***************************************************************************)
LEMMA LifecycleByRank ==
  /\ Lifecycle \in Seq(RequestStatus) /\ Len(Lifecycle) = 8
  /\ \A i \in 1 .. 8 : LifecycleRank[Lifecycle[i]] = i
<1>1. Lifecycle \in Seq(RequestStatus) /\ Len(Lifecycle) = 8
  BY DEF Lifecycle, RequestStatus
<1>2. ASSUME NEW i \in 1 .. 8 PROVE LifecycleRank[Lifecycle[i]] = i
  <2>1. i \in {1, 2, 3, 4, 5, 6, 7, 8}
    OBVIOUS
  <2> QED
    BY <2>1, Ranks DEF Lifecycle
<1> QED
  BY <1>1, <1>2

(***************************************************************************)
(* The states left to catch up with go no further than the target.         *)
(***************************************************************************)
LEMMA PathOfStatuses ==
  ASSUME NEW target \in RequestStatus, NEW status \in RequestStatus
  PROVE  /\ RemainingPath(target, status) \in Seq(RequestStatus)
         /\ \A i \in 1 .. Len(RemainingPath(target, status)) :
              LifecycleRank[RemainingPath(target, status)[i]] <= LifecycleRank[target]
<1> DEFINE n == LifecycleRank[target]
           m == LifecycleRank[status]
           path == CatchUpPath(target)
           rest == SubSeq(path, m + 1, Len(path))
<1>1. n \in 1 .. 8 /\ m \in 1 .. 8
  BY RankRange
<1>2. /\ path \in Seq(RequestStatus) /\ Len(path) = n
      /\ \A i \in 1 .. n : path[i] = Lifecycle[i]
  <2> HIDE DEF n
  <2>1. \A i \in 1 .. n : Lifecycle[i] \in RequestStatus
    <3>1. Lifecycle \in [1 .. 8 -> RequestStatus]
      BY LifecycleByRank, LenProperties
    <3> QED
      BY <1>1, <3>1
  <2>2. path = SubSeq(Lifecycle, 1, n)
    BY DEF CatchUpPath, n
  <2> QED
    BY <1>1, <2>1, <2>2, SubSeqProperties
<1>3. \A i \in 1 .. n : LifecycleRank[path[i]] = i
  BY <1>1, <1>2, LifecycleByRank
<1>4. /\ rest \in Seq(RequestStatus)
      /\ Len(rest) = IF m + 1 <= n THEN n - m ELSE 0
      /\ \A i \in 1 .. n - m : rest[i] = path[m + i]
  <2> HIDE DEF n, m, path
  <2>1. \A i \in m + 1 .. n : path[i] \in RequestStatus
    BY <1>1, <1>2, ElementOfSeq
  <2> QED
    BY <1>1, <1>2, <2>1, SubSeqProperties
<1>5. RemainingPath(target, status) \in {path, rest}
  BY DEF RemainingPath
<1> HIDE DEF n, m, path, rest
<1>6. /\ \A i \in 1 .. Len(path) : LifecycleRank[path[i]] <= n
      /\ \A i \in 1 .. Len(rest) : LifecycleRank[rest[i]] <= n
  BY <1>1, <1>2, <1>3, <1>4
<1> QED
  BY <1>2, <1>4, <1>5, <1>6 DEF n

(***************************************************************************)
(* Every status up to the router's own is backed once the router has a     *)
(* result.                                                                 *)
(***************************************************************************)
LEMMA CaughtUpBacked ==
  ASSUME IndexInv, NEW status \in RequestStatus, onchain # "DISPATCHED",
         LifecycleRank[status] <= LifecycleRank[onchain]
  PROVE  Backed(status)
<1>1. usedResultTxHashes # {} /\ resultBy # 0 /\ submissions # <<>> /\ delivered
  BY DEF IndexInv, ChainsOK, Returned, Transactions
<1>2. CASE onchain = "CALLBACK_EXECUTED"
  BY <1>1, <1>2 DEF Backed
<1>3. CASE onchain = "CALLBACK_PENDING"
  <2>1. LifecycleRank[status] \in 1 .. 8 /\ LifecycleRank[status] <= 7
    BY <1>3, Ranks, RankRange
  <2>2. ~(LifecycleRank[status] >= 8)
    BY <2>1
  <2> QED
    BY <1>1, <1>3, <2>2 DEF Backed
<1>4. onchain \in {"DISPATCHED", "CALLBACK_PENDING", "CALLBACK_EXECUTED"}
  BY DEF IndexInv, ChainsOK
<1> QED
  BY <1>2, <1>3, <1>4

(***************************************************************************)
(* The router's status is read and the catch-up begins.                    *)
(***************************************************************************)
LEMMA ReadOnchainStep ==
  ASSUME IndexInv, NEW w \in Workers, ReadOnchain(w)
  PROVE  IndexInv'
<1> DEFINE behind == worker[w].candidate.status
           path == IF IsBehind(behind, onchain) THEN RemainingPath(onchain, behind)
                   ELSE <<>>
           todo == [i \in DOMAIN path |-> Always(path[i])]
           next == IF onchain = "DISPATCHED" THEN "release" ELSE "finish"
<1>1. behind \in RequestStatus /\ onchain \in RequestStatus
  BY DEF IndexInv, WorkerOK, WorkerState, ChainsOK, RequestStatus
<1>2. path \in Seq(RequestStatus) /\ \A i \in 1 .. Len(path) : Backed(path[i])
  <2>1. CASE ~IsBehind(behind, onchain)
    BY <2>1, EmptySeq
  <2>2. CASE IsBehind(behind, onchain)
    <3>1. onchain # "DISPATCHED"
      BY <1>1, <2>2, Ranks, RankRange DEF IsBehind
    <3>2. path = RemainingPath(onchain, behind)
      BY <2>2
    <3> HIDE DEF path, behind
    <3>3. /\ path \in Seq(RequestStatus)
          /\ \A i \in 1 .. Len(path) : LifecycleRank[path[i]] <= LifecycleRank[onchain]
      BY <1>1, <3>2, PathOfStatuses
    <3> QED
      BY <3>1, <3>3, CaughtUpBacked, ElementOfSeq
  <2> QED
    BY <2>1, <2>2
<1>3. todo \in Seq(Steps)
  <2> HIDE DEF path
  <2>1. Len(path) \in Nat /\ DOMAIN path = 1 .. Len(path)
    BY <1>2, LenProperties
  <2>2. \A i \in 1 .. Len(path) : Always(path[i]) \in Steps
    BY <1>2, ElementOfSeq DEF Steps, Always
  <2>3. todo \in [1 .. Len(path) -> Steps]
    BY <2>1, <2>2
  <2> HIDE DEF todo, Steps
  <2> QED
    BY <2>1, <2>3
<1>4. /\ next \in {"idle", "onchain", "persist", "release", "finish"}
      /\ Ready(next, worker[w].tx)
  BY DEF Ready, Resting
<1>5. Transit(w, todo, next) /\ UNCHANGED <<record, bridge>>
  BY DEF ReadOnchain
<1> HIDE DEF todo, next
<1> QED
  BY <1>3, <1>4, <1>5, Transits

(***************************************************************************)
(* A step of the chains, while no invocation does anything.                *)
(***************************************************************************)
LEMMA WorkersWait ==
  ASSUME IndexInv, Grows, ChainsOK', record' = record, worker' = worker
  PROVE  IndexInv'
<1>1. RecordOK'
  BY RecordStays DEF IndexInv
<1>2. ASSUME NEW v \in Workers, NEW its, its = worker[v]
      PROVE  WorkerOK(its)'
  BY <1>2, WorkerStays DEF IndexInv
<1>3. \A v \in Workers : WorkerOK(worker[v])'
  BY <1>2
<1> QED
  BY <1>1, <1>3 DEF IndexInv

(***************************************************************************)
(* GenLayer finalizes a transaction, with or without a result.             *)
(***************************************************************************)
LEMMA FinalizesStep ==
  ASSUME IndexInv, GenLayerFinalizes
  PROVE  IndexInv'
<1> PICK tx \in DOMAIN submissions :
       /\ submissions[tx] = "pending"
       /\ \/ submissions' = [submissions EXCEPT ![tx] = "returned"] /\ resultBy' = tx
          \/ submissions' = [submissions EXCEPT ![tx] = "failed"] /\ resultBy' = resultBy
          \/ submissions' = [submissions EXCEPT ![tx] = "returned"] /\ resultBy' = resultBy
  BY DEF GenLayerFinalizes
<1>1. UNCHANGED <<record, worker, delivered, relayed, usedResultTxHashes, onchain>>
  BY DEF GenLayerFinalizes
<1> DEFINE S == {"pending", "returned", "failed"}
<1>2. submissions \in Seq(S) /\ tx \in 1 .. Len(submissions)
  BY LenProperties DEF IndexInv, ChainsOK
<1>3. PICK how \in S \ {"pending"} : submissions' = [submissions EXCEPT ![tx] = how]
  OBVIOUS
<1>4. /\ submissions' \in Seq(S)
      /\ Len(submissions') = Len(submissions)
      /\ \A i \in 1 .. Len(submissions) :
           submissions'[i] = IF i = tx THEN how ELSE submissions[i]
  BY <1>2, <1>3, ExceptSeq
<1>5. /\ Transactions = 1 .. Len(submissions) /\ Transactions' = 1 .. Len(submissions)
      /\ (submissions # <<>>) /\ submissions' # <<>>
  BY <1>2, <1>4, LenProperties, EmptySeq DEF Transactions
<1>6. Returned \subseteq Returned'
  BY <1>4, <1>5 DEF Returned
<1>7. resultBy' \in Returned' \cup {0} /\ (resultBy # 0 => resultBy' # 0)
  <2>1. CASE resultBy' = resultBy
    BY <1>6, <2>1 DEF IndexInv, ChainsOK
  <2>2. CASE submissions' = [submissions EXCEPT ![tx] = "returned"] /\ resultBy' = tx
    <3>1. submissions'[tx] = "returned"
      BY <2>2
    <3> QED
      BY <1>2, <1>5, <2>2, <3>1 DEF Returned
  <2> QED
    BY <2>1, <2>2
<1>8. Grows
  BY <1>1, <1>5, <1>6, <1>7 DEF Grows
<1>9. ChainsOK'
  BY <1>1, <1>4, <1>5, <1>6, <1>7 DEF IndexInv, ChainsOK
<1> QED
  BY <1>1, <1>8, <1>9, WorkersWait

(***************************************************************************)
(* Any step of the chains.                                                 *)
(***************************************************************************)
LEMMA ChainsStep ==
  ASSUME IndexInv, Chains
  PROVE  IndexInv'
<1>1. CASE GenLayerFinalizes
  BY <1>1, FinalizesStep
<1>2. CASE HubDelivers \/ BaseHandlesResult \/ BaseRetriesCallback
  <2>1. Transactions' = Transactions /\ Returned' = Returned
    BY <1>2 DEF HubDelivers, BaseHandlesResult, BaseRetriesCallback, Transactions, Returned
  <2>2. Grows
    BY <1>2, <2>1 DEF HubDelivers, BaseHandlesResult, BaseRetriesCallback, Grows
  <2>3. ChainsOK'
    BY <1>2, <2>1
    DEF HubDelivers, BaseHandlesResult, BaseRetriesCallback, IndexInv, ChainsOK
  <2>4. UNCHANGED <<record, worker>>
    BY <1>2 DEF HubDelivers, BaseHandlesResult, BaseRetriesCallback
  <2> QED
    BY <2>2, <2>3, <2>4, WorkersWait
<1> QED
  BY <1>1, <1>2 DEF Chains

(***************************************************************************)
(* Every step keeps the invariant.                                         *)
(***************************************************************************)
LEMMA NextStep ==
  ASSUME IndexInv, [Next]_vars
  PROVE  IndexInv'
<1>1. ASSUME NEW w \in Workers, Work(w) PROVE IndexInv'
  BY <1>1, LeaseStep, ReadHubStep, SubmitStep, RecordSubmissionStep, MarkRelayedStep,
     PollStep, RequireReviewStep, PersistStep, ReturnStep, ForwardStep, TransitionStep,
     ReadOnchainStep
  DEF Work
<1>2. ASSUME NEW w \in Workers, Crash(w) PROVE IndexInv'
  BY <1>2, Stops DEF Crash
<1>3. CASE UNCHANGED <<record, bridge, worker>>
  <2>1. Grows /\ ChainsOK'
    BY <1>3, BridgeUnchanged DEF IndexInv
  <2> QED
    BY <1>3, <2>1, WorkersWait
<1>4. CASE LeaseExpires \/ UNCHANGED vars
  BY <1>3, <1>4 DEF LeaseExpires, vars
<1> QED
  BY <1>1, <1>2, <1>4, ChainsStep DEF Next

(***************************************************************************)
(* It holds at first.                                                      *)
(***************************************************************************)
LEMMA InitInv ==
  ASSUME Init
  PROVE  IndexInv
<1>1. Transactions = {} /\ <<>> \in Seq({"pending", "returned", "failed"})
  BY EmptySeq DEF Init, Transactions
<1>2. ChainsOK
  BY <1>1 DEF Init, ChainsOK
<1>3. Backed("DISPATCHED")
  BY Ranks DEF Backed
<1>4. RecordOK
  BY <1>3 DEF Init, RecordOK, RequestStatus
<1>5. WorkerOK(Idle)
  BY <1>2, StoppedOK
<1> QED
  BY <1>2, <1>4, <1>5 DEF Init, IndexInv

(***************************************************************************)
(* The strengthened invariant holds in every reachable state, whatever     *)
(* candidates the invocations work from and wherever they die.             *)
(***************************************************************************)
THEOREM IndexInvariant == Spec => []IndexInv
<1> QED
  BY InitInv, NextStep, PTL DEF Spec

(***************************************************************************)
(* The index never runs ahead of the chains: what it shows of a request    *)
(* happened on GenLayer, at the hub and on Base (transitionRequest,        *)
(* persistFinalizedResult, recordReturnTransaction).                       *)
(***************************************************************************)
THEOREM StatusBacked == Spec => []StatusIsBacked
<1>1. IndexInv => StatusIsBacked
  BY Ranks DEF IndexInv, RecordOK, Backed, StatusIsBacked, AtLeast
<1> QED
  BY <1>1, IndexInvariant, PTL

(***************************************************************************)
(* No result is forwarded unless one is stored and the request's message   *)
(* was relayed (the checks before forwardResult).                          *)
(***************************************************************************)
THEOREM ResultBehindEveryReturn == Spec => []NoReturnWithoutResult
<1>1. IndexInv => NoReturnWithoutResult
  BY DEF IndexInv, ChainsOK, NoReturnWithoutResult
<1> QED
  BY <1>1, IndexInvariant, PTL

(***************************************************************************)
(* Of all the transactions invocations may have submitted, only the one    *)
(* that stored the result is returned to Base, apart from those whose own  *)
(* result was lost (usedResultTxHashes).                                   *)
(***************************************************************************)
THEOREM OneResultReturned == Spec => []ReturnedOnce
<1>1. ASSUME IndexInv PROVE ReturnedOnce
  <2>1. usedResultTxHashes \ Lost \subseteq {resultBy}
    BY <1>1 DEF IndexInv, ChainsOK, Lost, Returned, Transactions
  <2>2. IsFiniteSet({resultBy}) /\ Cardinality({resultBy}) = 1
    BY FS_Singleton
  <2>3. Cardinality(usedResultTxHashes \ Lost) <= 1
    BY <2>1, <2>2, FS_Subset
  <2> QED
    BY <2>3 DEF ReturnedOnce
<1> QED
  BY <1>1, IndexInvariant, PTL

(***************************************************************************)
(* No write to the index takes its status to a lower rank, not even one    *)
(* decided on a stale copy (canTransition and the conditional update).     *)
(***************************************************************************)
THEOREM StatusNeverBackwards == Spec => NeverBackwards
<1>1. ASSUME IndexInv, [Next]_vars
      PROVE  [LifecycleRank[record'.status] >= LifecycleRank[record.status]]_vars
  <2>1. LifecycleRank[record.status] \in 1 .. 8
    BY <1>1, RankRange DEF IndexInv, RecordOK
  <2>2. CASE record'.status = record.status
    BY <2>1, <2>2
  <2>3. CASE record'.status # record.status
    <3>1. /\ record = [status |-> record.status,
                       genlayerTransaction |-> record.genlayerTransaction,
                       returnTransaction |-> record.returnTransaction,
                       result |-> record.result]
      BY <1>1 DEF IndexInv, RecordOK
    <3>2. PICK w \in Workers : RequireReview(w) \/ Transition(w)
      BY <1>1, <2>3, <3>1
      DEF Next, vars, Work, Crash, Chains, List, AcquireLease, LeaseBusy, ReleaseLease,
          ReadHub, Submit, RecordSubmission, MarkRelayed, MarkRelayedReverts, Poll,
          PersistResult, PersistedOnce, CheckReturn, ForwardResult, ForwardReverts,
          RecordReturn, ReadOnchain, Finish, LeaseExpires, HubDelivers,
          GenLayerFinalizes, BaseHandlesResult, BaseRetriesCallback
    <3>3. CASE RequireReview(w)
      BY <2>3, <3>1, <3>3, Ranks DEF RequireReview
    <3>4. CASE Transition(w)
      <4> DEFINE to == Head(worker[w].todo).to
      <4>1. canTransition(record.status, to) /\ record'.status = to
        BY <2>3, <3>1, <3>4 DEF Transition
      <4> HIDE DEF to
      <4>2. LifecycleRank[to] \in 1 .. 8
        BY <4>1, TransitionsGoUp, RankRange
      <4> QED
        BY <2>1, <4>1, <4>2, TransitionsGoUp
    <3> QED
      BY <3>2, <3>3, <3>4
  <2> QED
    BY <2>2, <2>3
<1> QED
  BY <1>1, IndexInvariant, PTL DEF Spec, NeverBackwards
=============================================================================
