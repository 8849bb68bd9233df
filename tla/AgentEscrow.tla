----------------------------- MODULE AgentEscrow -----------------------------
(***************************************************************************)
(* contracts/src/AgentEscrow.sol on top of the router: a client posts a    *)
(* bounty, a worker submits evidence, the client asks the gateway for a    *)
(* verdict, and the verdict's callback pays.  The escrow is an application *)
(* of the router and the callback of its own requests; the accounts it     *)
(* pays are contracts that run when they are paid and may call the escrow  *)
(* and the router again, or reject the payment.                            *)
(*                                                                         *)
(* The escrow's storage has a stack of its own, in step with the router's: *)
(* escrowFrames[i] is what the revert of frames[i] restores of it.         *)
(***************************************************************************)
EXTENDS GatewayRouter, FiniteSets

CONSTANTS
  Escrow,           \* the escrow's address, one of Applications
  Clients, Workers, \* accounts that post and take jobs
  Bounties,         \* amounts a client may post
  NoRequest,        \* the zero request id
  MaxJobs           \* bound: jobs posted

ASSUME EscrowConstants ==
  /\ Escrow \in Applications
  /\ Nobody \notin Clients \cup Workers
  /\ Bounties \subseteq Nat
  /\ NoRequest \notin RequestIds
  /\ MaxJobs \in Nat

VARIABLES
  jobs,                     \* the jobs posted; nextJobId is Len(jobs) + 1
  nextVerificationNonce,
  requestToJob,             \* [ids the escrow asked for -> job]
  transferLocked,
  escrowBalance,            \* wei the escrow holds
  paidTo,                   \* history: for each job, the accounts paid
  escrowFrames,             \* in step with frames
  escrowCommitted           \* the escrow's storage between transactions

escrowStore == <<jobs, nextVerificationNonce, requestToJob, transferLocked,
                 escrowBalance, paidTo>>
escrowVars == <<escrowStore, escrowFrames, escrowCommitted>>
vars == <<routerVars, escrowVars>>

EscrowStorage ==
  [jobs |-> jobs, nextVerificationNonce |-> nextVerificationNonce,
   requestToJob |-> requestToJob, transferLocked |-> transferLocked,
   escrowBalance |-> escrowBalance, paidTo |-> paidTo]

RestoreEscrow(s) ==
  /\ jobs' = s.jobs
  /\ nextVerificationNonce' = s.nextVerificationNonce
  /\ requestToJob' = s.requestToJob
  /\ transferLocked' = s.transferLocked
  /\ escrowBalance' = s.escrowBalance
  /\ paidTo' = s.paidTo

CommitEscrow ==
  escrowCommitted' = IF frames' = <<>> THEN EscrowStorage' ELSE escrowCommitted

EscrowTop == escrowFrames[Len(escrowFrames)]
EscrowPop == SubSeq(escrowFrames, 1, Len(escrowFrames) - 1)

Init ==
  /\ RouterInit
  /\ jobs = <<>>
  /\ nextVerificationNonce = 1
  /\ requestToJob = [id \in {} |-> 0]
  /\ transferLocked = FALSE
  /\ escrowBalance = 0
  /\ paidTo = <<>>
  /\ escrowFrames = <<>>
  /\ escrowCommitted = EscrowStorage

(***************************************************************************)
(* Who runs: the escrow's own code between the router's call of            *)
(* onGatewayResult and its payment, and otherwise code of others, or       *)
(* nobody.  Code of others may call any public function as any account,    *)
(* since the contracts it stands for may call each other.                  *)
(***************************************************************************)
InEscrow ==
  /\ InCallback
  /\ Top.request.callback = Escrow
  /\ ~EscrowTop.paying

OthersRun == ~InEscrow

-----------------------------------------------------------------------------
CreateJob(client, worker, bounty, deadline, policyHash) ==
  /\ OthersRun
  /\ ~paused
  /\ worker # Nobody
  /\ worker # client
  /\ policyHash # NoHash
  /\ bounty > 0
  /\ deadline > now
  /\ jobs' = Append(jobs,
       [client |-> client, worker |-> worker, bounty |-> bounty,
        deadline |-> deadline, status |-> "Created", requestId |-> NoRequest,
        policyHash |-> policyHash, evidenceHash |-> NoHash])
  /\ paidTo' = Append(paidTo, <<>>)
  /\ escrowBalance' = escrowBalance + bounty
  /\ UNCHANGED <<routerVars, nextVerificationNonce, requestToJob,
                 transferLocked, escrowFrames>>
  /\ CommitEscrow

SubmitEvidence(sender, j, evidenceHash) ==
  /\ OthersRun
  /\ sender = jobs[j].worker
  /\ jobs[j].status = "Created"
  /\ evidenceHash # NoHash
  /\ jobs' = [jobs EXCEPT ![j].evidenceHash = evidenceHash,
                          ![j].status = "EvidenceSubmitted"]
  /\ UNCHANGED <<routerVars, nextVerificationNonce, requestToJob,
                 transferLocked, escrowBalance, paidTo, escrowFrames>>
  /\ CommitEscrow

(***************************************************************************)
(* requestVerification: the escrow asks in its own name, with a nonce of   *)
(* its own; if the router rejects the request nothing of this happens.     *)
(***************************************************************************)
VerificationId(j, expiry) ==
  [requester |-> Escrow, callback |-> Escrow, nonce |-> nextVerificationNonce,
   expiry |-> expiry, policyHash |-> jobs[j].policyHash,
   evidenceHash |-> jobs[j].evidenceHash]

ExpiresInTime_Unbounded(j, expiry) == TRUE
ExpiresInTime(j, expiry) == expiry <= jobs[j].deadline

AwaitsVerification_Again(j) ==
  jobs[j].status \in {"EvidenceSubmitted", "VerificationPending"}
AwaitsVerification(j) == jobs[j].status = "EvidenceSubmitted"

NonceAfter_Kept == nextVerificationNonce
NonceAfter == nextVerificationNonce + 1

RequestVerification(sender, j, policyHash, expiry, value, deliveryFee) ==
  LET id == VerificationId(j, expiry)
  IN /\ OthersRun
     /\ sender = jobs[j].client
     /\ AwaitsVerification(j)
     /\ policyHash = jobs[j].policyHash
     /\ ExpiresInTime(j, expiry)
     /\ nextVerificationNonce <= MaxNonce
     /\ RequestDecision(id, value, deliveryFee)
     /\ nextVerificationNonce' = NonceAfter
     /\ jobs' = [jobs EXCEPT ![j].requestId = id,
                             ![j].status = "VerificationPending"]
     /\ requestToJob' = [q \in DOMAIN requestToJob \cup {id} |->
                           IF q = id THEN j ELSE requestToJob[q]]
     /\ UNCHANGED <<transferLocked, escrowBalance, paidTo, escrowFrames>>
     /\ CommitEscrow

-----------------------------------------------------------------------------
(***************************************************************************)
(* _pay, up to the transfer: the wei have left when the recipient runs.    *)
(***************************************************************************)
TransferIsFree_Always == TRUE
TransferIsFree == ~transferLocked

Pay(j, recipient) ==
  /\ TransferIsFree
  /\ jobs[j].bounty <= escrowBalance
  /\ transferLocked' = TRUE
  /\ escrowBalance' = escrowBalance - jobs[j].bounty
  /\ paidTo' = [paidTo EXCEPT ![j] = Append(@, recipient)]

(***************************************************************************)
(* onGatewayResult.  A callback the escrow does not accept reverts, and so *)
(* does every callback that runs out of its gas: EscrowCallbackReverts.    *)
(***************************************************************************)
AcceptsStatus(j) == jobs[j].status = "VerificationPending"

AcceptsResult(id) ==
  /\ InEscrow
  /\ id = Top.request
  /\ id \in DOMAIN requestToJob
  /\ AcceptsStatus(requestToJob[id])
  /\ jobs[requestToJob[id]].evidenceHash = id.evidenceHash
  /\ jobs[requestToJob[id]].policyHash = id.policyHash

OnVerdictWithPayment(id) ==
  LET j == requestToJob[id]
  IN /\ AcceptsResult(id)
     /\ \/ /\ requests[id].decision = "Pass"
           /\ jobs' = [jobs EXCEPT ![j].status = "Released"]
           /\ Pay(j, jobs[j].worker)
        \/ /\ requests[id].decision = "Fail"
           /\ jobs' = [jobs EXCEPT ![j].status = "Refunded"]
           /\ Pay(j, jobs[j].client)
     /\ escrowFrames' = [escrowFrames EXCEPT ![Len(escrowFrames)].paying = TRUE]
     /\ UNCHANGED <<routerVars, nextVerificationNonce, requestToJob,
                    escrowCommitted>>

OnVerdictUndetermined(id) ==
  /\ AcceptsResult(id)
  /\ requests[id].decision = "Undetermined"
  /\ jobs' = [jobs EXCEPT ![requestToJob[id]].status = "Undetermined"]
  /\ CallbackReturns
  /\ escrowFrames' = EscrowPop
  /\ UNCHANGED <<nextVerificationNonce, requestToJob, transferLocked,
                 escrowBalance, paidTo>>
  /\ CommitEscrow

(***************************************************************************)
(* The recipient of a payment made by the callback returns.                *)
(***************************************************************************)
LockAfterPay == FALSE

PaidCallbackReturns ==
  /\ InCallback
  /\ EscrowTop.paying
  /\ transferLocked' = LockAfterPay
  /\ CallbackReturns
  /\ escrowFrames' = EscrowPop
  /\ UNCHANGED <<jobs, nextVerificationNonce, requestToJob, escrowBalance,
                 paidTo>>
  /\ CommitEscrow

-----------------------------------------------------------------------------
IsParty(j, sender) == sender = jobs[j].client \/ sender = jobs[j].worker

Open == {"Created", "EvidenceSubmitted", "VerificationPending"}

StillUnanswered_Unchecked(j) == TRUE
StillUnanswered(j) ==
  jobs[j].status = "VerificationPending" =>
    requests[jobs[j].requestId].status = "Dispatched"

PastDeadline(j) == now > jobs[j].deadline

MarkTimedOut(sender, j) ==
  /\ OthersRun
  /\ IsParty(j, sender)
  /\ PastDeadline(j)
  /\ jobs[j].status \in Open
  /\ StillUnanswered(j)
  /\ jobs' = [jobs EXCEPT ![j].status = "TimedOut"]
  /\ UNCHANGED <<routerVars, nextVerificationNonce, requestToJob,
                 transferLocked, escrowBalance, paidTo, escrowFrames>>
  /\ CommitEscrow

Refundable_AnyStatus(j) == PastDeadline(j)
Refundable_AfterAVerdict(j) == jobs[j].status = "Undetermined" /\ PastDeadline(j)
Refundable(j) ==
  \/ jobs[j].status = "TimedOut"
  \/ jobs[j].status = "Undetermined" /\ PastDeadline(j)

RefundTimedOut(sender, j) ==
  /\ OthersRun
  /\ Len(frames) < MaxDepth
  /\ sender = jobs[j].client
  /\ Refundable(j)
  /\ jobs' = [jobs EXCEPT ![j].status = "Refunded"]
  /\ Pay(j, jobs[j].client)
  /\ frames' = Append(frames, [kind |-> "refund", job |-> j, saved |-> Storage])
  /\ escrowFrames' =
       Append(escrowFrames, [paying |-> TRUE, saved |-> EscrowStorage])
  /\ UNCHANGED <<requests, deliveries, latestNonce, accruedFees, balance,
                 admin, now, committed, nextVerificationNonce, requestToJob,
                 escrowCommitted>>

InRefund == ~AtRest /\ Top.kind = "refund"

RefundReturns ==
  /\ InRefund
  /\ transferLocked' = LockAfterPay
  /\ frames' = Pop
  /\ escrowFrames' = EscrowPop
  /\ UNCHANGED <<requests, deliveries, latestNonce, accruedFees, balance,
                 admin, now, jobs, nextVerificationNonce, requestToJob,
                 escrowBalance, paidTo>>
  /\ Commit
  /\ CommitEscrow

RefundReverts ==
  /\ InRefund
  /\ Restore(Top.saved)
  /\ RestoreEscrow(EscrowTop.saved)
  /\ frames' = Pop
  /\ escrowFrames' = EscrowPop
  /\ UNCHANGED <<admin, now>>
  /\ Commit
  /\ CommitEscrow

-----------------------------------------------------------------------------
(***************************************************************************)
(* The router's steps, and what they leave of the escrow.                  *)
(***************************************************************************)
EscrowUntouched ==
  /\ UNCHANGED <<escrowStore, escrowFrames>>
  /\ CommitEscrow

OthersAskRouter ==
  /\ OthersRun
  /\ \E id \in RequestIds, deliveryFee \in 0 .. RequestFee :
        id.requester # Escrow /\ RequestDecision(id, RequestFee, deliveryFee)
  /\ EscrowUntouched

EscrowMayBeCalled ==
  /\ escrowFrames' =
       Append(escrowFrames, [paying |-> FALSE, saved |-> EscrowStorage])
  /\ UNCHANGED <<escrowStore, escrowCommitted>>

ResultArrives(id) ==
  /\ OthersRun
  /\ \E sender \in Receivers, d \in Verdicts, h \in ResultHashes :
        HandleResult(sender, id, d, id.policyHash, id.evidenceHash, h)
  /\ EscrowMayBeCalled

CallbackRetried(id) ==
  /\ OthersRun
  /\ RetryCallback(id)
  /\ EscrowMayBeCalled

ForeignCallbackReturns ==
  /\ InCallback
  /\ Top.request.callback # Escrow
  /\ CallbackReturns
  /\ escrowFrames' = EscrowPop
  /\ UNCHANGED escrowStore
  /\ CommitEscrow

AnyCallbackReverts ==
  /\ CallbackReverts
  /\ RestoreEscrow(EscrowTop.saved)
  /\ escrowFrames' = EscrowPop
  /\ CommitEscrow

FeesWithdrawn ==
  \/ /\ \E sender \in Owners : WithdrawFees(sender)
     /\ EscrowMayBeCalled
  \/ /\ WithdrawReturns
     /\ escrowFrames' = EscrowPop
     /\ UNCHANGED escrowStore
     /\ CommitEscrow
  \/ /\ WithdrawReverts
     /\ RestoreEscrow(EscrowTop.saved)
     /\ escrowFrames' = EscrowPop
     /\ CommitEscrow

AbortAll ==
  /\ Abort
  /\ RestoreEscrow(escrowCommitted)
  /\ escrowFrames' = <<>>
  /\ UNCHANGED escrowCommitted

RouterAdministered ==
  /\ \E sender \in Owners :
       \/ \E r \in Receivers : SetResultReceiver(sender, r)
       \/ \E p \in BOOLEAN : SetPaused(sender, p)
  /\ EscrowUntouched

TimePasses == Tick /\ EscrowUntouched

-----------------------------------------------------------------------------
JobIds == 1 .. Len(jobs)

IsHeld(job) == job.status \notin {"Released", "Refunded"}

PostsJobs ==
  /\ Len(jobs) < MaxJobs
  /\ \E c \in Clients, w \in Workers, b \in Bounties, d \in 1 .. MaxTime - 1,
        p \in Policies : CreateJob(c, w, b, d, p)

WorksOn(j) ==
  \/ \E w \in Workers, e \in Evidence : SubmitEvidence(w, j, e)
  \/ \E c \in Clients, p \in Policies, t \in Times, fee \in 0 .. RequestFee :
        RequestVerification(c, j, p, t, RequestFee, fee)
  \/ \E a \in Clients \cup Workers : MarkTimedOut(a, j)
  \/ \E c \in Clients : RefundTimedOut(c, j)

Next ==
  \/ PostsJobs
  \/ \E j \in JobIds : WorksOn(j)
  \/ \E id \in DOMAIN requests : OnVerdictWithPayment(id)
  \/ \E id \in DOMAIN requests : OnVerdictUndetermined(id)
  \/ PaidCallbackReturns
  \/ RefundReturns
  \/ RefundReverts
  \/ OthersAskRouter
  \/ \E id \in DOMAIN committed.requests : ResultArrives(id)
  \/ \E id \in DOMAIN requests : CallbackRetried(id)
  \/ ForeignCallbackReturns
  \/ AnyCallbackReverts
  \/ FeesWithdrawn
  \/ AbortAll
  \/ RouterAdministered
  \/ TimePasses

Spec == Init /\ [][Next]_vars

(***************************************************************************)
(* What the parties of a job need of the world for it to end: each call    *)
(* ends, because gas is finite; time passes; a client who may call         *)
(* markTimedOut, refundTimedOut or (anybody) retryCallback does so in the  *)
(* end, and not only inside a callback, where it may be rolled back; and   *)
(* who is then paid again and again, with enough gas, accepts in the end.  *)
(* Others may act, nest calls and fail payments and transactions, for ever. *)
(***************************************************************************)
AtDepth(n) == Len(frames) = n

SomeCallEnds == Next /\ Len(frames') < Len(frames)

ResolvesFor(j) ==
  \/ OnVerdictWithPayment(jobs[j].requestId)
  \/ OnVerdictUndetermined(jobs[j].requestId)

AcceptsFor(j) ==
  \/ InCallback /\ Top.request = jobs[j].requestId /\ PaidCallbackReturns
  \/ InRefund /\ Top.job = j /\ RefundReturns

Fairness ==
  /\ SF_vars(TimePasses)
  /\ \A n \in 1 .. MaxDepth : SF_vars(AtDepth(n) /\ SomeCallEnds)
  /\ \A j \in 1 .. MaxJobs :
        /\ SF_vars(AtDepth(0) /\ j \in JobIds /\ \E c \in Clients : MarkTimedOut(c, j))
        /\ SF_vars(AtDepth(0) /\ j \in JobIds /\ \E c \in Clients : RefundTimedOut(c, j))
        /\ SF_vars(AtDepth(0) /\ j \in JobIds /\ CallbackRetried(jobs[j].requestId))
        /\ SF_vars(AtDepth(1) /\ j \in JobIds /\ ResolvesFor(j))
        /\ SF_vars(AtDepth(1) /\ j \in JobIds /\ AcceptsFor(j))

FairSpec == Spec /\ Fairness

-----------------------------------------------------------------------------
(***************************************************************************)
(* Properties.                                                             *)
(***************************************************************************)
JobStatus == Open \cup {"Released", "Refunded", "Undetermined", "TimedOut"}

Job ==
  [client : Clients, worker : Workers, bounty : Bounties, deadline : Times,
   status : JobStatus, requestId : RequestIds \cup {NoRequest},
   policyHash : Policies, evidenceHash : Evidence \cup {NoHash}]

IsEscrowStorage(s) ==
  /\ s.jobs \in Seq(Job)
  /\ s.nextVerificationNonce \in 1 .. MaxNonce + 1
  /\ DOMAIN s.requestToJob \subseteq RequestIds
  /\ \A id \in DOMAIN s.requestToJob : s.requestToJob[id] \in 1 .. Len(s.jobs)
  /\ s.transferLocked \in BOOLEAN
  /\ s.escrowBalance \in Nat
  /\ Len(s.paidTo) = Len(s.jobs)

(* The type invariant: both storages, and the two stacks in step. *)
TypeOK ==
  /\ RouterTypeOK
  /\ IsEscrowStorage(EscrowStorage)
  /\ IsEscrowStorage(escrowCommitted)
  /\ Len(escrowFrames) = Len(frames)
  /\ \A i \in DOMAIN escrowFrames :
        /\ IsEscrowStorage(escrowFrames[i].saved)
        /\ escrowFrames[i].paying \in BOOLEAN

(***************************************************************************)
(* The escrow holds exactly the bounties it still owes, also while a       *)
(* recipient runs and whatever it calls (createJob, _pay).                 *)
(***************************************************************************)
Due(job) == IF IsHeld(job) THEN job.bounty ELSE 0

Owed(js) ==
  LET owedFor[n \in 0 .. Len(js)] ==
        IF n = 0 THEN 0 ELSE owedFor[n - 1] + Due(js[n])
  IN owedFor[Len(js)]

HoldsWhatItOwes == escrowBalance = Owed(jobs)

(***************************************************************************)
(* A bounty is paid at most once, to the party its job's status names      *)
(* (onGatewayResult, refundTimedOut, _pay).                                *)
(***************************************************************************)
PaidAsResolved ==
  \A j \in JobIds :
    paidTo[j] = CASE jobs[j].status = "Released" -> <<jobs[j].worker>>
                  [] jobs[j].status = "Refunded" -> <<jobs[j].client>>
                  [] OTHER -> <<>>

(***************************************************************************)
(* The two contracts agree between transactions.  A verdict whose callback *)
(* took effect has decided the job; one whose callback failed finds the    *)
(* job still waiting, so that retryCallback can succeed; and a job that    *)
(* was given up while its request was unanswered is out of reach of a late *)
(* verdict, because the request has expired (expiry <= deadline in         *)
(* requestVerification, the Dispatched check in markTimedOut, the expiry   *)
(* check in handleResult).                                                 *)
(***************************************************************************)
Outcomes(decision) ==
  CASE decision = "Pass" -> {"Released"}
    [] decision = "Fail" -> {"Refunded"}
    [] OTHER -> {"Undetermined", "Refunded"}

JobAgreesWithRequest(job, r) ==
  /\ r.status = "CallbackExecuted" => job.status \in Outcomes(r.decision)
  /\ r.status = "CallbackPending" => job.status = "VerificationPending"
  /\ r.status = "Dispatched" =>
        \/ job.status = "VerificationPending"
        \/ job.status \in {"TimedOut", "Refunded"} /\ now > job.requestId.expiry

ContractsAgree ==
  \A j \in DOMAIN escrowCommitted.jobs :
    LET job == escrowCommitted.jobs[j]
    IN job.requestId # NoRequest =>
         JobAgreesWithRequest(job, committed.requests[job.requestId])

(***************************************************************************)
(* The escrow's nonce is the next one the router accepts from it, whatever *)
(* was rolled back: otherwise every later requestVerification would revert *)
(* as a duplicate.  (nextVerificationNonce++ before requestDecision.)      *)
(***************************************************************************)
NonceInStep == nextVerificationNonce = latestNonce[Escrow] + 1

(***************************************************************************)
(* Every request the router stores for the escrow belongs to exactly one   *)
(* job, which names it; a request others made with the escrow as callback  *)
(* belongs to none.                                                        *)
(***************************************************************************)
RequestsBelongToJobs ==
  /\ DOMAIN requestToJob = {id \in DOMAIN requests : id.requester = Escrow}
  /\ \A id \in DOMAIN requestToJob : jobs[requestToJob[id]].requestId = id
  /\ \A j \in JobIds : jobs[j].requestId # NoRequest =>
        requestToJob[jobs[j].requestId] = j

(***************************************************************************)
(* transferLocked is set exactly while one payment is in progress: two     *)
(* never overlap, and no lock is left behind to block every later payment. *)
(***************************************************************************)
OnePaymentAtATime ==
  LET payments == {i \in DOMAIN escrowFrames : escrowFrames[i].paying}
  IN /\ transferLocked <=> payments # {}
     /\ Cardinality(payments) <= 1

(***************************************************************************)
(* No bounty is held for ever: whatever the parties and the gateway did or *)
(* failed to do, some sequence of markTimedOut, refundTimedOut and         *)
(* retryCallback gets it out, if its recipient accepts it in the end.      *)
(***************************************************************************)
EveryBountySettles ==
  \A j \in 1 .. MaxJobs :
    j \in DOMAIN escrowCommitted.jobs
      ~> j \in DOMAIN escrowCommitted.jobs /\ ~IsHeld(escrowCommitted.jobs[j])

(***************************************************************************)
(* What is visible between transactions implements Settlement.             *)
(***************************************************************************)
CustodyOf(job) ==
  CASE job.status = "Released" -> "Worker"
    [] job.status = "Refunded" -> "Client"
    [] OTHER -> "Held"

VerdictOn(job) ==
  IF job.requestId = NoRequest
  THEN "None"
  ELSE committed.requests[job.requestId].decision

Settled == INSTANCE Settlement WITH
  jobsPosted <- [j \in DOMAIN escrowCommitted.jobs |->
                   [deadline |-> escrowCommitted.jobs[j].deadline]],
  custody <- [j \in DOMAIN escrowCommitted.jobs |->
                CustodyOf(escrowCommitted.jobs[j])],
  verdict <- [j \in DOMAIN escrowCommitted.jobs |->
                VerdictOn(escrowCommitted.jobs[j])],
  clock <- now

ImplementsSettlement == Settled!SettlementSpec
=============================================================================
