------------------------------ MODULE Reconciler ------------------------------
(***************************************************************************)
(* apps/web/lib/services/reconcile.ts and bridge-relay.ts over the MongoDB *)
(* index (lib/db): serverless invocations carry one request from Base      *)
(* through GenLayer and back, each working from a copy of the record it    *)
(* read before it took the lease.                                          *)
(*                                                                         *)
(* A step of a worker is what it does between two awaits that matter to    *)
(* others.  A worker may die at any step (maxDuration, a cold start that   *)
(* fails), and then its lease stays until MongoDB's TTL index removes it.  *)
(* GenLayer, the hub and Base are external: their contracts appear as far  *)
(* as the relay calls them.  The delay scheduleRetry sets is left out:     *)
(* a record that is not complete becomes due again.                        *)
(***************************************************************************)
EXTENDS Naturals, Sequences, FiniteSets

CONSTANTS
  Workers,          \* invocations of /api/v1/reconcile in progress at once
  Nobody,           \* holder of a lease that is not taken
  MaxSubmissions,   \* bound: adjudicate transactions
  MaxCrashes,       \* bound: workers that die
  ExecutionMayFail, \* may a GenLayer execution end in an error by itself?
  StateMayBeLost    \* may one return without a result that can be read?

ASSUME ReconcilerConstants ==
  /\ Nobody \notin Workers
  /\ MaxSubmissions \in Nat
  /\ MaxCrashes \in Nat
  /\ ExecutionMayFail \in BOOLEAN
  /\ StateMayBeLost \in BOOLEAN

VARIABLES
  record,           \* the document in `requests'
  lease,            \* who inserted the document in `leases'
  worker,           \* [Workers -> what an invocation holds in memory]
  submissions,      \* the adjudicate transactions and how they ended
  resultBy,         \* the transaction that stored the result; 0 for none
  delivered,        \* has LayerZero delivered the request to the hub?
  relayed,          \* relayed flag of the hub's message
  usedResultTxHashes, \* transactions the hub forwarded a result of
  onchain,          \* status of the request in the router
  crashes           \* workers that died

bridge == <<submissions, resultBy, delivered, relayed, usedResultTxHashes, onchain>>
vars == <<record, lease, worker, bridge, crashes>>

-----------------------------------------------------------------------------
(***************************************************************************)
(* packages/protocol: the lifecycle and its transitions.                   *)
(***************************************************************************)
RequestStatus ==
  {"DISPATCHED", "DELIVERED", "ADJUDICATING", "REQUIRES_REVIEW", "FINALIZED",
   "RETURN_DISPATCHED", "RETURNED", "CALLBACK_PENDING", "CALLBACK_EXECUTED"}

(* FAILED and TIMED_OUT are in the source's table, but no code enters them. *)
AllowedTransitions ==
  {<<"DISPATCHED", "DELIVERED">>, <<"DELIVERED", "ADJUDICATING">>,
   <<"ADJUDICATING", "REQUIRES_REVIEW">>, <<"ADJUDICATING", "FINALIZED">>,
   <<"REQUIRES_REVIEW", "ADJUDICATING">>, <<"FINALIZED", "RETURN_DISPATCHED">>,
   <<"RETURN_DISPATCHED", "RETURNED">>, <<"RETURNED", "CALLBACK_PENDING">>,
   <<"RETURNED", "CALLBACK_EXECUTED">>,
   <<"CALLBACK_PENDING", "CALLBACK_EXECUTED">>}

LifecycleRank ==
  [s \in RequestStatus |->
     CASE s = "DISPATCHED" -> 1 [] s = "DELIVERED" -> 2
       [] s \in {"ADJUDICATING", "REQUIRES_REVIEW"} -> 3
       [] s = "FINALIZED" -> 4 [] s = "RETURN_DISPATCHED" -> 5
       [] s = "RETURNED" -> 6 [] s = "CALLBACK_PENDING" -> 7
       [] OTHER -> 8]

(* A status of the router is caught up with along the states up to it, in  *)
(* the order of their ranks.                                               *)
Lifecycle ==
  <<"DISPATCHED", "DELIVERED", "ADJUDICATING", "FINALIZED",
    "RETURN_DISPATCHED", "RETURNED", "CALLBACK_PENDING", "CALLBACK_EXECUTED">>

CatchUpPath_OneTooFar(target) ==
  SubSeq(Lifecycle, 1, IF target = "CALLBACK_EXECUTED" THEN LifecycleRank[target]
                       ELSE LifecycleRank[target] + 1)

CatchUpPath(target) == SubSeq(Lifecycle, 1, LifecycleRank[target])

(* A status that is not on the path, REQUIRES_REVIEW, leaves all of it to do. *)
RemainingPath(target, status) ==
  LET path == CatchUpPath(target)
  IN IF \E i \in DOMAIN path : path[i] = status
     THEN SubSeq(path, LifecycleRank[status] + 1, Len(path))
     ELSE path

(***************************************************************************)
(* A transition a worker has to do.  advanceToAdjudicating, -Finalized and *)
(* the end of reconcileBridgeRequest go on only from the state they found  *)
(* (`from'); the catch-up insists on every state of its path.              *)
(***************************************************************************)
Only(from, to) == [from |-> {from}, to |-> to]
Always(to) == [from |-> RequestStatus, to |-> to]

ToAdjudicating ==
  <<Only("DISPATCHED", "DELIVERED"), Only("DELIVERED", "ADJUDICATING")>>
ToFinalized == Append(ToAdjudicating, Only("ADJUDICATING", "FINALIZED"))
ToReturnDispatched == <<Only("FINALIZED", "RETURN_DISPATCHED")>>

-----------------------------------------------------------------------------
NoCandidate == [status |-> "DISPATCHED", tx |-> 0]

Idle ==
  [pc |-> "idle", candidate |-> NoCandidate, tx |-> 0, relayed |-> FALSE,
   todo |-> <<>>, next |-> "idle"]

Init ==
  /\ record = [status |-> "DISPATCHED", genlayerTransaction |-> 0,
               returnTransaction |-> 0, result |-> 0]
  /\ lease = Nobody
  /\ worker = [w \in Workers |-> Idle]
  /\ submissions = <<>>
  /\ resultBy = 0
  /\ delivered = FALSE
  /\ relayed = FALSE
  /\ usedResultTxHashes = {}
  /\ onchain = "DISPATCHED"
  /\ crashes = 0

At(w, pc) == worker[w].pc = pc

GoTo(w, pc) == worker' = [worker EXCEPT ![w].pc = pc]

(* Nothing of what it holds in memory matters once it gives the lease back. *)
Stopped == [Idle EXCEPT !.pc = "release"]
Stop(w) == worker' = [worker EXCEPT ![w] = Stopped]

(* Goes through the transitions `todo' before it continues at `next'. *)
Transiting(w, todo, next) ==
  [worker[w] EXCEPT
     !.pc = IF todo = <<>> THEN next ELSE "transit",
     !.next = IF todo = <<>> THEN "idle" ELSE next,
     !.todo = todo, !.relayed = FALSE]
Transit(w, todo, next) ==
  worker' = [worker EXCEPT ![w] = Transiting(w, todo, next)]

(***************************************************************************)
(* w goes on as `after'.  If it changed the record's status, the others    *)
(* that had read the status it replaced (`late') match no document with    *)
(* their own conditional update, and throw.                                *)
(***************************************************************************)
Overtaking(w, after) ==
  \E late \in SUBSET {o \in Workers \ {w} : worker[o].pc \in {"transit", "noresult"}} :
    /\ late # {} => record'.status # record.status
    /\ worker' = [v \in Workers |-> IF v = w THEN after
                                    ELSE IF v \in late THEN Stopped ELSE worker[v]]

-----------------------------------------------------------------------------
(***************************************************************************)
(* reconcileRequests: the candidate is read here, the lease is taken later. *)
(***************************************************************************)
List(w) ==
  /\ At(w, "idle")
  /\ record.status # "CALLBACK_EXECUTED"
  /\ worker' = [worker EXCEPT ![w].pc = "listed",
                  ![w].candidate = [status |-> record.status,
                                    tx |-> record.genlayerTransaction]]
  /\ UNCHANGED <<record, lease, bridge, crashes>>

(* leases.insertOne: the unique _id refuses a lease that is taken. *)
LeaseIsFree == lease = Nobody

AcquireLease(w) ==
  /\ At(w, "listed")
  /\ LeaseIsFree
  /\ lease' = w
  /\ GoTo(w, "bridge")
  /\ UNCHANGED <<record, bridge, crashes>>

LeaseBusy(w) ==
  /\ At(w, "listed")
  /\ ~LeaseIsFree
  /\ worker' = [worker EXCEPT ![w] = Idle]
  /\ UNCHANGED <<record, lease, bridge, crashes>>

(* `finally' deletes the lease by its key, whoever holds it by then. *)
LeaseAfterWork(w) == Nobody

ReleaseLease(w) ==
  /\ At(w, "release")
  /\ lease' = LeaseAfterWork(w)
  /\ worker' = [worker EXCEPT ![w] = Idle]
  /\ UNCHANGED <<record, bridge, crashes>>

-----------------------------------------------------------------------------
(***************************************************************************)
(* reconcileBridgeRequest.                                                 *)
(***************************************************************************)
MustSubmit(candidate) ==
  candidate.status = "REQUIRES_REVIEW" \/ candidate.tx = 0

ReadHub(w) ==
  /\ At(w, "bridge")
  /\ worker' = [worker EXCEPT
       ![w].relayed = relayed,
       ![w].tx = worker[w].candidate.tx,
       ![w].candidate.tx = 0,
       ![w].pc = IF ~delivered THEN "onchain"
                 ELSE IF MustSubmit(worker[w].candidate) THEN "submit"
                 ELSE "poll"]
  /\ UNCHANGED <<record, lease, bridge, crashes>>

(* writeContract(adjudicate): nothing but the candidate decided on it. *)
Submit(w) ==
  /\ At(w, "submit")
  /\ Len(submissions) < MaxSubmissions
  /\ submissions' = Append(submissions, "pending")
  /\ worker' = [worker EXCEPT ![w].tx = Len(submissions) + 1,
                              ![w].pc = "record"]
  /\ UNCHANGED <<record, lease, resultBy, delivered, relayed,
                 usedResultTxHashes, onchain, crashes>>

MustMark_Never(w) == FALSE
MustMark(w) == ~worker[w].relayed

RecordSubmission(w) ==
  /\ At(w, "record")
  /\ record' = [record EXCEPT !.genlayerTransaction = worker[w].tx]
  /\ IF worker[w].candidate.status = "REQUIRES_REVIEW"
     THEN Transit(w, <<Always("ADJUDICATING")>>, "onchain")
     ELSE IF MustMark(w) THEN GoTo(w, "mark")
     ELSE Transit(w, ToAdjudicating, "onchain")
  /\ UNCHANGED <<lease, bridge, crashes>>

(* The hub's markRelayed reverts for a message that is already marked: the *)
(* gas estimate throws, or the receipt, whose status nobody reads, is that *)
(* of a reverted transaction.                                              *)
MarkRelayed(w) ==
  /\ At(w, "mark")
  /\ ~relayed
  /\ relayed' = TRUE
  /\ Transit(w, ToAdjudicating, "onchain")
  /\ UNCHANGED <<record, lease, submissions, resultBy, delivered,
                 usedResultTxHashes, onchain, crashes>>

MarkRelayedReverts(w) ==
  /\ At(w, "mark")
  /\ relayed
  /\ Stop(w) \/ Transit(w, ToAdjudicating, "onchain")
  /\ UNCHANGED <<record, lease, bridge, crashes>>

(* A finalized transaction says whether it returned; what it stored is     *)
(* read from the adjudicator by request, not by transaction.               *)
ResultIsReadable_Unchecked == TRUE
ResultIsReadable == resultBy # 0

ExecutionReturned_Finalized(tx) == submissions[tx] # "pending"
ExecutionReturned(tx) == submissions[tx] = "returned"

Poll(w) ==
  /\ At(w, "poll")
  /\ LET tx == worker[w].tx
     IN CASE submissions[tx] = "pending" -> GoTo(w, "onchain")
          [] submissions[tx] # "pending" /\ ~ExecutionReturned(tx) -> Stop(w)
          [] ExecutionReturned(tx) /\ ~ResultIsReadable -> GoTo(w, "noresult")
          [] OTHER -> Transit(w, ToFinalized, "persist")
  /\ UNCHANGED <<record, lease, bridge, crashes>>

(* The catch of NoResultFinalizedError. *)
RequireReview(w) ==
  /\ At(w, "noresult")
  /\ record' = IF record.status = "ADJUDICATING"
               THEN [record EXCEPT !.status = "REQUIRES_REVIEW"] ELSE record
  /\ Overtaking(w, Stopped)
  /\ UNCHANGED <<lease, bridge, crashes>>

PersistedOnce(tx) ==
  IF record.result = 0 THEN [record EXCEPT !.result = tx] ELSE record

PersistResult(w) ==
  /\ At(w, "persist")
  /\ record' = PersistedOnce(worker[w].tx)
  /\ GoTo(w, "return")
  /\ UNCHANGED <<lease, bridge, crashes>>

NotForwarded(tx) == tx \notin usedResultTxHashes

CheckReturn(w) ==
  /\ At(w, "return")
  /\ IF record.returnTransaction # 0
     THEN Transit(w, ToReturnDispatched, "onchain")
     ELSE IF NotForwarded(worker[w].tx) THEN GoTo(w, "forward")
     ELSE GoTo(w, "onchain")
  /\ UNCHANGED <<record, lease, bridge, crashes>>

(* The forwarder takes one result per transaction, of a relayed message.   *)
(* Here too a transaction that reverts only when it is mined goes unseen.  *)
HubTakesResult(tx) == relayed /\ NotForwarded(tx)

ForwardResult(w) ==
  /\ At(w, "forward")
  /\ HubTakesResult(worker[w].tx)
  /\ usedResultTxHashes' = usedResultTxHashes \cup {worker[w].tx}
  /\ GoTo(w, "recordReturn")
  /\ UNCHANGED <<record, lease, submissions, resultBy, delivered, relayed,
                 onchain, crashes>>

ForwardReverts(w) ==
  /\ At(w, "forward")
  /\ ~HubTakesResult(worker[w].tx)
  /\ Stop(w) \/ (~NotForwarded(worker[w].tx) /\ GoTo(w, "recordReturn"))
  /\ UNCHANGED <<record, lease, bridge, crashes>>

RecordReturn(w) ==
  /\ At(w, "recordReturn")
  /\ record' = [record EXCEPT !.genlayerTransaction = worker[w].tx,
                              !.returnTransaction = worker[w].tx]
  /\ Transit(w, ToReturnDispatched, "onchain")
  /\ UNCHANGED <<lease, bridge, crashes>>

-----------------------------------------------------------------------------
(***************************************************************************)
(* transitionRequest: a status equal to the record's is passed over, one   *)
(* the table does not allow throws, and so does one that another           *)
(* invocation overtook between its read and its conditional update.        *)
(***************************************************************************)
canTransition_Always(from, to) == TRUE
canTransition(from, to) == <<from, to>> \in AllowedTransitions

Transition(w) ==
  /\ At(w, "transit")
  /\ LET step == Head(worker[w].todo)
         skip == record.status = step.to \/ record.status \notin step.from
         allowed == canTransition(record.status, step.to)
     IN /\ record' = IF ~skip /\ allowed
                     THEN [record EXCEPT !.status = step.to] ELSE record
        /\ Overtaking(w, IF skip \/ allowed
                         THEN Transiting(w, Tail(worker[w].todo), worker[w].next)
                         ELSE Stopped)
  /\ UNCHANGED <<lease, bridge, crashes>>

-----------------------------------------------------------------------------
(***************************************************************************)
(* The rest of reconcileRequests: the index catches up with the router.    *)
(* Whether it has to is decided on the candidate's status.                 *)
(***************************************************************************)
IsBehind_ByMore(status, target) ==
  LifecycleRank[target] > LifecycleRank[status] + 1
IsBehind(status, target) == LifecycleRank[target] > LifecycleRank[status]

ReadOnchain(w) ==
  /\ At(w, "onchain")
  /\ LET behind == worker[w].candidate.status
         path == IF IsBehind(behind, onchain)
                 THEN RemainingPath(onchain, behind) ELSE <<>>
     IN Transit(w, [i \in DOMAIN path |-> Always(path[i])],
                IF onchain = "DISPATCHED" THEN "release" ELSE "finish")
  /\ UNCHANGED <<record, lease, bridge, crashes>>

(* The router's own result stands in for one the index never read. *)
Finish(w) ==
  /\ At(w, "finish")
  /\ record' = PersistedOnce(resultBy)
  /\ Stop(w)
  /\ UNCHANGED <<lease, bridge, crashes>>

-----------------------------------------------------------------------------
(***************************************************************************)
(* What happens around the workers.  Crash stands for any end without the  *)
(* `finally' and, with LeaseExpires after it, for an await that throws.    *)
(***************************************************************************)
Crash(w) ==
  /\ ~At(w, "idle")
  /\ crashes < MaxCrashes
  /\ crashes' = crashes + 1
  /\ worker' = [worker EXCEPT ![w] = Idle]
  /\ UNCHANGED <<record, lease, bridge>>

(* The TTL index: 45 seconds, where an invocation may last 60. *)
LeaseExpires ==
  /\ lease # Nobody
  /\ lease' = Nobody
  /\ UNCHANGED <<record, worker, bridge, crashes>>

HubDelivers ==
  /\ ~delivered
  /\ delivered' = TRUE
  /\ UNCHANGED <<record, lease, worker, submissions, resultBy, relayed,
                 usedResultTxHashes, onchain, crashes>>

(* gateway_adjudicator.py: a request that has a result raises, any other   *)
(* execution that returns stored one.                                      *)
GenLayerFinalizes ==
  \E tx \in DOMAIN submissions :
    /\ submissions[tx] = "pending"
    /\ \/ /\ resultBy = 0
          /\ submissions' = [submissions EXCEPT ![tx] = "returned"]
          /\ resultBy' = tx
       \/ /\ resultBy # 0 \/ ExecutionMayFail
          /\ submissions' = [submissions EXCEPT ![tx] = "failed"]
          /\ UNCHANGED resultBy
       \/ /\ StateMayBeLost
          /\ submissions' = [submissions EXCEPT ![tx] = "returned"]
          /\ UNCHANGED resultBy
    /\ UNCHANGED <<record, lease, worker, delivered, relayed,
                   usedResultTxHashes, onchain, crashes>>

(* LayerZero delivers the result, the router tries the callback. *)
BaseHandlesResult ==
  /\ usedResultTxHashes # {} /\ onchain = "DISPATCHED"
  /\ onchain' \in {"CALLBACK_PENDING", "CALLBACK_EXECUTED"}
  /\ UNCHANGED <<record, lease, worker, submissions, resultBy, delivered,
                 relayed, usedResultTxHashes, crashes>>

BaseRetriesCallback ==
  /\ onchain = "CALLBACK_PENDING"
  /\ onchain' = "CALLBACK_EXECUTED"
  /\ UNCHANGED <<record, lease, worker, submissions, resultBy, delivered,
                 relayed, usedResultTxHashes, crashes>>

-----------------------------------------------------------------------------
Work(w) ==
  \/ List(w) \/ AcquireLease(w) \/ LeaseBusy(w) \/ ReleaseLease(w)
  \/ ReadHub(w) \/ Submit(w) \/ RecordSubmission(w)
  \/ MarkRelayed(w) \/ MarkRelayedReverts(w)
  \/ Poll(w) \/ RequireReview(w) \/ PersistResult(w)
  \/ CheckReturn(w) \/ ForwardResult(w) \/ ForwardReverts(w) \/ RecordReturn(w)
  \/ Transition(w) \/ ReadOnchain(w) \/ Finish(w)

Chains ==
  HubDelivers \/ GenLayerFinalizes \/ BaseHandlesResult \/ BaseRetriesCallback

Next ==
  \/ \E w \in Workers : Work(w) \/ Crash(w)
  \/ LeaseExpires
  \/ Chains

Spec == Init /\ [][Next]_vars

(* The cron job calls the reconciler again and again, an invocation that   *)
(* does not die goes on, the TTL index is swept, the chains make progress. *)
FairSpec ==
  /\ Spec
  /\ \A w \in Workers : WF_vars(Work(w))
  /\ WF_vars(LeaseExpires)
  /\ WF_vars(HubDelivers)
  /\ WF_vars(GenLayerFinalizes)
  /\ WF_vars(BaseHandlesResult)
  /\ WF_vars(BaseRetriesCallback)

-----------------------------------------------------------------------------
AtLeast(status) == LifecycleRank[record.status] >= LifecycleRank[status]

(* The index never runs ahead of the chains: a status it shows, and a      *)
(* result or a return transaction it holds, is backed by what happened     *)
(* there, whatever stale candidates its writers worked from.               *)
StatusIsBacked ==
  /\ AtLeast("ADJUDICATING") => delivered /\ submissions # <<>>
  /\ AtLeast("FINALIZED") => resultBy # 0
  /\ AtLeast("RETURN_DISPATCHED") => usedResultTxHashes # {}
  /\ AtLeast("CALLBACK_PENDING") => onchain # "DISPATCHED"
  /\ AtLeast("CALLBACK_EXECUTED") => onchain = "CALLBACK_EXECUTED"
  /\ record.returnTransaction \in usedResultTxHashes \cup {0}
  /\ record.result # 0 => resultBy # 0

(* "A finalized GenLayer transaction with no stored result never produces  *)
(* a return message": what is forwarded was read from a stored result, of  *)
(* a request that was relayed.                                             *)
NoReturnWithoutResult ==
  usedResultTxHashes # {} => resultBy # 0 /\ relayed

(* Workers that race send one result back: the transaction that stored it, *)
(* which alone does not finalize with an error, and apart from it only one *)
(* that GenLayer had reported as returned although its result was lost.    *)
Lost == {tx \in DOMAIN submissions : submissions[tx] = "returned" /\ tx # resultBy}

ReturnedOnce == Cardinality(usedResultTxHashes \ Lost) <= 1

(* What the index says of one request never runs backwards past a review.  *)
NeverBackwards ==
  [][LifecycleRank[record'.status] >= LifecycleRank[record.status]]_vars

(* A verdict is sent back to Base in the end ("This architecture provides  *)
(* recoverability", docs/ARCHITECTURE.md:43).                              *)
EveryRequestReturns == <>(usedResultTxHashes # {})

(* It is, if no invocation dies and GenLayer answers the first time.       *)
Undisturbed ==
  crashes = 0 /\ Lost = {} /\ \A tx \in DOMAIN submissions : submissions[tx] # "failed"

UndisturbedRequestReturns == []Undisturbed => EveryRequestReturns

(* "Reconciliation reads Base Sepolia, advances the MongoDB index"          *)
(* (README.md:366): the index learns of a callback that Base executed,     *)
(* however old the copies its invocations work from, unless one of them    *)
(* submitted the request again and the record came to name a transaction   *)
(* that failed.  From then on each attempt throws in Poll, before it asks  *)
(* Base, and the index stays behind.                                       *)
NamesFailedSubmission ==
  /\ record.genlayerTransaction # 0
  /\ submissions[record.genlayerTransaction] = "failed"

IndexCatchesUpUnlessOverwritten ==
  onchain = "CALLBACK_EXECUTED" ~>
    record.status = "CALLBACK_EXECUTED" \/ NamesFailedSubmission
=============================================================================
