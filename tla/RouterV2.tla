------------------------------ MODULE RouterV2 ------------------------------
(***************************************************************************)
(* contracts/src/GatewayRouterV2.sol, the router that asks any GenLayer    *)
(* contract a route names and hands its bytes to the callback.  It differs *)
(* from GatewayRouter where things go wrong: a request that was delivered  *)
(* stays locked, the result's bytes are not stored, so a retry must bring  *)
(* them along and they are checked against the recorded hash, nothing can  *)
(* be paused but the routes, and the owner names who is paid the fees.     *)
(*                                                                         *)
(* As in GatewayRouter, `calls' is the stack of calls to foreign code,     *)
(* each with the storage its revert restores, `committed' the storage      *)
(* between transactions, and a request id the record of what it is a hash  *)
(* of: the requester's call and the route as registered.                   *)
(***************************************************************************)
EXTENDS RouteRegistry, Naturals, Sequences

CONSTANTS
  Applications, Owners, Receivers, Transports,
  Arguments,        \* argument hashes
  ResultBytes,      \* what a GenLayer contract may answer
  HashOf(_),        \* keccak256 of a result
  TxHashes, NoHash,
  RequestFee, MaxNonce, MaxTime, MaxDepth

Times == 0 .. MaxTime

RequestIds ==
  [requester : Applications, callback : Applications, routeId : Routes,
   binding : Bindings, argumentsHash : Arguments, nonce : 1 .. MaxNonce,
   expiry : Times]

ResultHashes == {HashOf(result) : result \in ResultBytes}

ASSUME V2Constants ==
  /\ RequestFee \in Nat /\ MaxNonce \in Nat /\ MaxTime \in Nat /\ MaxDepth \in Nat
  /\ Nobody \notin Owners \cup Receivers \cup Transports \cup Applications
  /\ Owners # {} /\ Transports # {}
  /\ NoHash \notin TxHashes \cup ResultHashes
  /\ "None" \notin ResultHashes
  /\ \A p, q \in ResultBytes : HashOf(p) = HashOf(q) => p = q

VARIABLES
  requests, latestNonce, accruedFees, balance,
  received,         \* history: [stored ids -> the results its callback took]
  owner, transport, resultReceiver,
  now, calls, committed

admin == <<owner, transport, resultReceiver>>
store == <<requests, latestNonce, accruedFees, balance, received>>
v2Vars == <<registryVars, store, admin, now, calls, committed>>

Storage ==
  [requests |-> requests, latestNonce |-> latestNonce,
   accruedFees |-> accruedFees, balance |-> balance, received |-> received]

Restore(s) ==
  /\ requests' = s.requests
  /\ latestNonce' = s.latestNonce
  /\ accruedFees' = s.accruedFees
  /\ balance' = s.balance
  /\ received' = s.received

Innermost == calls[Len(calls)]
Leave == calls' = SubSeq(calls, 1, Len(calls) - 1)
AtRest == calls = <<>>
Commit == committed' = IF calls' = <<>> THEN Storage' ELSE committed
Elsewhere == UNCHANGED <<registryVars, admin, now>>

V2Init ==
  /\ RegistryInit
  /\ requests = [id \in {} |-> <<>>]
  /\ received = [id \in {} |-> <<>>]
  /\ latestNonce = [a \in Applications |-> 0]
  /\ accruedFees = 0 /\ balance = 0
  /\ owner \in Owners
  /\ transport \in Transports
  /\ resultReceiver = Nobody
  /\ now = 0
  /\ calls = <<>>
  /\ committed = Storage

-----------------------------------------------------------------------------
RouteIsOpen(r) == r \in DOMAIN routes /\ routes[r].active

CanRequest(id, value, deliveryFee) ==
  /\ RouteIsOpen(id.routeId)
  /\ id.binding = routes[id.routeId].binding
  /\ id.expiry > now
  /\ value = RequestFee
  /\ id.nonce > latestNonce[id.requester]
  /\ id \notin DOMAIN requests
  /\ deliveryFee <= value

RequestRoute(id, value, deliveryFee) ==
  /\ CanRequest(id, value, deliveryFee)
  /\ latestNonce' = [latestNonce EXCEPT ![id.requester] = id.nonce]
  /\ requests' = [q \in DOMAIN requests \cup {id} |->
       IF q = id
       THEN [status |-> "Dispatched", callbackLocked |-> FALSE,
             resultTxHash |-> NoHash, resultHash |-> NoHash]
       ELSE requests[q]]
  /\ received' = [q \in DOMAIN received \cup {id} |->
                    IF q = id THEN <<>> ELSE received[q]]
  /\ accruedFees' = accruedFees + value - deliveryFee
  /\ balance' = balance + value - deliveryFee
  /\ UNCHANGED calls /\ Elsewhere
  /\ Commit

-----------------------------------------------------------------------------
(***************************************************************************)
(* _attemptCallback, up to the call, with the request as its caller left   *)
(* it and the bytes the callback is given.                                 *)
(***************************************************************************)
IsUnlocked(r) == ~r.callbackLocked

AttemptCallback(id, r, result) ==
  /\ IsUnlocked(r)
  /\ Len(calls) < MaxDepth
  /\ requests' = [requests EXCEPT
       ![id] = [r EXCEPT !.callbackLocked = TRUE, !.status = "CallbackPending"]]
  /\ UNCHANGED <<latestNonce, accruedFees, balance, received>>
  /\ calls' = Append(calls, [kind |-> "callback", request |-> id,
                             result |-> result, saved |-> Storage'])
  /\ Elsewhere
  /\ Commit

InTime_Always(id) == TRUE
InTime(id) == now <= id.expiry

HandleResult(sender, id, txHash, result) ==
  /\ sender = resultReceiver
  /\ id \in DOMAIN requests
  /\ requests[id].status = "Dispatched"
  /\ InTime(id)
  /\ txHash # NoHash
  /\ AttemptCallback(id, [requests[id] EXCEPT !.resultTxHash = txHash,
                                              !.resultHash = HashOf(result),
                                              !.status = "Finalized"], result)

IsTheResult_Unchecked(id, result) == TRUE
IsTheResult(id, result) == HashOf(result) = requests[id].resultHash

RetryCallback(id, result) ==
  /\ id \in DOMAIN requests
  /\ requests[id].status = "CallbackPending"
  /\ IsTheResult(id, result)
  /\ AttemptCallback(id, requests[id], result)

(***************************************************************************)
(* _attemptCallback, after the call.  Success leaves the lock as it is.    *)
(***************************************************************************)
InCallback == ~AtRest /\ Innermost.kind = "callback"

CallbackSucceeds ==
  /\ InCallback
  /\ requests' = [requests EXCEPT ![Innermost.request].status = "CallbackExecuted"]
  /\ received' = [received EXCEPT ![Innermost.request] = Append(@, Innermost.result)]
  /\ UNCHANGED <<latestNonce, accruedFees, balance>>
  /\ Leave /\ Elsewhere
  /\ Commit

UnlockAfterFailure_Never(s, id) == s
UnlockAfterFailure(s, id) == [s EXCEPT !.requests[id].callbackLocked = FALSE]

CallbackFails ==
  /\ InCallback
  /\ Restore(UnlockAfterFailure(Innermost.saved, Innermost.request))
  /\ Leave /\ Elsewhere
  /\ Commit

-----------------------------------------------------------------------------
FeesAfterWithdrawal_Kept == accruedFees
FeesAfterWithdrawal == 0

WithdrawFees(caller) ==
  /\ AtRest
  /\ MaxDepth > 0
  /\ caller = owner
  /\ accruedFees > 0
  /\ accruedFees' = FeesAfterWithdrawal
  /\ balance' = balance - accruedFees
  /\ calls' = Append(calls, [kind |-> "withdraw", saved |-> Storage])
  /\ UNCHANGED <<requests, latestNonce, received>> /\ Elsewhere
  /\ Commit

WithdrawSucceeds ==
  /\ ~AtRest /\ Innermost.kind = "withdraw"
  /\ UNCHANGED store
  /\ Leave /\ Elsewhere
  /\ Commit

(***************************************************************************)
(* The recipient refuses the fees, or the transaction ends without effect. *)
(***************************************************************************)
TransactionReverts ==
  /\ ~AtRest
  /\ Restore(committed)
  /\ calls' = <<>>
  /\ UNCHANGED committed /\ Elsewhere

-----------------------------------------------------------------------------
(***************************************************************************)
(* The owner's setters, and the registry's, sent by accounts.              *)
(***************************************************************************)
Administered ==
  /\ AtRest
  /\ UNCHANGED <<registryVars, store, now, calls, committed>>

SetResultReceiver(caller, receiver) ==
  /\ Administered
  /\ caller = owner
  /\ resultReceiver' = receiver
  /\ UNCHANGED <<owner, transport>>

SetTransport(caller, newTransport) ==
  /\ Administered
  /\ caller = owner
  /\ transport' = newTransport
  /\ UNCHANGED <<owner, resultReceiver>>

TransferOwnership(caller, newOwner) ==
  /\ Administered
  /\ caller = owner
  /\ owner' = newOwner
  /\ UNCHANGED <<transport, resultReceiver>>

RegistryActs ==
  /\ AtRest
  /\ RegistryNext
  /\ UNCHANGED <<store, admin, now, calls, committed>>

Tick ==
  /\ AtRest
  /\ now < MaxTime
  /\ now' = now + 1
  /\ UNCHANGED <<registryVars, store, admin, calls, committed>>

-----------------------------------------------------------------------------
CallsV2 ==
  \/ \E id \in RequestIds, deliveryFee \in 0 .. RequestFee :
        RequestRoute(id, RequestFee, deliveryFee)
  \/ \E id \in DOMAIN committed.requests, s \in Receivers, h \in TxHashes,
        result \in ResultBytes : HandleResult(s, id, h, result)
  \/ \E id \in DOMAIN requests, result \in ResultBytes : RetryCallback(id, result)

OwnerActs ==
  \E caller \in Owners :
    \/ \E r \in Receivers : SetResultReceiver(caller, r)
    \/ \E t \in Transports : SetTransport(caller, t)
    \/ \E o \in Owners : TransferOwnership(caller, o)
    \/ WithdrawFees(caller)

V2Next ==
  \/ CallsV2
  \/ CallbackSucceeds
  \/ CallbackFails
  \/ WithdrawSucceeds
  \/ TransactionReverts
  \/ OwnerActs
  \/ RegistryActs
  \/ Tick

V2Spec == V2Init /\ [][V2Next]_v2Vars

-----------------------------------------------------------------------------
(***************************************************************************)
(* Properties.                                                             *)
(***************************************************************************)
(***************************************************************************)
(* A request keeps the contract, method and schemas its route has in the   *)
(* registry, for as long as both exist: a pause does not disturb it, and   *)
(* no route is ever bound to something else under it (registerRoute).      *)
(***************************************************************************)
RequestsFollowTheirRoute ==
  \A id \in DOMAIN requests :
    id.routeId \in DOMAIN routes /\ routes[id.routeId].binding = id.binding

(***************************************************************************)
(* The callback takes one result, and it is the one whose hash was         *)
(* recorded, although anybody may retry it and brings the bytes along, and *)
(* although callbacks may nest and fail (retryCallback, _attemptCallback). *)
(***************************************************************************)
ReceivesTheRecordedResult ==
  \A id \in DOMAIN requests :
    IF requests[id].status = "CallbackExecuted"
    THEN Len(received[id]) = 1 /\ HashOf(received[id][1]) = requests[id].resultHash
    ELSE received[id] = <<>>

(***************************************************************************)
(* A request is locked while its callback runs and once it was delivered,  *)
(* and never otherwise, so that what failed can be retried and what        *)
(* succeeded cannot.                                                       *)
(***************************************************************************)
LockedWhileCalledOrDelivered ==
  \A id \in DOMAIN requests :
    requests[id].callbackLocked <=>
      \/ requests[id].status = "CallbackExecuted"
      \/ \E i \in 1 .. Len(calls) :
            calls[i].kind = "callback" /\ calls[i].request = id

(***************************************************************************)
(* The fees on the books are the wei the router holds, also while the      *)
(* recipient of a withdrawal runs.                                         *)
(***************************************************************************)
V2FeesAreHeld == accruedFees = balance

(***************************************************************************)
(* The second router keeps the promise of the first: its verdicts are      *)
(* results.                                                                *)
(***************************************************************************)
VerdictOn(r) == IF r.resultHash = NoHash THEN "None" ELSE r.resultHash

Register == INSTANCE VerdictRegister WITH
  Verdicts <- ResultHashes,
  asked <- DOMAIN committed.requests,
  verdict <- [id \in DOMAIN committed.requests |->
                VerdictOn(committed.requests[id])],
  delivered <- [id \in DOMAIN committed.received |-> Len(committed.received[id])],
  clock <- now

V2ImplementsVerdictRegister == Register!RegisterSpec
=============================================================================
