---------------------------- MODULE GatewayRouter ----------------------------
(***************************************************************************)
(* contracts/src/GatewayRouter.sol: the contract applications on Base ask  *)
(* for a verdict, and which hands the verdict to their callback.           *)
(*                                                                         *)
(* A transaction runs alone, but not in one piece: the router gives        *)
(* control to foreign code when it runs a callback and when it pays fees   *)
(* out, and that code may call the router again before it returns or       *)
(* reverts.  The calls in progress are the stack `frames'; every frame     *)
(* keeps the storage to go back to if its callee reverts.  Between two     *)
(* transactions the stack is empty, and `committed' is the storage every   *)
(* observer off the chain reads.                                           *)
(*                                                                         *)
(* A request id is the hash of what the requester committed to             *)
(* (_computeRequestId), hence here the record of these values: equal ids   *)
(* are equal commitments, and the fields of a stored request that never    *)
(* change are read off its id.                                             *)
(***************************************************************************)
EXTENDS Naturals, Sequences

CONSTANTS
  Applications,     \* contracts that ask for verdicts and serve as callbacks
  Owners,           \* accounts that may own the router
  Receivers,        \* contracts the owner may name as result receiver
  Transports,       \* contracts the owner may name as transport
  Nobody,           \* the zero address
  Policies,         \* policy hashes
  Evidence,         \* evidence hashes
  ResultHashes,     \* GenLayer transaction hashes
  NoHash,           \* the zero hash
  RequestFee,       \* REQUEST_FEE
  MaxNonce,         \* bound: nonces an application tries
  MaxTime,          \* bound: the last block time considered
  MaxDepth          \* bound: calls in progress at once

Verdicts == {"Pass", "Fail", "Undetermined"}
Nonces == 1 .. MaxNonce
Times == 0 .. MaxTime

RequestIds ==
  [requester : Applications, callback : Applications \cup {Nobody},
   nonce : Nonces, expiry : Times, policyHash : Policies,
   evidenceHash : Evidence \cup {NoHash}]

ASSUME RouterConstants ==
  /\ RequestFee \in Nat
  /\ MaxNonce \in Nat
  /\ MaxTime \in Nat
  /\ MaxDepth \in Nat
  /\ Owners # {} /\ Nobody \notin Owners
  /\ Transports # {} /\ Nobody \notin Transports
  /\ Nobody \notin Receivers
  /\ NoHash \notin ResultHashes

VARIABLES
  requests,         \* [stored ids -> Request]; an id not stored has Status.None
  deliveries,       \* history: how often the callback of an id took effect
  latestNonce,      \* [Applications -> the highest nonce used]
  accruedFees,      \* what withdrawFees may pay out
  balance,          \* wei the router holds
  owner, transport, resultReceiver, paused,
  now,              \* block.timestamp
  frames,           \* the external calls in progress, innermost last
  committed         \* the storage at the end of the last transaction

admin == <<owner, transport, resultReceiver, paused>>
routerVars == <<requests, deliveries, latestNonce, accruedFees, balance,
                admin, now, frames, committed>>

(***************************************************************************)
(* The storage a revert undoes.                                            *)
(***************************************************************************)
Storage ==
  [requests |-> requests, deliveries |-> deliveries,
   latestNonce |-> latestNonce, accruedFees |-> accruedFees,
   balance |-> balance]

RestoreAs(s, restoredRequests) ==
  /\ requests' = restoredRequests
  /\ deliveries' = s.deliveries
  /\ latestNonce' = s.latestNonce
  /\ accruedFees' = s.accruedFees
  /\ balance' = s.balance

Restore(s) == RestoreAs(s, s.requests)

Top == frames[Len(frames)]
Pop == SubSeq(frames, 1, Len(frames) - 1)
AtRest == frames = <<>>

(***************************************************************************)
(* Every step ends with this: a step that leaves no call in progress has   *)
(* ended its transaction.                                                  *)
(***************************************************************************)
Commit == committed' = IF frames' = <<>> THEN Storage' ELSE committed

RouterInit ==
  /\ requests = [id \in {} |-> <<>>]
  /\ deliveries = [id \in {} |-> 0]
  /\ latestNonce = [a \in Applications |-> 0]
  /\ accruedFees = 0
  /\ balance = 0
  /\ owner \in Owners
  /\ transport \in Transports
  /\ resultReceiver = Nobody
  /\ paused = FALSE
  /\ now = 0
  /\ frames = <<>>
  /\ committed = Storage

-----------------------------------------------------------------------------
(***************************************************************************)
(* requestDecision.  The caller pays `value'; the transport quotes         *)
(* `deliveryFee' and dispatch takes it.  Lengths of the strings are left   *)
(* out: an input outside the limits changes nothing.                       *)
(***************************************************************************)
NonceIsNew_AllowsReuse(id) == id.nonce >= latestNonce[id.requester]
NonceIsNew(id) == id.nonce > latestNonce[id.requester]

ValidRequest(id, value) ==
  /\ ~paused
  /\ value = RequestFee
  /\ id.callback # Nobody
  /\ id.evidenceHash # NoHash
  /\ id.expiry > now
  /\ NonceIsNew(id)

FreshRequest ==
  [status |-> "Dispatched", decision |-> "None", callbackLocked |-> FALSE,
   resultTxHash |-> NoHash]

FeeIncome_IgnoresDelivery(value, deliveryFee) == value
FeeIncome_Swapped(value, deliveryFee) == deliveryFee - value
FeeIncome(value, deliveryFee) == value - deliveryFee

RequestDecision(id, value, deliveryFee) ==
  /\ ValidRequest(id, value)
  /\ id \notin DOMAIN requests
  /\ deliveryFee <= value
  /\ latestNonce' = [latestNonce EXCEPT ![id.requester] = id.nonce]
  /\ requests' = [q \in DOMAIN requests \cup {id} |->
                    IF q = id THEN FreshRequest ELSE requests[q]]
  /\ deliveries' = [q \in DOMAIN deliveries \cup {id} |->
                      IF q = id THEN 0 ELSE deliveries[q]]
  /\ accruedFees' = accruedFees + FeeIncome(value, deliveryFee)
  /\ balance' = balance + value - deliveryFee
  /\ UNCHANGED <<admin, now, frames>>
  /\ Commit

-----------------------------------------------------------------------------
CallbackIsFree_Always(r) == TRUE
CallbackIsFree(r) == ~r.callbackLocked

(***************************************************************************)
(* _attemptCallback, up to the call: `r' is the request as its caller left *)
(* it.  The call is made from the storage in which the request is locked   *)
(* and pending, so that is what a failing callback leaves behind.          *)
(***************************************************************************)
EnterCallback(id, r) ==
  /\ CallbackIsFree(r)
  /\ Len(frames) < MaxDepth
  /\ requests' = [requests EXCEPT
       ![id] = [r EXCEPT !.callbackLocked = TRUE, !.status = "CallbackPending"]]
  /\ UNCHANGED <<deliveries, latestNonce, accruedFees, balance, admin, now,
                 committed>>
  /\ frames' = Append(frames,
       [kind |-> "callback", request |-> id, saved |-> Storage'])

InTime_Always(id) == TRUE
InTime(id) == now <= id.expiry

HandleResult(sender, id, rawDecision, policyHash, evidenceHash, resultTxHash) ==
  /\ sender = resultReceiver
  /\ id \in DOMAIN requests
  /\ requests[id].status = "Dispatched"
  /\ InTime(id)
  /\ evidenceHash = id.evidenceHash
  /\ policyHash = id.policyHash
  /\ rawDecision \in Verdicts
  /\ resultTxHash # NoHash
  /\ EnterCallback(id, [requests[id] EXCEPT
                          !.decision = rawDecision,
                          !.resultTxHash = resultTxHash,
                          !.status = "Finalized"])

RetryCallback(id) ==
  /\ id \in DOMAIN requests
  /\ requests[id].status = "CallbackPending"
  /\ EnterCallback(id, requests[id])

(***************************************************************************)
(* _attemptCallback, after the call.                                       *)
(***************************************************************************)
InCallback == ~AtRest /\ Top.kind = "callback"

CallbackReturns ==
  /\ InCallback
  /\ requests' = [requests EXCEPT
                    ![Top.request].status = "CallbackExecuted",
                    ![Top.request].callbackLocked = FALSE]
  /\ deliveries' = [deliveries EXCEPT ![Top.request] = @ + 1]
  /\ frames' = Pop
  /\ UNCHANGED <<latestNonce, accruedFees, balance, admin, now>>
  /\ Commit

Unlocked_Never(rs, id) == rs
Unlocked(rs, id) == [rs EXCEPT ![id].callbackLocked = FALSE]

CallbackReverts ==
  /\ InCallback
  /\ RestoreAs(Top.saved, Unlocked(Top.saved.requests, Top.request))
  /\ frames' = Pop
  /\ UNCHANGED <<admin, now>>
  /\ Commit

-----------------------------------------------------------------------------
(***************************************************************************)
(* withdrawFees: the recipient runs with accruedFees already zero; if it   *)
(* rejects the transfer the whole call reverts.                            *)
(***************************************************************************)
WithdrawFees(sender) ==
  /\ AtRest
  /\ MaxDepth > 0
  /\ sender = owner
  /\ accruedFees > 0
  /\ accruedFees' = 0
  /\ balance' = balance - accruedFees
  /\ frames' = Append(frames, [kind |-> "withdraw", saved |-> Storage])
  /\ UNCHANGED <<requests, deliveries, latestNonce, admin, now, committed>>

InWithdraw == ~AtRest /\ Top.kind = "withdraw"

WithdrawReturns ==
  /\ InWithdraw
  /\ frames' = Pop
  /\ UNCHANGED <<requests, deliveries, latestNonce, accruedFees, balance,
                 admin, now>>
  /\ Commit

WithdrawReverts ==
  /\ InWithdraw
  /\ Restore(Top.saved)
  /\ frames' = Pop
  /\ UNCHANGED <<admin, now>>
  /\ Commit

(***************************************************************************)
(* The transaction as a whole runs out of gas or its sender reverts it.    *)
(***************************************************************************)
Abort ==
  /\ ~AtRest
  /\ Restore(committed)
  /\ frames' = <<>>
  /\ UNCHANGED <<admin, now, committed>>

-----------------------------------------------------------------------------
(***************************************************************************)
(* The owner's setters, sent by an account and not from inside a callback. *)
(***************************************************************************)
ledger == <<requests, deliveries, latestNonce, accruedFees, balance, now,
            frames, committed>>

OnlyOwner(sender) == AtRest /\ sender = owner

SetTransport(sender, newTransport) ==
  /\ OnlyOwner(sender)
  /\ newTransport # Nobody
  /\ transport' = newTransport
  /\ UNCHANGED <<ledger, owner, resultReceiver, paused>>

SetResultReceiver(sender, newReceiver) ==
  /\ OnlyOwner(sender)
  /\ newReceiver # Nobody
  /\ resultReceiver' = newReceiver
  /\ UNCHANGED <<ledger, owner, transport, paused>>

TransferOwnership(sender, newOwner) ==
  /\ OnlyOwner(sender)
  /\ newOwner # Nobody
  /\ owner' = newOwner
  /\ UNCHANGED <<ledger, transport, resultReceiver, paused>>

SetPaused(sender, newPaused) ==
  /\ OnlyOwner(sender)
  /\ paused' = newPaused
  /\ UNCHANGED <<ledger, owner, transport, resultReceiver>>

AdminNext ==
  \E sender \in Owners :
    \/ \E t \in Transports : SetTransport(sender, t)
    \/ \E r \in Receivers : SetResultReceiver(sender, r)
    \/ \E o \in Owners : TransferOwnership(sender, o)
    \/ \E p \in BOOLEAN : SetPaused(sender, p)
    \/ WithdrawFees(sender)

Tick ==
  /\ AtRest
  /\ now < MaxTime
  /\ now' = now + 1
  /\ UNCHANGED <<requests, deliveries, latestNonce, accruedFees, balance,
                 admin, frames, committed>>

-----------------------------------------------------------------------------
(***************************************************************************)
(* The result receiver serves whoever executes a verified LayerZero        *)
(* message, and retryCallback serves everybody: both may also be called    *)
(* from inside a callback.  A verdict answers a request another chain has  *)
(* seen, hence one that an earlier transaction committed.                  *)
(***************************************************************************)
CallsRouter ==
  \/ \E id \in RequestIds, value \in 0 .. RequestFee + 1,
        deliveryFee \in 0 .. RequestFee :
        RequestDecision(id, value, deliveryFee)
  \/ \E id \in DOMAIN committed.requests, sender \in Receivers,
        d \in Verdicts \cup {"None"}, p \in Policies, e \in Evidence,
        h \in ResultHashes \cup {NoHash} :
        HandleResult(sender, id, d, p, e, h)
  \/ \E id \in DOMAIN requests : RetryCallback(id)

RouterNext ==
  \/ CallsRouter
  \/ CallbackReturns
  \/ CallbackReverts
  \/ WithdrawReturns
  \/ WithdrawReverts
  \/ Abort
  \/ AdminNext
  \/ Tick

RouterSpec == RouterInit /\ [][RouterNext]_routerVars

-----------------------------------------------------------------------------
(***************************************************************************)
(* Properties.                                                             *)
(***************************************************************************)
Request ==
  [status : {"Dispatched", "CallbackPending", "CallbackExecuted"},
   decision : Verdicts \cup {"None"}, callbackLocked : BOOLEAN,
   resultTxHash : ResultHashes \cup {NoHash}]

IsStorage(s) ==
  /\ DOMAIN s.requests \subseteq RequestIds
  /\ s.requests \in [DOMAIN s.requests -> Request]
  /\ s.deliveries \in [DOMAIN s.requests -> Nat]
  /\ s.latestNonce \in [Applications -> 0 .. MaxNonce]
  /\ s.accruedFees \in Nat
  /\ s.balance \in Nat

(* A frame that is no callback is a payment: withdrawFees, or one a contract *)
(* that composes with the router has in progress.                            *)
IsFrame(f) ==
  /\ IsStorage(f.saved)
  /\ f.kind = "callback" => f.request \in DOMAIN f.saved.requests

IsStack(fs) == fs \in Seq({fs[i] : i \in DOMAIN fs})

(* The type invariant of the router, its call stack included. *)
RouterTypeOK ==
  /\ IsStorage(Storage)
  /\ IsStorage(committed)
  /\ owner \in Owners
  /\ transport \in Transports
  /\ resultReceiver \in Receivers \cup {Nobody}
  /\ paused \in BOOLEAN
  /\ now \in Times
  /\ IsStack(frames) /\ Len(frames) <= MaxDepth
  /\ \A i \in DOMAIN frames : IsFrame(frames[i])

(***************************************************************************)
(* The callback of a request takes effect at most once, and exactly when   *)
(* the request is CallbackExecuted, whatever the callbacks call while they *)
(* run and whichever of them revert (callbackLocked, _attemptCallback).    *)
(***************************************************************************)
DeliveredOnceIn(s) ==
  \A id \in DOMAIN s.requests :
    s.deliveries[id] =
      IF s.requests[id].status = "CallbackExecuted" THEN 1 ELSE 0

DeliveredOnce == DeliveredOnceIn(Storage)

(***************************************************************************)
(* A request is locked exactly while one, and only one, call of its        *)
(* callback is in progress; so no lock survives its transaction, and a     *)
(* failed callback can always be retried.                                  *)
(***************************************************************************)
Calls(i, id) == frames[i].kind = "callback" /\ frames[i].request = id

LockIsHeldByOneCall ==
  /\ \A id \in DOMAIN requests :
        requests[id].callbackLocked <=> \E i \in DOMAIN frames : Calls(i, id)
  /\ \A i, j \in DOMAIN frames : \A id \in DOMAIN requests :
        Calls(i, id) /\ Calls(j, id) => i = j

(***************************************************************************)
(* The fees on the books are the wei the router holds, also while the      *)
(* recipient of a withdrawal runs and asks for verdicts of its own.        *)
(***************************************************************************)
FeesAreHeldIn(s) == s.accruedFees = s.balance

FeesAreHeld == FeesAreHeldIn(Storage)

(***************************************************************************)
(* A nonce of a requester identifies one request: two stored requests of   *)
(* one requester differ in their nonce, and none exceeds latestNonce.      *)
(***************************************************************************)
NonceIdentifiesIn(s) ==
  \A p, q \in DOMAIN s.requests :
    /\ p.nonce <= s.latestNonce[p.requester]
    /\ p.requester = q.requester /\ p.nonce = q.nonce => p = q

NonceIdentifiesRequest == NonceIdentifiesIn(Storage)

(***************************************************************************)
(* What is visible between transactions implements the verdict register.   *)
(***************************************************************************)
Register == INSTANCE VerdictRegister WITH
  asked <- DOMAIN committed.requests,
  verdict <- [id \in DOMAIN committed.requests |-> committed.requests[id].decision],
  delivered <- committed.deliveries,
  clock <- now

ImplementsVerdictRegister == Register!RegisterSpec
=============================================================================
