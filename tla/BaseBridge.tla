----------------------------- MODULE BaseBridge -----------------------------
(***************************************************************************)
(* The router's ends of the bridge on Base:                                *)
(* contracts/src/transport/LayerZeroGatewaySender.sol, the transport that  *)
(* sends a request to the hub, and                                         *)
(* contracts/src/transport/LayerZeroResultReceiver.sol, the result         *)
(* receiver that hands the hub's answer to the router.                     *)
(*                                                                         *)
(* Both run inside transactions of the router, so a revert undoes their    *)
(* writes with the router's: bridgeFrames[i] is what the revert of         *)
(* frames[i] restores of them.  A message is on its way once the           *)
(* transaction that sent it has ended.                                     *)
(***************************************************************************)
EXTENDS GatewayRouter

CONSTANTS
  Router,           \* the router's own address
  OtherRouters,     \* other contracts the bridge may be connected to
  LzSender,         \* the sender's address, the router's transport
  LzReceiver,       \* the result receiver's address
  BridgeOwners,     \* accounts that may own sender and receiver
  Adjudicators,     \* GenLayer contracts
  HubReceivers,     \* contracts on the hub the sender may send to
  Forwarders        \* contracts on the hub that may send to the receiver

Routers == {Router} \cup OtherRouters

ASSUME BridgeConstants ==
  /\ Transports = {LzSender}
  /\ Receivers = {LzReceiver}
  /\ Router \notin OtherRouters
  /\ BridgeOwners # {} /\ Adjudicators # {} /\ HubReceivers # {}
  /\ Nobody \notin BridgeOwners \cup Adjudicators \cup HubReceivers
                     \cup Forwarders \cup Routers

VARIABLES
  senderOwner, senderRouter, target, remoteReceiver, messageNonce,
  outbound,             \* history: the messages sent
  baseReceiverOwner, receiverRouter, trustedForwarder, baseTrustedAdjudicator,
  baseGuids,            \* processedGuids of the receiver
  bridgeFrames,         \* in step with frames
  bridgeCommitted       \* the bridge's storage between transactions

senderAdmin == <<senderOwner, senderRouter, target, remoteReceiver>>
receiverAdmin == <<baseReceiverOwner, receiverRouter, trustedForwarder,
                   baseTrustedAdjudicator>>
bridgeStore == <<messageNonce, outbound, baseGuids>>
bridgeVars == <<senderAdmin, receiverAdmin, bridgeStore, bridgeFrames,
                bridgeCommitted>>
baseVars == <<routerVars, bridgeVars>>

BridgeStorage ==
  [messageNonce |-> messageNonce, outbound |-> outbound, baseGuids |-> baseGuids]

RestoreBridge(s) ==
  /\ messageNonce' = s.messageNonce
  /\ outbound' = s.outbound
  /\ baseGuids' = s.baseGuids

CommitBridge ==
  bridgeCommitted' = IF frames' = <<>> THEN BridgeStorage' ELSE bridgeCommitted

BridgeTop == bridgeFrames[Len(bridgeFrames)]
PopBridge == bridgeFrames' = SubSeq(bridgeFrames, 1, Len(bridgeFrames) - 1)

(***************************************************************************)
(* The contracts as deployed (script/DeployBaseSepolia.s.sol) and then     *)
(* connected to the forwarder `f' and the adjudicator `a'                  *)
(* (script/ConfigureBaseSepolia.s.sol).                                    *)
(***************************************************************************)
BridgeConnected(f, a) ==
  /\ senderOwner \in BridgeOwners
  /\ senderRouter = Router
  /\ target = a
  /\ remoteReceiver \in HubReceivers
  /\ messageNonce = 0
  /\ outbound = <<>>
  /\ baseReceiverOwner \in BridgeOwners
  /\ receiverRouter = Router
  /\ trustedForwarder = f
  /\ baseTrustedAdjudicator = a
  /\ baseGuids = {}
  /\ bridgeFrames = <<>>
  /\ bridgeCommitted = BridgeStorage

-----------------------------------------------------------------------------
(***************************************************************************)
(* dispatch, called by requestDecision of the router that the sender       *)
(* serves.  The message id is a hash of the router, the request and the    *)
(* sender's nonce.                                                         *)
(***************************************************************************)
NonceAfterMessage_Kept == messageNonce
NonceAfterMessage == messageNonce + 1

Message(id, n) ==
  [id |-> [router |-> Router, requestId |-> id, nonce |-> n],
   requestId |-> id, router |-> Router, target |-> target, to |-> remoteReceiver]

Dispatch(id) ==
  /\ senderRouter = Router
  /\ messageNonce' = NonceAfterMessage
  /\ outbound' = Append(outbound, Message(id, messageNonce'))

BridgeRequest(id, value, deliveryFee) ==
  /\ RequestDecision(id, value, deliveryFee)
  /\ Dispatch(id)
  /\ UNCHANGED <<senderAdmin, receiverAdmin, baseGuids, bridgeFrames>>
  /\ CommitBridge

-----------------------------------------------------------------------------
(***************************************************************************)
(* lzReceive.  A packet is [guid, sender, message]; its message names the  *)
(* GenLayer contract, the router and the result.  The mark of the guid is  *)
(* made first and undone with everything else if the router refuses.  A    *)
(* packet for another router, if the receiver serves one, is not modelled. *)
(***************************************************************************)
IsNewGuid(guid) == guid \notin baseGuids

FromTrustedForwarder(p) == p.sender = trustedForwarder

GuidsAfter_Kept(guid) == baseGuids
GuidsAfter(guid) == baseGuids \cup {guid}

Accepts(p) ==
  /\ FromTrustedForwarder(p)
  /\ IsNewGuid(p.guid)
  /\ p.message.adjudicator = baseTrustedAdjudicator
  /\ p.message.router = receiverRouter
  /\ p.message.originMessageId # NoHash

PushBridge ==
  bridgeFrames' = Append(bridgeFrames, BridgeStorage')

LzReceive(p) ==
  /\ Accepts(p)
  /\ receiverRouter = Router
  /\ baseGuids' = GuidsAfter(p.guid)
  /\ HandleResult(LzReceiver, p.message.requestId, p.message.decision,
                  p.message.policyHash, p.message.evidenceHash,
                  p.message.txHash)
  /\ UNCHANGED <<senderAdmin, receiverAdmin, messageNonce, outbound,
                 bridgeCommitted>>
  /\ PushBridge

-----------------------------------------------------------------------------
(***************************************************************************)
(* The router's other steps, and what becomes of the bridge's storage.     *)
(***************************************************************************)
Retried(id) ==
  /\ RetryCallback(id)
  /\ UNCHANGED <<senderAdmin, receiverAdmin, bridgeStore, bridgeCommitted>>
  /\ PushBridge

CallEnds ==
  /\ CallbackReturns
  /\ PopBridge
  /\ UNCHANGED <<senderAdmin, receiverAdmin, bridgeStore>>
  /\ CommitBridge

CallReverts ==
  /\ CallbackReverts
  /\ RestoreBridge(BridgeTop)
  /\ PopBridge
  /\ UNCHANGED <<senderAdmin, receiverAdmin>>
  /\ CommitBridge

TransactionReverts ==
  /\ Abort
  /\ RestoreBridge(bridgeCommitted)
  /\ bridgeFrames' = <<>>
  /\ UNCHANGED <<senderAdmin, receiverAdmin, bridgeCommitted>>

(***************************************************************************)
(* The owner's setters; a pause only keeps requests from being made.       *)
(***************************************************************************)
RouterConfigured ==
  /\ \E caller \in Owners :
       \/ \E t \in Transports : SetTransport(caller, t)
       \/ \E r \in Receivers : SetResultReceiver(caller, r)
       \/ \E o \in Owners : TransferOwnership(caller, o)
  /\ UNCHANGED bridgeVars

BlockTimePasses == Tick /\ UNCHANGED bridgeVars

-----------------------------------------------------------------------------
(***************************************************************************)
(* The owners' setters of the two contracts, sent by accounts.             *)
(***************************************************************************)
SenderSetter(caller) ==
  /\ AtRest
  /\ caller = senderOwner
  /\ UNCHANGED <<routerVars, receiverAdmin, bridgeStore, bridgeFrames,
                 bridgeCommitted>>

ReceiverSetter(caller) ==
  /\ AtRest
  /\ caller = baseReceiverOwner
  /\ UNCHANGED <<routerVars, senderAdmin, bridgeStore, bridgeFrames,
                 bridgeCommitted>>

SetSenderRouter(caller, r) ==
  /\ SenderSetter(caller)
  /\ r # Nobody
  /\ senderRouter' = r
  /\ UNCHANGED <<senderOwner, target, remoteReceiver>>

SetRemote(caller, h) ==
  /\ SenderSetter(caller)
  /\ h # Nobody
  /\ remoteReceiver' = h
  /\ UNCHANGED <<senderOwner, senderRouter, target>>

SetTargetGenLayerReceiver(caller, adjudicator) ==
  /\ SenderSetter(caller)
  /\ adjudicator # Nobody
  /\ target' = adjudicator
  /\ UNCHANGED <<senderOwner, senderRouter, remoteReceiver>>

TransferSender(caller, newOwner) ==
  /\ SenderSetter(caller)
  /\ newOwner # Nobody
  /\ senderOwner' = newOwner
  /\ UNCHANGED <<senderRouter, target, remoteReceiver>>

SetReceiverRouter(caller, r) ==
  /\ ReceiverSetter(caller)
  /\ r # Nobody
  /\ receiverRouter' = r
  /\ UNCHANGED <<baseReceiverOwner, trustedForwarder, baseTrustedAdjudicator>>

SetTrustedForwarder(caller, f) ==
  /\ ReceiverSetter(caller)
  /\ f # Nobody
  /\ trustedForwarder' = f
  /\ UNCHANGED <<baseReceiverOwner, receiverRouter, baseTrustedAdjudicator>>

SetBaseTrustedAdjudicator(caller, adjudicator) ==
  /\ ReceiverSetter(caller)
  /\ adjudicator # Nobody
  /\ baseTrustedAdjudicator' = adjudicator
  /\ UNCHANGED <<baseReceiverOwner, receiverRouter, trustedForwarder>>

TransferBaseReceiver(caller, newOwner) ==
  /\ ReceiverSetter(caller)
  /\ newOwner # Nobody
  /\ baseReceiverOwner' = newOwner
  /\ UNCHANGED <<receiverRouter, trustedForwarder, baseTrustedAdjudicator>>

BridgeConfigured ==
  \E caller \in BridgeOwners :
    \/ \E r \in Routers :
          SetSenderRouter(caller, r) \/ SetReceiverRouter(caller, r)
    \/ \E h \in HubReceivers : SetRemote(caller, h)
    \/ \E a \in Adjudicators :
          \/ SetTargetGenLayerReceiver(caller, a)
          \/ SetBaseTrustedAdjudicator(caller, a)
    \/ \E f \in Forwarders : SetTrustedForwarder(caller, f)
    \/ \E o \in BridgeOwners :
          TransferSender(caller, o) \/ TransferBaseReceiver(caller, o)

-----------------------------------------------------------------------------
(***************************************************************************)
(* Everything on Base but withdrawals, which touch nothing of the bridge,  *)
(* and the arrival of packets, which depends on what the hub sent.         *)
(***************************************************************************)
BaseActs ==
  \/ \E id \in RequestIds, deliveryFee \in 0 .. RequestFee :
        BridgeRequest(id, RequestFee, deliveryFee)
  \/ \E id \in DOMAIN requests : Retried(id)
  \/ CallEnds
  \/ CallReverts
  \/ TransactionReverts
  \/ BlockTimePasses

-----------------------------------------------------------------------------
(***************************************************************************)
(* Properties.                                                             *)
(***************************************************************************)
(***************************************************************************)
(* Whatever is rolled back, every request the router stores was sent       *)
(* exactly once, no message is under way for one it does not store, and    *)
(* the sender never gives one nonce to two messages, so that message ids   *)
(* are unique (requestDecision stores and dispatches; ++messageNonce).     *)
(***************************************************************************)
OneMessagePerRequest ==
  /\ {outbound[i].requestId : i \in DOMAIN outbound} = DOMAIN requests
  /\ \A i, j \in DOMAIN outbound :
        \/ i = j
        \/ /\ outbound[i].requestId # outbound[j].requestId
           /\ outbound[i].id.nonce # outbound[j].id.nonce
=============================================================================
