----------------------------- MODULE HubReceiver -----------------------------
(***************************************************************************)
(* contracts/src/transport/LayerZeroHubReceiver.sol: the contract on the   *)
(* hub that stores the requests LayerZero delivers from Base, until a      *)
(* relayer has carried them to GenLayer and marks them as relayed.         *)
(*                                                                         *)
(* A packet is a record [guid, sender, message]; `sender' is the contract  *)
(* on Base that sent it and `message' the record [id, requestId, router,   *)
(* target] it encodes.  One remote chain, and so one trusted sender, is    *)
(* modelled; the source chain id a message names is a constant of its      *)
(* sender.                                                                 *)
(***************************************************************************)
EXTENDS Naturals

CONSTANTS
  Packets,          \* what the LayerZero endpoint may deliver to the hub
  Senders,          \* contracts on Base that may send to the hub
  Relayers,         \* accounts that may be authorized to relay
  HubOwners,        \* accounts that may own the hub's contracts
  Nobody            \* the zero address

ASSUME HubConstants ==
  /\ Packets \subseteq
       [guid : {p.guid : p \in Packets}, sender : Senders,
        message : {p.message : p \in Packets}]
  /\ HubOwners # {}
  /\ Nobody \notin Senders \cup HubOwners

Messages == {p.message : p \in Packets}
MessageIds == {m.id : m \in Messages}

VARIABLES
  receiverOwner,
  trustedSender,    \* trustedSenders[eid] of Base
  hubRelayers,      \* authorizedRelayers of the receiver
  processedGuids,
  messages          \* [stored message ids -> the message and `relayed']

receiverVars == <<receiverOwner, trustedSender, hubRelayers, processedGuids, messages>>

ReceiverInit ==
  /\ receiverOwner \in HubOwners
  /\ trustedSender = Nobody
  /\ hubRelayers = {}
  /\ processedGuids = {}
  /\ messages = [id \in {} |-> <<>>]

SetTrustedSender(caller, sender) ==
  /\ caller = receiverOwner
  /\ sender # Nobody
  /\ trustedSender' = sender
  /\ UNCHANGED <<receiverOwner, hubRelayers, processedGuids, messages>>

SetHubRelayer(caller, relayer, authorized) ==
  /\ caller = receiverOwner
  /\ hubRelayers' = IF authorized THEN hubRelayers \cup {relayer}
                                  ELSE hubRelayers \ {relayer}
  /\ UNCHANGED <<receiverOwner, trustedSender, processedGuids, messages>>

TransferReceiverOwnership(caller, newOwner) ==
  /\ caller = receiverOwner
  /\ newOwner # Nobody
  /\ receiverOwner' = newOwner
  /\ UNCHANGED <<trustedSender, hubRelayers, processedGuids, messages>>

(***************************************************************************)
(* lzReceive: the endpoint may try a verified packet again and again.      *)
(***************************************************************************)
NotStored(id) == id \notin DOMAIN messages

LzReceive(p) ==
  /\ p.sender = trustedSender
  /\ p.guid \notin processedGuids
  /\ NotStored(p.message.id)
  /\ processedGuids' = processedGuids \cup {p.guid}
  /\ messages' = [id \in DOMAIN messages \cup {p.message.id} |->
                    IF id = p.message.id
                    THEN [message |-> p.message, relayed |-> FALSE]
                    ELSE messages[id]]
  /\ UNCHANGED <<receiverOwner, trustedSender, hubRelayers>>

MarkRelayed(caller, id) ==
  /\ caller \in hubRelayers
  /\ id \in DOMAIN messages
  /\ ~messages[id].relayed
  /\ messages' = [messages EXCEPT ![id].relayed = TRUE]
  /\ UNCHANGED <<receiverOwner, trustedSender, hubRelayers, processedGuids>>

ReceiverNext ==
  \/ \E o \in HubOwners, s \in Senders : SetTrustedSender(o, s)
  \/ \E o \in HubOwners, r \in Relayers, b \in BOOLEAN : SetHubRelayer(o, r, b)
  \/ \E o, n \in HubOwners : TransferReceiverOwnership(o, n)
  \/ \E p \in Packets : LzReceive(p)
  \/ \E r \in Relayers, id \in MessageIds : MarkRelayed(r, id)
=============================================================================
