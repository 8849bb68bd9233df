------------------------- MODULE HubForwarderQuorum -------------------------
(***************************************************************************)
(* contracts/src/transport/LayerZeroHubForwarderQuorum.sol: the contract   *)
(* on the hub that sends a verdict back to Base, if a quorum of authorized *)
(* signers attested it for a request the hub receiver holds as relayed.    *)
(*                                                                         *)
(* The attested digest is a hash of the result, of the message that        *)
(* carries it and of signerEpoch, so here it is the record [result,        *)
(* epoch].  A result is [txHash, requestId, decision, originMessageId,     *)
(* adjudicator, router], its commitments included in `decision'.           *)
(* Attestations come from keys off the chain: whoever holds a key may have *)
(* signed any digest the contract ever showed, hence forwardResult is      *)
(* given any sequence of signatures of epochs up to the current one.       *)
(* One destination chain is modelled, and one hub receiver.                *)
(***************************************************************************)
EXTENDS HubReceiver, Sequences, FiniteSets, Functions

CONSTANTS
  Signers,          \* accounts that may be authorized to attest
  Forger,           \* stands for a signature that recovers to no signer
  InitialSigners,   \* signers_ of the constructor, a sequence
  InitialQuorum,    \* quorum_ of the constructor
  Results,          \* results a relayer may submit
  Routers,          \* contracts on Base that may be the origin router
  Adjudicators,     \* contracts on GenLayer that may be trusted
  NoHash,           \* the zero hash
  MaxEpoch,         \* bound: configurations tried
  MaxAttestations   \* bound: attestations in one call

(* _setSigners, in the constructor *)
ASSUME ForwarderConstants ==
  /\ IsFiniteSet(Signers)
  /\ InitialSigners \in Seq(Signers)
  /\ \A i, j \in 1 .. Len(InitialSigners) :
        InitialSigners[i] = InitialSigners[j] => i = j
  /\ InitialQuorum \in Nat
  /\ 2 <= InitialQuorum /\ InitialQuorum <= Len(InitialSigners)
  /\ Forger \notin Signers
  /\ Nobody \notin Routers \cup Adjudicators
  /\ MaxEpoch \in Nat /\ MaxAttestations \in Nat

VARIABLES
  forwarderOwner,
  signerList, authorizedSigners, quorum, signerEpoch,
  authorizedRelayers, trustedGenLayerSender, trustedOriginRouter,
  destinationSet,   \* destinationReceivers[eid] of Base is set
  hubReceiverSet,   \* hubReceiver is set
  usedResultTxHashes,
  forwarded,        \* history: [result, epoch, attestations] of the messages sent
  configurations    \* history: what epoch e stood for when it began

signing == <<signerList, authorizedSigners, quorum, signerEpoch, configurations>>
routing == <<forwarderOwner, authorizedRelayers, trustedGenLayerSender, trustedOriginRouter,
             destinationSet, hubReceiverSet>>
sent == <<usedResultTxHashes, forwarded>>
forwarderVars == <<signing, routing, sent>>
hubVars == <<receiverVars, forwarderVars>>

Configuration(signers, q) == [signers |-> signers, quorum |-> q]

ForwarderInit ==
  /\ forwarderOwner \in HubOwners
  /\ signerList = InitialSigners
  /\ authorizedSigners = Range(InitialSigners)
  /\ quorum = InitialQuorum
  /\ signerEpoch = 1
  /\ configurations = <<Configuration(Range(InitialSigners), InitialQuorum)>>
  /\ authorizedRelayers = {}
  /\ trustedGenLayerSender = Nobody
  /\ trustedOriginRouter = Nobody
  /\ destinationSet = FALSE
  /\ hubReceiverSet = FALSE
  /\ usedResultTxHashes = {}
  /\ forwarded = <<>>

-----------------------------------------------------------------------------
(***************************************************************************)
(* The signers.  setSigner changes the list first and reverts if what is   *)
(* left cannot reach the quorum.                                           *)
(***************************************************************************)
Added(list, s) == Append(list, s)

Removed_Shifted(list, s) ==
  SubSeq(list, 1, Len(list) - 1)
Removed(list, s) ==
  LET i == CHOOSE k \in 1 .. Len(list) : list[k] = s
      moved == [list EXCEPT ![i] = list[Len(list)]]
  IN SubSeq(moved, 1, Len(list) - 1)

EpochAfterSigner(authorized) == signerEpoch + 1

EpochAfterQuorum_Kept == signerEpoch
EpochAfterQuorum == signerEpoch + 1

(* History only: the configuration an epoch starts with. *)
Recorded(signers, q) ==
  IF signerEpoch' = signerEpoch
  THEN configurations
  ELSE Append(configurations, Configuration(signers, q))

SetSigner(caller, s, authorized) ==
  /\ caller = forwarderOwner
  /\ authorized # (s \in authorizedSigners)
  /\ signerList' = IF authorized THEN Added(signerList, s)
                                 ELSE Removed(signerList, s)
  /\ authorizedSigners' = IF authorized THEN authorizedSigners \cup {s}
                                        ELSE authorizedSigners \ {s}
  /\ quorum >= 2
  /\ quorum <= Len(signerList')
  /\ signerEpoch' = EpochAfterSigner(authorized)
  /\ configurations' = Recorded(authorizedSigners', quorum)
  /\ UNCHANGED <<quorum, routing, sent>>

(* One signer is in reach too, although the constructor, setSigner and the *)
(* documents (docs/MAINNET_READINESS.md:9) ask for two.                    *)
QuorumInReach(q) == q # 0 /\ q <= Len(signerList)

SetQuorum(caller, q) ==
  /\ caller = forwarderOwner
  /\ QuorumInReach(q)
  /\ quorum' = q
  /\ signerEpoch' = EpochAfterQuorum
  /\ configurations' = Recorded(authorizedSigners, q)
  /\ UNCHANGED <<signerList, authorizedSigners, routing, sent>>

-----------------------------------------------------------------------------
(***************************************************************************)
(* The route.                                                              *)
(***************************************************************************)
SetRelayer(caller, relayer, authorized) ==
  /\ caller = forwarderOwner
  /\ authorizedRelayers' = IF authorized THEN authorizedRelayers \cup {relayer}
                                         ELSE authorizedRelayers \ {relayer}
  /\ UNCHANGED <<signing, sent, forwarderOwner, trustedGenLayerSender,
                 trustedOriginRouter, destinationSet, hubReceiverSet>>

SetDestination(caller) ==
  /\ caller = forwarderOwner
  /\ destinationSet' = TRUE
  /\ UNCHANGED <<signing, sent, forwarderOwner, authorizedRelayers,
                 trustedGenLayerSender, trustedOriginRouter, hubReceiverSet>>

SetTrustedGenLayerSender(caller, adjudicator) ==
  /\ caller = forwarderOwner
  /\ trustedGenLayerSender' = adjudicator
  /\ UNCHANGED <<signing, sent, forwarderOwner, authorizedRelayers,
                 trustedOriginRouter, destinationSet, hubReceiverSet>>

SetTrustedOriginRouter(caller, router) ==
  /\ caller = forwarderOwner
  /\ trustedOriginRouter' = router
  /\ UNCHANGED <<signing, sent, forwarderOwner, authorizedRelayers,
                 trustedGenLayerSender, destinationSet, hubReceiverSet>>

SetHubReceiver(caller) ==
  /\ caller = forwarderOwner
  /\ hubReceiverSet' = TRUE
  /\ UNCHANGED <<signing, sent, forwarderOwner, authorizedRelayers,
                 trustedGenLayerSender, trustedOriginRouter, destinationSet>>

TransferForwarderOwnership(caller, newOwner) ==
  /\ caller = forwarderOwner
  /\ newOwner # Nobody
  /\ forwarderOwner' = newOwner
  /\ UNCHANGED <<signing, sent, authorizedRelayers, trustedGenLayerSender,
                 trustedOriginRouter, destinationSet, hubReceiverSet>>

-----------------------------------------------------------------------------
Digest(result) == [result |-> result, epoch |-> signerEpoch]

(***************************************************************************)
(* _verifyQuorum: enough attestations, and not one of them by a stranger,  *)
(* of another digest (it then recovers to a stranger) or by a signer who   *)
(* is in the list already.                                                 *)
(***************************************************************************)
DistinctSigners_Unchecked(attestations) == TRUE
DistinctSigners(attestations) ==
  \A i, j \in DOMAIN attestations :
    attestations[i].signer = attestations[j].signer => i = j

Recovers(a, result) == a.digest = Digest(result)

VerifyQuorum(result, attestations) ==
  /\ Len(attestations) >= quorum
  /\ \A i \in DOMAIN attestations :
        /\ Recovers(attestations[i], result)
        /\ attestations[i].signer \in authorizedSigners
  /\ DistinctSigners(attestations)

(***************************************************************************)
(* The request a result answers is the one the receiver stored under the   *)
(* message id the result names, and it was relayed.                        *)
(***************************************************************************)
AnswersStoredRequest_AnyRequest(result) ==
  /\ result.originMessageId \in DOMAIN messages
  /\ LET pending == messages[result.originMessageId]
     IN /\ pending.relayed
        /\ pending.message.target = trustedGenLayerSender
        /\ pending.message.router = trustedOriginRouter
AnswersStoredRequest(result) ==
  /\ result.originMessageId \in DOMAIN messages
  /\ LET pending == messages[result.originMessageId]
     IN /\ pending.relayed
        /\ pending.message.target = trustedGenLayerSender
        /\ pending.message.router = trustedOriginRouter
        /\ pending.message.requestId = result.requestId

UsedAfter_Kept(txHash) == usedResultTxHashes
UsedAfter(txHash) == usedResultTxHashes \cup {txHash}

ForwardResult(caller, txHash, result, attestations) ==
  /\ caller \in authorizedRelayers
  /\ txHash # NoHash
  /\ txHash \notin usedResultTxHashes
  /\ result.adjudicator = trustedGenLayerSender
  /\ trustedOriginRouter # Nobody
  /\ result.router = trustedOriginRouter
  /\ hubReceiverSet
  /\ AnswersStoredRequest(result)
  /\ result.txHash = txHash
  /\ VerifyQuorum(result, attestations)
  /\ destinationSet
  /\ usedResultTxHashes' = UsedAfter(txHash)
  /\ forwarded' = Append(forwarded,
       [result |-> result, epoch |-> signerEpoch,
        attestations |-> {attestations[i] : i \in DOMAIN attestations}])
  /\ UNCHANGED <<receiverVars, signing, routing>>

-----------------------------------------------------------------------------
(***************************************************************************)
(* Signatures of digests the contract has shown so far; the first epoch    *)
(* stands for every epoch that is over.                                    *)
(***************************************************************************)
Attestations ==
  [signer : Signers \cup {Forger},
   digest : [result : Results, epoch : {1, signerEpoch}]]

AdministersSigners(caller) ==
  /\ signerEpoch < MaxEpoch
  /\ \/ \E s \in Signers, b \in BOOLEAN : SetSigner(caller, s, b)
     \/ \E q \in 0 .. Cardinality(Signers) + 1 : SetQuorum(caller, q)

AdministersRoute(caller) ==
  \/ \E r \in Relayers, b \in BOOLEAN : SetRelayer(caller, r, b)
  \/ SetDestination(caller)
  \/ \E a \in Adjudicators : SetTrustedGenLayerSender(caller, a)
  \/ \E r \in Routers : SetTrustedOriginRouter(caller, r)
  \/ SetHubReceiver(caller)
  \/ \E o \in HubOwners : TransferForwarderOwnership(caller, o)

Forwards ==
  \E r \in Relayers, result \in Results, n \in 1 .. MaxAttestations :
    \E txHash \in {x.txHash : x \in Results},
       attestations \in [1 .. n -> Attestations] :
      ForwardResult(r, txHash, result, attestations)

ReceiverActs == ReceiverNext /\ UNCHANGED forwarderVars

HubNext ==
  \/ ReceiverActs
  \/ /\ \E o \in HubOwners : AdministersSigners(o) \/ AdministersRoute(o)
     /\ UNCHANGED receiverVars
  \/ Forwards

HubInit == ReceiverInit /\ ForwarderInit

HubSpec == HubInit /\ [][HubNext]_hubVars

-----------------------------------------------------------------------------
(***************************************************************************)
(* Properties.                                                             *)
(***************************************************************************)
(***************************************************************************)
(* The list and the mapping name the same signers, each once, and they     *)
(* suffice for the quorum, whatever is added and removed (setSigner's swap *)
(* with the last entry, setQuorum, the constructor's _setSigners).         *)
(***************************************************************************)
QuorumStaysReachable ==
  /\ authorizedSigners = {signerList[i] : i \in 1 .. Len(signerList)}
  /\ \A i, j \in 1 .. Len(signerList) : signerList[i] = signerList[j] => i = j
  /\ quorum <= Len(signerList)

(***************************************************************************)
(* An epoch stands for one set of signers and one quorum: whoever signed   *)
(* in an epoch knows who else had to (setSigner and setQuorum increment    *)
(* signerEpoch).                                                           *)
(***************************************************************************)
EpochFixesConfiguration ==
  /\ Len(configurations) = signerEpoch
  /\ configurations[signerEpoch] = Configuration(authorizedSigners, quorum)

(***************************************************************************)
(* What was sent to Base was attested by as many different signers as its  *)
(* epoch asked for, all of them authorized in that epoch; signatures of an *)
(* earlier epoch, and two by one signer, do not add up to a quorum.        *)
(***************************************************************************)
ForwardedByQuorum ==
  \A i \in DOMAIN forwarded :
    LET f == forwarded[i]
        c == configurations[f.epoch]
        attested == [result |-> f.result, epoch |-> f.epoch]
        signers == {a.signer : a \in {b \in f.attestations : b.digest = attested}}
    IN Cardinality(signers \cap c.signers) >= c.quorum

(***************************************************************************)
(* A GenLayer transaction is answered to Base once, even if the relayer,   *)
(* the signers and the trusted contracts change in between.                *)
(***************************************************************************)
ForwardedOnce ==
  \A i, j \in DOMAIN forwarded :
    forwarded[i].result.txHash = forwarded[j].result.txHash => i = j

(***************************************************************************)
(* Whatever was sent to Base answers a request the hub received and a      *)
(* relayer marked as relayed, with the request id, the router and the      *)
(* adjudicator of the stored message.                                      *)
(***************************************************************************)
ForwardedAnswersRelayed ==
  \A i \in DOMAIN forwarded :
    LET r == forwarded[i].result
    IN /\ r.originMessageId \in DOMAIN messages
       /\ messages[r.originMessageId].relayed
       /\ messages[r.originMessageId].message.requestId = r.requestId
       /\ messages[r.originMessageId].message.router = r.router
       /\ messages[r.originMessageId].message.target = r.adjudicator
=============================================================================
