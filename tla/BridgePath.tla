----------------------------- MODULE BridgePath -----------------------------
(***************************************************************************)
(* The way of a request and of its verdict through the four systems: the   *)
(* router and the bridge's ends on Base (BaseBridge), the hub's receiver   *)
(* and forwarder (HubForwarderQuorum), and the adjudicator on GenLayer     *)
(* (Adjudicator).  LayerZero carries `outbound' to the hub and `forwarded' *)
(* back, late, in any order and again and again; the relay carries what    *)
(* the hub received to the adjudicator, and signers who did not lose their *)
(* key attest what the adjudicator stored.                                 *)
(*                                                                         *)
(* The contracts start as the deployment scripts leave them.               *)
(***************************************************************************)
EXTENDS BaseBridge, FiniteSets, Functions

CONSTANTS
  HubOwners, HubRelayer, HubReceiver, HubForwarder,
  Strangers,        \* contracts on the hub that are not the forwarder
  Signers, InitialSigners, InitialQuorum,
  Compromised,      \* signers whose keys others have, too
  Forger, MaxEpoch, MaxAttestations,
  AdjudicatorContract, Submitters, AdjudicatorOwners, NumValidators, OtherBodies

(***************************************************************************)
(* What the path is safe from: fewer lost keys than the quorum.            *)
(***************************************************************************)
ASSUME PathConstants ==
  /\ Adjudicators = {AdjudicatorContract}
  /\ HubReceiver \in HubReceivers
  /\ HubForwarder \in Forwarders
  /\ Strangers \cap Forwarders = {}
  /\ InitialQuorum \in Nat /\ IsFiniteSet(Compromised)
  /\ Cardinality(Compromised) < InitialQuorum
  /\ NumValidators \in Nat \ {0}
  /\ {"Committed", "Unusable"} \cap OtherBodies = {}

VARIABLES
  receiverOwner, trustedSender, hubRelayers, processedGuids, messages,
  forwarderOwner, signerList, authorizedSigners, quorum, signerEpoch,
  authorizedRelayers, trustedGenLayerSender, trustedOriginRouter,
  destinationSet, hubReceiverSet, usedResultTxHashes, forwarded, configurations,
  adjudicatorOwner, authorizedSubmitter, results, requestOrder, execution

MessageIds ==
  [router : {Router}, requestId : RequestIds, nonce : Nat]

Hub == INSTANCE HubForwarderQuorum WITH
  Senders <- {LzSender},
  Relayers <- {HubRelayer},
  Packets <-
    [guid : Nat, sender : {LzSender},
     message : [id : MessageIds, requestId : RequestIds, router : {Router},
                target : Adjudicators]],
  Results <-
    [txHash : ResultHashes, requestId : RequestIds, decision : Verdicts,
     policyHash : Policies, evidenceHash : Evidence,
     originMessageId : MessageIds, adjudicator : Adjudicators, router : {Router}]

GenLayer == INSTANCE Adjudicator

hubReceiverVars == <<receiverOwner, trustedSender, hubRelayers, processedGuids,
                     messages>>
hubForwarderVars == <<forwarderOwner, signerList, authorizedSigners, quorum,
                      signerEpoch, authorizedRelayers, trustedGenLayerSender,
                      trustedOriginRouter, destinationSet, hubReceiverSet,
                      usedResultTxHashes, forwarded, configurations>>
hubVars == <<hubReceiverVars, hubForwarderVars>>
genLayerVars == <<adjudicatorOwner, authorizedSubmitter, results, requestOrder,
                  execution>>
pathVars == <<baseVars, hubVars, genLayerVars>>

(***************************************************************************)
(* ConfigureHub.s.sol and ConfigureHubQuorum.s.sol.                        *)
(***************************************************************************)
HubConnected ==
  /\ receiverOwner \in HubOwners
  /\ trustedSender = LzSender
  /\ hubRelayers = {HubRelayer}
  /\ processedGuids = {}
  /\ messages = [id \in {} |-> <<>>]
  /\ forwarderOwner \in HubOwners
  /\ signerList = InitialSigners
  /\ authorizedSigners = Range(InitialSigners)
  /\ quorum = InitialQuorum
  /\ signerEpoch = 1
  /\ configurations = <<Hub!Configuration(Range(InitialSigners), InitialQuorum)>>
  /\ authorizedRelayers = {HubRelayer}
  /\ trustedGenLayerSender = AdjudicatorContract
  /\ trustedOriginRouter = Router
  /\ destinationSet = TRUE
  /\ hubReceiverSet = TRUE
  /\ usedResultTxHashes = {}
  /\ forwarded = <<>>

RouterConnected ==
  /\ requests = [id \in {} |-> <<>>]
  /\ deliveries = [id \in {} |-> 0]
  /\ latestNonce = [a \in Applications |-> 0]
  /\ accruedFees = 0 /\ balance = 0
  /\ owner \in Owners
  /\ transport = LzSender
  /\ resultReceiver = LzReceiver
  /\ paused = FALSE
  /\ now = 0
  /\ frames = <<>>
  /\ committed = Storage

PathInit ==
  /\ RouterConnected
  /\ BridgeConnected(HubForwarder, AdjudicatorContract)
  /\ HubConnected
  /\ GenLayer!AdjudicatorInit

-----------------------------------------------------------------------------
OnBase == UNCHANGED <<hubVars, genLayerVars>>
OnHub == UNCHANGED <<baseVars, genLayerVars>>
OnGenLayer == UNCHANGED <<baseVars, hubVars>>

BaseRuns == (BaseActs \/ RouterConfigured \/ BridgeConfigured) /\ OnBase

(***************************************************************************)
(* LayerZero carries what a finished transaction on Base sent.             *)
(***************************************************************************)
OnItsWay(i) ==
  /\ i \in DOMAIN bridgeCommitted.outbound
  /\ bridgeCommitted.outbound[i].to = HubReceiver

ArrivesAtHub(i) ==
  /\ OnItsWay(i)
  /\ LET m == bridgeCommitted.outbound[i]
     IN Hub!LzReceive([guid |-> i, sender |-> LzSender,
                       message |-> [id |-> m.id, requestId |-> m.requestId,
                                    router |-> m.router, target |-> m.target]])
  /\ UNCHANGED hubForwarderVars
  /\ OnHub

(***************************************************************************)
(* The relay submits what the hub received, as often as it likes, and      *)
(* marks it as relayed.                                                    *)
(***************************************************************************)
SubmittedToGenLayer(id) ==
  /\ \E s \in Submitters :
        GenLayer!Adjudicate(s, [request |-> messages[id].message.requestId,
                                spelling |-> "lower"])
  /\ OnGenLayer

Relayed(id) ==
  /\ Hub!MarkRelayed(HubRelayer, id)
  /\ UNCHANGED hubForwarderVars
  /\ OnHub

GenLayerRuns == (GenLayer!Executes \/ GenLayer!Administers) /\ OnGenLayer

(***************************************************************************)
(* Results and attestations.  Whoever keeps a key for itself signs only    *)
(* what the adjudicator stored; compromised keys sign anything.            *)
(***************************************************************************)
ResultFor(id, decision, txHash) ==
  LET request == messages[id].message.requestId
  IN [txHash |-> txHash, requestId |-> request, decision |-> decision,
      policyHash |-> request.policyHash, evidenceHash |-> request.evidenceHash,
      originMessageId |-> id, adjudicator |-> AdjudicatorContract,
      router |-> Router]

StoredFor(request, decision) ==
  LET key == [request |-> request, spelling |-> "lower"]
  IN key \in DOMAIN results /\ results[key].decision = decision

MaySign(result) ==
  Compromised \cup
    (IF StoredFor(result.requestId, result.decision) THEN Signers ELSE {})

AttestationsOf(result) ==
  [signer : MaySign(result),
   digest : [result : {result}, epoch : {1, signerEpoch}]]

Forwarded(id) ==
  /\ messages[id].relayed   \* anything else is refused in any case
  /\ \E d \in Verdicts, h \in ResultHashes \ usedResultTxHashes,
        n \in quorum .. MaxAttestations :
       LET result == ResultFor(id, d, h)
       IN \E attestations \in [1 .. n -> AttestationsOf(result)] :
            Hub!ForwardResult(HubRelayer, h, result, attestations)
  /\ OnHub

(***************************************************************************)
(* The owner of the hub's contracts keeps the quorum above the number of   *)
(* keys it lost.                                                           *)
(***************************************************************************)
SignersChange ==
  /\ \E o \in HubOwners : Hub!AdministersSigners(o)
  /\ quorum' > Cardinality(Compromised)
  /\ UNCHANGED hubReceiverVars
  /\ OnHub

(***************************************************************************)
(* LayerZero carries what the forwarder sent, and what strangers send.     *)
(***************************************************************************)
ArrivesAtBase(i) ==
  /\ LzReceive([guid |-> [from |-> HubForwarder, nr |-> i],
                sender |-> HubForwarder, message |-> forwarded[i].result])
  /\ OnBase

StrangerSends(id) ==
  /\ \E s \in Strangers, d \in Verdicts, h \in ResultHashes :
        LzReceive([guid |-> [from |-> s, nr |-> 1], sender |-> s,
                   message |-> ResultFor(id, d, h)])
  /\ OnBase

PathNext ==
  \/ BaseRuns
  \/ \E i \in 1 .. Len(bridgeCommitted.outbound) : ArrivesAtHub(i)
  \/ \E id \in DOMAIN messages :
        SubmittedToGenLayer(id) \/ Relayed(id) \/ Forwarded(id) \/ StrangerSends(id)
  \/ GenLayerRuns
  \/ SignersChange
  \/ \E i \in 1 .. Len(forwarded) : ArrivesAtBase(i)

PathSpec == PathInit /\ [][PathNext]_pathVars

-----------------------------------------------------------------------------
(***************************************************************************)
(* Properties.                                                             *)
(***************************************************************************)
Answered == {id \in DOMAIN requests : requests[id].decision # "None"}

(***************************************************************************)
(* The verdict the router records is the one the adjudicator stored, which *)
(* a majority of validators based on the same evidence, whatever was       *)
(* lost, repeated, attested by compromised keys or sent by strangers, and  *)
(* whatever changed in between.  It stays so: a request that is submitted  *)
(* again does not replace its result (adjudicate, results.get).            *)
(***************************************************************************)
VerdictIsAdjudicated ==
  \A id \in Answered :
    LET key == [request |-> id, spelling |-> "lower"]
    IN /\ StoredFor(id, requests[id].decision)
       /\ GenLayer!RestsOnEvidence(results[key])

(***************************************************************************)
(* A packet is used up exactly when it has answered a request: none is     *)
(* lost in a transaction that failed, and none answers twice               *)
(* (processedGuids and handleResult stand or fall together).               *)
(***************************************************************************)
ResultOf(guid) == forwarded[guid.nr].result

PacketPerVerdict ==
  /\ \A g \in baseGuids :
        /\ ResultOf(g).requestId \in Answered
        /\ requests[ResultOf(g).requestId].decision = ResultOf(g).decision
        /\ requests[ResultOf(g).requestId].resultTxHash = ResultOf(g).txHash
  /\ \A id \in Answered : \E g \in baseGuids : ResultOf(g).requestId = id
  /\ \A g, h \in baseGuids : ResultOf(g).requestId = ResultOf(h).requestId => g = h
=============================================================================
