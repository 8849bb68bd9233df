---------------------- MODULE HubForwarderQuorumProofs ----------------------
(***************************************************************************)
(* Proofs about HubForwarderQuorum, for any number of signers, any quorum  *)
(* the constructor accepts and any sequence of changes to both.            *)
(*                                                                         *)
(* The inductive invariant has a part for each of the three things the     *)
(* contract keeps: the signers (SignersInv), what the epochs stood for     *)
(* (EpochsInv) and what was sent (SentInv); the fourth, StoredInv, is      *)
(* about the receiver whose requests the forwarder answers.                *)
(***************************************************************************)
EXTENDS HubForwarderQuorum, SequenceTheorems, FiniteSetTheorems, TLAPS

SomeConfiguration == [signers : SUBSET Signers, quorum : Nat]
SomeDigest == [result : Results, epoch : Nat]
SomeAttestation == [signer : Signers \cup {Forger}, digest : SomeDigest]
SomeForwarded == [result : Results, epoch : Nat, attestations : SUBSET SomeAttestation]

Distinct(list) == \A i, j \in 1 .. Len(list) : list[i] = list[j] => i = j

SignersInv ==
  /\ signerList \in Seq(Signers)
  /\ quorum \in Nat
  /\ QuorumStaysReachable

EpochsInv ==
  /\ signerEpoch \in Nat \ {0}
  /\ configurations \in Seq(SomeConfiguration)
  /\ EpochFixesConfiguration

(* What one message took to be sent, by the configuration of its epoch. *)
AttestedBy(f, c) ==
  Cardinality({a.signer : a \in {b \in f.attestations :
                 b.digest = [result |-> f.result, epoch |-> f.epoch]}} \cap c.signers)
    >= c.quorum

SentInv ==
  /\ forwarded \in Seq(SomeForwarded)
  /\ \A i \in 1 .. Len(forwarded) :
       /\ forwarded[i].epoch \in 1 .. signerEpoch
       /\ AttestedBy(forwarded[i], configurations[forwarded[i].epoch])
       /\ forwarded[i].result.txHash \in usedResultTxHashes
  /\ ForwardedOnce

Stored == [message : Messages, relayed : BOOLEAN]

StoredInv ==
  /\ messages \in [DOMAIN messages -> Stored]
  /\ ForwardedAnswersRelayed

HubInv == SignersInv /\ EpochsInv /\ SentInv /\ StoredInv

-----------------------------------------------------------------------------
(***************************************************************************)
(* The list of signers: what Added and Removed do to it.                   *)
(***************************************************************************)
(* The set of a list's entries, as SetSigner's mapping has to follow it. *)
Entries(list) == {list[i] : i \in 1 .. Len(list)}

(* push of a signer who is not in the list. *)
LEMMA AddedEntries ==
  ASSUME NEW list \in Seq(Signers), Distinct(list), NEW s \in Signers, s \notin Entries(list)
  PROVE  /\ Added(list, s) \in Seq(Signers)
         /\ Len(Added(list, s)) = Len(list) + 1
         /\ Distinct(Added(list, s))
         /\ Entries(Added(list, s)) = Entries(list) \cup {s}
<1> DEFINE longer == Added(list, s)
<1>1. /\ longer \in Seq(Signers)
      /\ Len(longer) = Len(list) + 1
      /\ \A i \in 1 .. Len(list) : longer[i] = list[i]
      /\ longer[Len(list) + 1] = s
  BY DEF Added
<1>2. Len(list) \in Nat
  OBVIOUS
<1> HIDE DEF longer
<1>3. Distinct(longer)
  BY <1>1, <1>2 DEF Distinct, Entries
<1>4. Entries(longer) = Entries(list) \cup {s}
  BY <1>1, <1>2 DEF Entries
<1>5. QED BY <1>1, <1>3, <1>4 DEF longer

(* The last signer moves to the place of the one that leaves, and the list *)
(* loses its last place.                                                   *)
LEMMA RemovedEntries ==
  ASSUME NEW list \in Seq(Signers), Distinct(list), NEW s \in Entries(list)
  PROVE  /\ Removed(list, s) \in Seq(Signers)
         /\ Len(Removed(list, s)) = Len(list) - 1
         /\ Distinct(Removed(list, s))
         /\ Entries(Removed(list, s)) = Entries(list) \ {s}
<1> DEFINE n == Len(list)
           at == CHOOSE k \in 1 .. Len(list) : list[k] = s
           moved == [list EXCEPT ![at] = list[Len(list)]]
           shorter == SubSeq(moved, 1, Len(list) - 1)
<1>1. n \in Nat /\ n >= 1
  BY DEF Entries
<1>2. at \in 1 .. n /\ list[at] = s
  BY DEF Entries
<1>3. \A i \in 1 .. n : list[i] \in Signers
  BY ElementOfSeq
<1> HIDE DEF at
<1>4. /\ moved \in Seq(Signers)
      /\ Len(moved) = n
      /\ \A i \in 1 .. n : moved[i] = IF i = at THEN list[n] ELSE list[i]
  BY <1>1, <1>2, <1>3, ExceptSeq
<1> HIDE DEF moved
<1>5. \A i \in 1 .. n - 1 : moved[i] \in Signers
  BY <1>1, <1>3, <1>4
<1>6. /\ shorter \in Seq(Signers)
      /\ Len(shorter) = n - 1
      /\ \A i \in 1 .. n - 1 : shorter[i] = moved[i]
  <2>1. 1 \in Int /\ n - 1 \in Int
    BY <1>1
  <2>2. /\ shorter \in Seq(Signers)
        /\ Len(shorter) = IF 1 <= n - 1 THEN (n - 1) - 1 + 1 ELSE 0
        /\ \A i \in 1 .. (n - 1) - 1 + 1 : shorter[i] = moved[1 + i - 1]
    BY <2>1, <1>5, SubSeqProperties
  <2> HIDE DEF shorter, n
  <2>3. QED BY <2>2, <1>1
<1>7. \A i \in 1 .. n - 1 : shorter[i] = IF i = at THEN list[n] ELSE list[i]
  BY <1>1, <1>4, <1>6
<1>8. \A i, j \in 1 .. n : list[i] = list[j] => i = j
  BY DEF Distinct
<1>9. Removed(list, s) = shorter
  BY DEF Removed, at, moved
<1> HIDE DEF shorter, n
<1>10. Distinct(shorter)
  BY <1>1, <1>2, <1>6, <1>7, <1>8 DEF Distinct
<1>11. Entries(shorter) = {shorter[i] : i \in 1 .. n - 1}
  BY <1>6 DEF Entries
<1>12. Entries(list) = {list[i] : i \in 1 .. n}
  BY DEF Entries, n
<1>13. \A x \in Entries(shorter) : x \in Entries(list) \ {s}
  BY <1>1, <1>2, <1>7, <1>8, <1>11, <1>12
<1>14. ASSUME NEW x \in Entries(list) \ {s}
       PROVE  x \in Entries(shorter)
  <2>1. PICK i \in 1 .. n : x = list[i]
    BY <1>12
  <2>2. i # at
    BY <2>1, <1>2
  <2>3. CASE i = n
    <3>1. at \in 1 .. n - 1 /\ shorter[at] = x
      BY <2>1, <2>2, <2>3, <1>1, <1>2, <1>7
    <3>2. QED BY <3>1, <1>11
  <2>4. CASE i # n
    <3>1. i \in 1 .. n - 1 /\ shorter[i] = x
      BY <2>1, <2>2, <2>4, <1>1, <1>7
    <3>2. QED BY <3>1, <1>11
  <2>5. QED BY <2>3, <2>4
<1>15. QED BY <1>6, <1>9, <1>10, <1>13, <1>14 DEF n

(* A list of distinct signers has as many entries as it has places: the    *)
(* mapping of SetSigner and setSigner's guard speak of the same signer.    *)
LEMMA ListNamesAuthorized ==
  ASSUME SignersInv
  PROVE  /\ Distinct(signerList)
         /\ Entries(signerList) = authorizedSigners
         /\ authorizedSigners \subseteq Signers
         /\ IsFiniteSet(authorizedSigners)
<1>1. Distinct(signerList) /\ Entries(signerList) = authorizedSigners
  BY DEF SignersInv, QuorumStaysReachable, Distinct, Entries
<1>2. authorizedSigners \subseteq Signers
  BY ElementOfSeq, <1>1 DEF SignersInv, Entries
<1>3. IsFiniteSet(authorizedSigners)
  BY <1>2, ForwarderConstants, FS_Subset
<1>4. QED BY <1>1, <1>2, <1>3

(***************************************************************************)
(* _verifyQuorum counts attestations; that no two are by one signer makes  *)
(* it a count of signers.                                                  *)
(***************************************************************************)
LEMMA QuorumOfSigners ==
  ASSUME SignersInv, EpochsInv, NEW n \in Nat, NEW attestations \in [1 .. n -> SomeAttestation],
         NEW result \in Results, VerifyQuorum(result, attestations)
  PROVE  AttestedBy([result |-> result, epoch |-> signerEpoch,
                     attestations |-> {attestations[i] : i \in DOMAIN attestations}],
                    Configuration(authorizedSigners, quorum))
<1> DEFINE digest == [result |-> result, epoch |-> signerEpoch]
           cast == {attestations[i] : i \in DOMAIN attestations}
           signers == {a.signer : a \in {b \in cast : b.digest = digest}} \cap authorizedSigners
           by == [i \in 1 .. n |-> attestations[i].signer]
<1>1. DOMAIN attestations = 1 .. n /\ Len(attestations) = n
  OBVIOUS
<1>2. /\ n >= quorum
      /\ \A i \in 1 .. n : /\ attestations[i].digest = digest
                           /\ attestations[i].signer \in authorizedSigners
      /\ \A i, j \in 1 .. n : attestations[i].signer = attestations[j].signer => i = j
  BY <1>1 DEF VerifyQuorum, Recovers, Digest, DistinctSigners
<1>3. \A i \in 1 .. n : attestations[i].signer \in signers
  BY <1>1, <1>2
<1> HIDE DEF signers
<1>4. by \in Injection(1 .. n, signers)
  BY <1>2, <1>3, Zenon DEF Injection, IsInjective
<1>5. IsFiniteSet(signers)
  <2>1. signers \in SUBSET authorizedSigners
    BY DEF signers
  <2>2. QED BY <2>1, ListNamesAuthorized, FS_Subset
<1>6. Cardinality(1 .. n) = n
  <2>1. 1 \in Int /\ n \in Int
    OBVIOUS
  <2>2. Cardinality(1 .. n) = IF 1 > n THEN 0 ELSE n - 1 + 1
    BY <2>1, FS_Interval
  <2>3. QED BY <2>2
<1>7. n <= Cardinality(signers) /\ Cardinality(signers) \in Nat
  BY <1>4, <1>5, <1>6, FS_Injection, FS_CardinalityType
<1>8. Cardinality(signers) >= quorum
  BY <1>2, <1>7 DEF SignersInv
<1>9. QED BY <1>8 DEF AttestedBy, Configuration, signers

-----------------------------------------------------------------------------
(* The signers of the constructor. *)
LEMMA InitHubInv == HubInit => HubInv
<1> SUFFICES ASSUME HubInit PROVE HubInv
  OBVIOUS
<1> USE DEF HubInit, ReceiverInit, ForwarderInit
<1>1. InitialSigners \in [1 .. Len(InitialSigners) -> Signers]
  BY ForwarderConstants, LenProperties
<1>2. Range(InitialSigners) = {InitialSigners[i] : i \in 1 .. Len(InitialSigners)}
  BY <1>1 DEF Range
<1>3. SignersInv
  BY <1>2, ForwarderConstants DEF SignersInv, QuorumStaysReachable
<1>4. EpochsInv
  <2>1. Configuration(Range(InitialSigners), InitialQuorum) \in SomeConfiguration
    BY <1>1, <1>2, ForwarderConstants DEF Configuration, SomeConfiguration
  <2>2. QED BY <2>1 DEF EpochsInv, EpochFixesConfiguration
<1>5. SentInv
  BY DEF SentInv, ForwardedOnce
<1>6. StoredInv
  BY DEF StoredInv, ForwardedAnswersRelayed
<1>7. QED BY <1>3, <1>4, <1>5, <1>6 DEF HubInv

(* A new epoch adds one configuration and leaves the earlier ones. *)
LEMMA EpochBegins ==
  ASSUME EpochsInv, NEW signers \in SUBSET Signers, NEW q \in Nat,
         signerEpoch' = signerEpoch + 1, configurations' = Recorded(signers, q),
         authorizedSigners' = signers, quorum' = q
  PROVE  /\ EpochsInv'
         /\ \A e \in 1 .. signerEpoch : configurations'[e] = configurations[e]
<1>1. configurations' = Append(configurations, Configuration(signers, q))
  BY DEF Recorded, EpochsInv
<1>2. Configuration(signers, q) \in SomeConfiguration
  BY DEF Configuration, SomeConfiguration
<1>3. /\ Len(configurations') = signerEpoch + 1
      /\ configurations' \in Seq(SomeConfiguration)
      /\ configurations'[signerEpoch + 1] = Configuration(signers, q)
      /\ \A e \in 1 .. signerEpoch : configurations'[e] = configurations[e]
  BY <1>1, <1>2 DEF EpochsInv, EpochFixesConfiguration
<1>4. QED BY <1>3 DEF EpochsInv, EpochFixesConfiguration

(* What was sent stays as it was attested when later epochs begin. *)
LEMMA SentKept ==
  ASSUME SentInv, UNCHANGED sent, signerEpoch \in Nat, signerEpoch' \in Nat,
         signerEpoch <= signerEpoch',
         \A e \in 1 .. signerEpoch : configurations'[e] = configurations[e]
  PROVE  SentInv'
<1>1. forwarded' = forwarded /\ usedResultTxHashes' = usedResultTxHashes
  BY DEF sent
<1>2. ASSUME NEW i \in 1 .. Len(forwarded)
      PROVE  /\ forwarded[i].epoch \in 1 .. signerEpoch'
             /\ AttestedBy(forwarded[i], configurations'[forwarded[i].epoch])
             /\ forwarded[i].result.txHash \in usedResultTxHashes
  <2>1. forwarded[i].epoch \in 1 .. signerEpoch
    BY DEF SentInv
  <2>2. forwarded[i].epoch \in 1 .. signerEpoch'
    BY <2>1
  <2>3. configurations'[forwarded[i].epoch] = configurations[forwarded[i].epoch]
    BY <2>1
  <2>4. QED BY <2>2, <2>3 DEF SentInv
<1>3. QED BY <1>1, <1>2 DEF SentInv, ForwardedOnce

(* setSigner *)
LEMMA SetSignerStep ==
  ASSUME HubInv, NEW caller, NEW s \in Signers, NEW b \in BOOLEAN, SetSigner(caller, s, b),
         UNCHANGED receiverVars
  PROVE  HubInv'
<1>1. SignersInv /\ EpochsInv /\ SentInv /\ StoredInv
  BY DEF HubInv
<1>2. /\ Distinct(signerList)
      /\ Entries(signerList) = authorizedSigners
      /\ authorizedSigners \subseteq Signers
  BY <1>1, ListNamesAuthorized
<1>3. signerList \in Seq(Signers) /\ quorum \in Nat
  BY <1>1 DEF SignersInv
<1>4. /\ signerList' \in Seq(Signers)
      /\ Distinct(signerList')
      /\ Entries(signerList') = authorizedSigners'
  <2>1. CASE b
    <3>1. s \notin Entries(signerList)
      BY <2>1, <1>2 DEF SetSigner
    <3>2. signerList' = Added(signerList, s) /\ authorizedSigners' = authorizedSigners \cup {s}
      BY <2>1 DEF SetSigner
    <3>3. QED BY <3>1, <3>2, <1>2, <1>3, AddedEntries
  <2>2. CASE ~b
    <3>1. s \in Entries(signerList)
      BY <2>2, <1>2 DEF SetSigner
    <3>2. signerList' = Removed(signerList, s) /\ authorizedSigners' = authorizedSigners \ {s}
      BY <2>2 DEF SetSigner
    <3>3. QED BY <3>1, <3>2, <1>2, <1>3, RemovedEntries
  <2>3. QED BY <2>1, <2>2
<1>5. quorum' = quorum /\ quorum <= Len(signerList')
  BY DEF SetSigner
<1>6. SignersInv'
  BY <1>3, <1>4, <1>5 DEF SignersInv, QuorumStaysReachable, Distinct, Entries
<1>7. authorizedSigners' \in SUBSET Signers
  BY <1>2 DEF SetSigner
<1>8. signerEpoch' = signerEpoch + 1 /\ configurations' = Recorded(authorizedSigners', quorum)
  BY DEF SetSigner, EpochAfterSigner
<1>9. /\ EpochsInv'
      /\ \A e \in 1 .. signerEpoch : configurations'[e] = configurations[e]
  <2> DEFINE signers == authorizedSigners'
  <2>1. signers \in SUBSET Signers
    BY <1>7
  <2>2. configurations' = Recorded(signers, quorum) /\ authorizedSigners' = signers
    BY <1>8
  <2> HIDE DEF signers
  <2>3. QED BY <2>1, <2>2, <1>1, <1>3, <1>5, <1>8, EpochBegins
<1>10. SentInv'
  <2>1. UNCHANGED sent
    BY DEF SetSigner
  <2>2. signerEpoch \in Nat /\ signerEpoch' \in Nat /\ signerEpoch <= signerEpoch'
    BY <1>1, <1>8 DEF EpochsInv
  <2>3. QED BY <1>1, <1>9, <2>1, <2>2, SentKept
<1>11. StoredInv'
  BY <1>1 DEF StoredInv, ForwardedAnswersRelayed, SetSigner, sent, receiverVars
<1>12. QED BY <1>6, <1>9, <1>10, <1>11 DEF HubInv

(* setQuorum *)
LEMMA SetQuorumStep ==
  ASSUME HubInv, NEW caller, NEW q \in Nat, SetQuorum(caller, q),
         UNCHANGED receiverVars
  PROVE  HubInv'
<1>1. SignersInv /\ EpochsInv /\ SentInv /\ StoredInv
  BY DEF HubInv
<1>2. /\ signerList' = signerList /\ authorizedSigners' = authorizedSigners
      /\ quorum' = q /\ q <= Len(signerList)
      /\ signerEpoch' = signerEpoch + 1
      /\ configurations' = Recorded(authorizedSigners, q)
  BY DEF SetQuorum, QuorumInReach, EpochAfterQuorum
<1>3. SignersInv'
  BY <1>1, <1>2 DEF SignersInv, QuorumStaysReachable
<1>4. authorizedSigners \in SUBSET Signers
  BY <1>1, ListNamesAuthorized
<1>5. /\ EpochsInv'
      /\ \A e \in 1 .. signerEpoch : configurations'[e] = configurations[e]
  BY <1>1, <1>2, <1>4, EpochBegins
<1>6. SentInv'
  BY <1>1, <1>2, <1>5, SentKept DEF SetQuorum, EpochsInv
<1>7. StoredInv'
  BY <1>1 DEF StoredInv, ForwardedAnswersRelayed, SetQuorum, sent, receiverVars
<1>8. QED BY <1>3, <1>5, <1>6, <1>7 DEF HubInv

(* A step that leaves the signers, what was sent and what was stored.      *)
LEMMA QuietStep ==
  ASSUME HubInv, UNCHANGED <<signing, sent, messages>> PROVE HubInv'
<1>1. /\ signerList' = signerList /\ authorizedSigners' = authorizedSigners
      /\ quorum' = quorum /\ signerEpoch' = signerEpoch /\ configurations' = configurations
      /\ usedResultTxHashes' = usedResultTxHashes /\ forwarded' = forwarded
      /\ messages' = messages
  BY DEF signing, sent
<1>2. SignersInv' /\ EpochsInv'
  BY <1>1 DEF HubInv, SignersInv, EpochsInv, QuorumStaysReachable, EpochFixesConfiguration
<1>3. SentInv'
  BY <1>1 DEF HubInv, SentInv, ForwardedOnce
<1>4. StoredInv'
  BY <1>1 DEF HubInv, StoredInv, ForwardedAnswersRelayed
<1>5. QED BY <1>2, <1>3, <1>4 DEF HubInv

(* The setters of the route, and ownership, leave signers and sent alone. *)
LEMMA RouteStep ==
  ASSUME HubInv, NEW caller, AdministersRoute(caller), UNCHANGED receiverVars
  PROVE  HubInv'
<1>1. UNCHANGED <<signing, sent>>
  BY DEF AdministersRoute, SetRelayer, SetDestination, SetTrustedGenLayerSender,
         SetTrustedOriginRouter, SetHubReceiver, TransferForwarderOwnership
<1>2. QED BY <1>1, QuietStep DEF receiverVars

(* The receiver only adds requests and marks them as relayed. *)
LEMMA ReceiverStep ==
  ASSUME HubInv, ReceiverActs
  PROVE  HubInv'
<1>1. UNCHANGED <<signing, sent>>
  BY DEF ReceiverActs, forwarderVars
<1>2. SignersInv' /\ EpochsInv' /\ SentInv'
  BY <1>1 DEF HubInv, SignersInv, EpochsInv, SentInv, QuorumStaysReachable,
       EpochFixesConfiguration, ForwardedOnce, signing, sent
<1>3. messages \in [DOMAIN messages -> Stored] /\ ForwardedAnswersRelayed
  BY DEF HubInv, StoredInv
<1>4. /\ messages' \in [DOMAIN messages' -> Stored]
      /\ DOMAIN messages \subseteq DOMAIN messages'
      /\ \A id \in DOMAIN messages :
           /\ messages'[id].message = messages[id].message
           /\ messages[id].relayed => messages'[id].relayed
  <2>1. ASSUME NEW p \in Packets, LzReceive(p) PROVE <1>4!1 /\ <1>4!2 /\ <1>4!3
    BY <2>1, <1>3 DEF LzReceive, NotStored, Stored, Messages
  <2>2. ASSUME NEW r \in Relayers, NEW id \in MessageIds, MarkRelayed(r, id)
        PROVE  <1>4!1 /\ <1>4!2 /\ <1>4!3
    <3>1. /\ id \in DOMAIN messages
          /\ messages' = [messages EXCEPT ![id] = [messages[id] EXCEPT !.relayed = TRUE]]
      BY <2>2 DEF MarkRelayed
    <3>2. messages[id] \in Stored
      BY <3>1, <1>3
    <3>3. QED BY <3>1, <3>2, <1>3 DEF Stored
  <2>3. CASE UNCHANGED messages
    BY <2>3, <1>3
  <2>4. QED
    BY <2>1, <2>2, <2>3 DEF ReceiverActs, ReceiverNext, SetTrustedSender, SetHubRelayer,
         TransferReceiverOwnership
<1>5. ForwardedAnswersRelayed'
  BY <1>1, <1>3, <1>4 DEF ForwardedAnswersRelayed, sent
<1>6. QED BY <1>2, <1>4, <1>5 DEF HubInv, StoredInv

(* forwardResult *)
LEMMA ForwardStep ==
  ASSUME HubInv, Forwards
  PROVE  HubInv'
<1>1. PICK r \in Relayers, result \in Results, n \in 1 .. MaxAttestations :
        \E txHash \in {x.txHash : x \in Results}, attestations \in [1 .. n -> Attestations] :
          ForwardResult(r, txHash, result, attestations)
  BY DEF Forwards
<1>2. PICK txHash \in {x.txHash : x \in Results}, attestations \in [1 .. n -> Attestations] :
        ForwardResult(r, txHash, result, attestations)
  BY <1>1
<1>3. SignersInv /\ EpochsInv /\ SentInv /\ StoredInv
  BY DEF HubInv
<1>4. UNCHANGED <<receiverVars, signing, routing>>
  BY <1>2 DEF ForwardResult
<1> DEFINE new == [result |-> result, epoch |-> signerEpoch,
                   attestations |-> {attestations[i] : i \in DOMAIN attestations}]
<1>5. /\ forwarded' = Append(forwarded, new)
      /\ usedResultTxHashes' = usedResultTxHashes \cup {result.txHash}
      /\ result.txHash \notin usedResultTxHashes
      /\ VerifyQuorum(result, attestations)
      /\ AnswersStoredRequest(result)
      /\ result.adjudicator = trustedGenLayerSender /\ result.router = trustedOriginRouter
  BY <1>2 DEF ForwardResult, UsedAfter
<1>6. attestations \in [1 .. n -> SomeAttestation]
  BY <1>3 DEF Attestations, SomeAttestation, SomeDigest, EpochsInv
<1>7. n \in Nat
  OBVIOUS
<1>8. AttestedBy(new, Configuration(authorizedSigners, quorum))
  BY <1>3, <1>5, <1>6, <1>7, QuorumOfSigners
<1>9. new \in SomeForwarded
  BY <1>3, <1>6 DEF SomeForwarded, EpochsInv
<1>10. new.result = result /\ new.epoch = signerEpoch
  OBVIOUS
<1> HIDE DEF new
<1>11. /\ forwarded' \in Seq(SomeForwarded)
       /\ Len(forwarded') = Len(forwarded) + 1
       /\ Len(forwarded) \in Nat
       /\ \A i \in 1 .. Len(forwarded) : forwarded'[i] = forwarded[i]
       /\ forwarded'[Len(forwarded) + 1] = new
       /\ DOMAIN forwarded = 1 .. Len(forwarded)
       /\ DOMAIN forwarded' = 1 .. Len(forwarded) + 1
  BY <1>3, <1>5, <1>9 DEF SentInv
<1>12. SignersInv' /\ EpochsInv'
  BY <1>3, <1>4 DEF SignersInv, EpochsInv, QuorumStaysReachable, EpochFixesConfiguration, signing
<1>13. SentInv'
  <2>1. signerEpoch' = signerEpoch /\ configurations' = configurations
    BY <1>4 DEF signing
  <2>2. ASSUME NEW i \in 1 .. Len(forwarded')
        PROVE  /\ forwarded'[i].epoch \in 1 .. signerEpoch
               /\ AttestedBy(forwarded'[i], configurations[forwarded'[i].epoch])
               /\ forwarded'[i].result.txHash \in usedResultTxHashes'
    <3>1. CASE i \in 1 .. Len(forwarded)
      BY <3>1, <1>3, <1>5, <1>11 DEF SentInv
    <3>2. CASE i = Len(forwarded) + 1
      <4>1. configurations[signerEpoch] = Configuration(authorizedSigners, quorum)
        BY <1>3 DEF EpochsInv, EpochFixesConfiguration
      <4>2. signerEpoch \in 1 .. signerEpoch
        BY <1>3 DEF EpochsInv
      <4>3. QED BY <3>2, <4>1, <4>2, <1>5, <1>8, <1>10, <1>11
    <3>3. QED BY <3>1, <3>2, <1>11
  <2>3. ForwardedOnce'
    <3>1. \A i \in 1 .. Len(forwarded) : forwarded'[i].result.txHash # new.result.txHash
      BY <1>3, <1>5, <1>10, <1>11 DEF SentInv
    <3>2. \A i, j \in 1 .. Len(forwarded) :
            forwarded'[i].result.txHash = forwarded'[j].result.txHash => i = j
      BY <1>3, <1>11 DEF SentInv, ForwardedOnce
    <3>3. QED BY <3>1, <3>2, <1>11 DEF ForwardedOnce
  <2>4. QED BY <2>1, <2>2, <2>3, <1>11 DEF SentInv
<1>14. StoredInv'
  <2>1. messages' = messages
    BY <1>4 DEF receiverVars
  <2>2. /\ result.originMessageId \in DOMAIN messages
        /\ messages[result.originMessageId].relayed
        /\ messages[result.originMessageId].message.requestId = result.requestId
        /\ messages[result.originMessageId].message.router = result.router
        /\ messages[result.originMessageId].message.target = result.adjudicator
    BY <1>5 DEF AnswersStoredRequest
  <2>3. ForwardedAnswersRelayed'
    <3> SUFFICES ASSUME NEW i \in 1 .. Len(forwarded) + 1
                 PROVE  LET answer == forwarded'[i].result
                        IN /\ answer.originMessageId \in DOMAIN messages
                           /\ messages[answer.originMessageId].relayed
                           /\ messages[answer.originMessageId].message.requestId = answer.requestId
                           /\ messages[answer.originMessageId].message.router = answer.router
                           /\ messages[answer.originMessageId].message.target = answer.adjudicator
      BY <1>11, <2>1 DEF ForwardedAnswersRelayed
    <3>1. CASE i = Len(forwarded) + 1
      BY <3>1, <2>2, <1>10, <1>11
    <3>2. CASE i \in 1 .. Len(forwarded)
      BY <3>2, <1>3, <1>11 DEF StoredInv, ForwardedAnswersRelayed
    <3>3. QED BY <3>1, <3>2, <1>11
  <2>4. QED BY <2>1, <2>3, <1>3 DEF StoredInv
<1>15. QED BY <1>12, <1>13, <1>14 DEF HubInv

(* A step of anybody keeps the invariant. *)
LEMMA HubNextInv == HubInv /\ [HubNext]_hubVars => HubInv'
<1> SUFFICES ASSUME HubInv, [HubNext]_hubVars PROVE HubInv'
  OBVIOUS
<1>1. CASE ReceiverActs
  BY <1>1, ReceiverStep
<1>2. ASSUME NEW o \in HubOwners, AdministersSigners(o), UNCHANGED receiverVars PROVE HubInv'
  <2>1. ASSUME NEW s \in Signers, NEW b \in BOOLEAN, SetSigner(o, s, b) PROVE HubInv'
    BY <1>2, <2>1, SetSignerStep
  <2>2. ASSUME NEW q \in 0 .. Cardinality(Signers) + 1, SetQuorum(o, q) PROVE HubInv'
    <3>1. Cardinality(Signers) \in Nat
      BY ForwarderConstants, FS_CardinalityType
    <3>2. q \in Nat
      BY <3>1
    <3>3. QED BY <1>2, <2>2, <3>2, SetQuorumStep
  <2>3. QED BY <1>2, <2>1, <2>2 DEF AdministersSigners
<1>3. ASSUME NEW o \in HubOwners, AdministersRoute(o), UNCHANGED receiverVars PROVE HubInv'
  BY <1>3, RouteStep
<1>4. CASE Forwards
  BY <1>4, ForwardStep
<1>5. CASE UNCHANGED hubVars
  <2>1. UNCHANGED <<signing, sent, messages>>
    BY <1>5 DEF hubVars, forwarderVars, receiverVars
  <2>2. QED BY <2>1, QuietStep
<1>6. QED BY <1>1, <1>2, <1>3, <1>4, <1>5 DEF HubNext

(* The invariant holds of every behaviour. *)
LEMMA HubInvariant == HubSpec => []HubInv
BY InitHubInv, HubNextInv, PTL DEF HubSpec

-----------------------------------------------------------------------------
(* Whatever the owner adds, removes and sets, the list and the mapping     *)
(* name the same signers, each once, and they suffice for the quorum:      *)
(* setSigner's swap with the last entry loses nobody and keeps nobody.     *)
THEOREM SignersReachQuorum == HubSpec => []QuorumStaysReachable
<1>1. HubInv => QuorumStaysReachable
  BY DEF HubInv, SignersInv
<1>2. QED BY <1>1, HubInvariant, PTL

(* One epoch, one configuration: any change of the signers or of the       *)
(* quorum starts an epoch, so no signature counts towards another set.     *)
THEOREM EpochNamesConfiguration == HubSpec => []EpochFixesConfiguration
<1>1. HubInv => EpochFixesConfiguration
  BY DEF HubInv, EpochsInv
<1>2. QED BY <1>1, HubInvariant, PTL

(* forwardResult sends what as many different signers of the epoch         *)
(* attested as its quorum, for any number of signers, and later changes of *)
(* the signers do not touch what that epoch stood for.                     *)
THEOREM QuorumBehindEveryResult == HubSpec => []ForwardedByQuorum
<1>1. HubInv => ForwardedByQuorum
  <2>1. forwarded \in Seq(SomeForwarded) => DOMAIN forwarded = 1 .. Len(forwarded)
    BY LenProperties
  <2>2. QED BY <2>1 DEF HubInv, SentInv, ForwardedByQuorum, AttestedBy
<1>2. QED BY <1>1, HubInvariant, PTL

(* forwardResult answers a GenLayer transaction once. *)
THEOREM TransactionForwardedOnce == HubSpec => []ForwardedOnce
<1>1. HubInv => ForwardedOnce
  BY DEF HubInv, SentInv
<1>2. QED BY <1>1, HubInvariant, PTL

(* What was forwarded answers a request the hub receiver stored and a      *)
(* relayer marked, as the receiver holds it now: it never takes back the   *)
(* mark, and never stores another message under the id.                    *)
THEOREM RelayedRequestBehindEveryResult == HubSpec => []ForwardedAnswersRelayed
<1>1. HubInv => ForwardedAnswersRelayed
  BY DEF HubInv, StoredInv
<1>2. QED BY <1>1, HubInvariant, PTL
=============================================================================
