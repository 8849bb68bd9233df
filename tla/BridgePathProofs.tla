-------------------------- MODULE BridgePathProofs --------------------------
(***************************************************************************)
(* Proofs about BridgePath, for any number of requests, signers,           *)
(* validators and packets: what travels from the router to the adjudicator *)
(* and back is not lost, doubled or altered on its way.                    *)
(*                                                                         *)
(* A revert on Base takes the router and the bridge back together, so the  *)
(* invariant speaks of pairs of storages (PairOK): the current ones, the   *)
(* committed ones and, at every level of the call stacks, the ones a       *)
(* revert would restore.  All of them are compared with the one list of    *)
(* what the forwarder sent, which never shrinks.  What the forwarder sent  *)
(* rests on the adjudicator's results (ForwardedOK), which are never       *)
(* replaced, because a quorum of distinct signers is larger than the set   *)
(* of lost keys (QuorumOK, HonestSigner); and those rest on what the       *)
(* validators saw (AdjudicatorOK).                                         *)
(***************************************************************************)
EXTENDS BridgePath, GatewayRouterProofs, FiniteSetTheorems

(* What the bridge sent is what the router was asked. *)
SentOK(s, b) ==
  /\ IsStack(b.outbound)
  /\ b.messageNonce = Len(b.outbound)
  /\ \A i \in 1 .. Len(b.outbound) :
       b.outbound[i].id.nonce = i /\ b.outbound[i].requestId \in DOMAIN s.requests
  /\ \A id \in DOMAIN s.requests :
       \E i \in 1 .. Len(b.outbound) : b.outbound[i].requestId = id
  /\ \A i, j \in 1 .. Len(b.outbound) :
       b.outbound[i].requestId = b.outbound[j].requestId => i = j

(* The guid of a packet of the forwarder that answered its request. *)
AnsweredBy(s, sent, g) ==
  /\ g = [from |-> HubForwarder, nr |-> g.nr] /\ g.nr \in 1 .. Len(sent)
  /\ sent[g.nr].result.requestId \in DOMAIN s.requests
  /\ s.requests[sent[g.nr].result.requestId].decision = sent[g.nr].result.decision
  /\ s.requests[sent[g.nr].result.requestId].resultTxHash = sent[g.nr].result.txHash
  /\ sent[g.nr].result.decision \in Verdicts

(* Every verdict took one packet, and every packet gave one verdict. *)
UsedOK(s, b, sent) ==
  /\ \A g \in b.baseGuids : AnsweredBy(s, sent, g)
  /\ \A id \in DOMAIN s.requests :
       s.requests[id].decision # "None" =>
         \E g \in b.baseGuids : sent[g.nr].result.requestId = id
  /\ \A g, h \in b.baseGuids :
       sent[g.nr].result.requestId = sent[h.nr].result.requestId => g = h
  /\ \A id \in DOMAIN s.requests :
       s.requests[id].decision = "None" <=> s.requests[id].status = "Dispatched"

(* Storages of router and bridge that belong together. *)
PairOK(s, b, sent) == SentOK(s, b) /\ UsedOK(s, b, sent)

(* Everything forwarded is a result the adjudicator stored. *)
ForwardedOK(sent, stored) ==
  /\ IsStack(sent)
  /\ \A i \in 1 .. Len(sent) :
       LET result == sent[i].result
           key == [request |-> result.requestId, spelling |-> "lower"]
       IN /\ result.decision \in Verdicts
          /\ result.txHash \in ResultHashes
          /\ key \in DOMAIN stored
          /\ stored[key].decision = result.decision

(* An outcome and the server's answers to those who agreed on it. *)
Supported(outcome, answers) ==
  \/ outcome.decision = "Pass" /\ outcome.body = "Committed" /\ answers = {"Committed"}
  \/ /\ outcome.decision = "Fail"
     /\ outcome.body # "Unusable" /\ answers = {outcome.body}
  \/ /\ outcome.decision = "Undetermined"
     /\ outcome.body = "Committed" /\ answers \subseteq {"Committed", "Unusable"}

ExecutionOK(e, stored) ==
  /\ e = [key |-> e.key, proposal |-> e.proposal, agreeing |-> e.agreeing,
          disagreeing |-> e.disagreeing, answers |-> e.answers]
  /\ e.key \notin DOMAIN stored
  /\ e.proposal # GenLayer!NoOutcome => Supported(e.proposal, e.answers)

AdjudicatorOK ==
  /\ \A key \in DOMAIN results : GenLayer!RestsOnEvidence(results[key])
  /\ execution # GenLayer!Idle => ExecutionOK(execution, results)

(* The calls in progress, and what a revert of each would restore. *)
StacksOK(fs, bs, sent) ==
  /\ IsStack(bs) /\ Len(bs) = Len(fs)
  /\ \A k \in 1 .. Len(fs) : PairOK(fs[k].saved, bs[k], sent)

BridgeInv(sent) ==
  /\ StacksOK(frames, bridgeFrames, sent)
  /\ PairOK(Storage, BridgeStorage, sent)
  /\ PairOK(committed, bridgeCommitted, sent)

(* Lost keys alone do not make a quorum. *)
QuorumOK == quorum \in Int /\ quorum > Cardinality(Compromised)

(* The inductive invariant. *)
PathInv ==
  /\ IInv
  /\ trustedForwarder \in Forwarders
  /\ BridgeInv(forwarded)
  /\ ForwardedOK(forwarded, results)
  /\ QuorumOK
  /\ AdjudicatorOK

-----------------------------------------------------------------------------
(* The fields of what the bridge stores on Base. *)
LEMMA BridgeFields ==
  /\ BridgeStorage.messageNonce = messageNonce /\ BridgeStorage'.messageNonce = messageNonce'
  /\ BridgeStorage.outbound = outbound /\ BridgeStorage'.outbound = outbound'
  /\ BridgeStorage.baseGuids = baseGuids /\ BridgeStorage'.baseGuids = baseGuids'
BY DEF BridgeStorage

(* The same storages, whatever they are written as. *)
SameBridge(b, c) ==
  c.messageNonce = b.messageNonce /\ c.outbound = b.outbound /\ c.baseGuids = b.baseGuids

(* An answer stays an answer as long as its request keeps it. *)
LEMMA AnsweredStays ==
  ASSUME NEW s, NEW t, NEW sent, NEW g, AnsweredBy(s, sent, g),
         NEW id, id = sent[g.nr].result.requestId,
         id \in DOMAIN t.requests,
         t.requests[id].decision = s.requests[id].decision,
         t.requests[id].resultTxHash = s.requests[id].resultTxHash
  PROVE  AnsweredBy(t, sent, g)
BY Zenon DEF AnsweredBy

(* requestDecision with its dispatch *)
LEMMA AskKeepsPair ==
  ASSUME NEW s, NEW b, NEW t, NEW c, NEW sent, PairOK(s, b, sent),
         NEW id, id \notin DOMAIN s.requests,
         DOMAIN t.requests = DOMAIN s.requests \cup {id},
         t.requests[id] = FreshRequest,
         \A q \in DOMAIN s.requests : t.requests[q] = s.requests[q],
         NEW m, m.requestId = id, m.id.nonce = b.messageNonce + 1,
         c.messageNonce = b.messageNonce + 1,
         c.outbound = Append(b.outbound, m),
         c.baseGuids = b.baseGuids
  PROVE  PairOK(t, c, sent)
<1> DEFINE n == Len(b.outbound)
<1>1. /\ IsStack(c.outbound) /\ n \in Nat /\ Len(c.outbound) = n + 1
      /\ \A i \in 1 .. n : c.outbound[i] = b.outbound[i]
      /\ c.outbound[n + 1] = m
  BY PushFacts DEF PairOK, SentOK
<1>2. SentOK(t, c)
  <2>1. /\ b.messageNonce = n
        /\ \A i \in 1 .. n : /\ b.outbound[i].id.nonce = i
                             /\ b.outbound[i].requestId \in DOMAIN s.requests
        /\ \A q \in DOMAIN s.requests : \E i \in 1 .. n : b.outbound[i].requestId = q
        /\ \A i, j \in 1 .. n : b.outbound[i].requestId = b.outbound[j].requestId => i = j
    BY DEF PairOK, SentOK
  <2> HIDE DEF n
  <2>2. \A i \in 1 .. n + 1 : i \in 1 .. n \/ i = n + 1
    BY <1>1
  <2>3. ASSUME NEW i \in 1 .. n + 1
        PROVE  /\ c.outbound[i].id.nonce = i
               /\ c.outbound[i].requestId \in DOMAIN t.requests
    <3>1. CASE i = n + 1
      BY <1>1, <2>1, <3>1
    <3>2. CASE i \in 1 .. n
      BY <1>1, <2>1, <3>2
    <3> QED
      BY <2>2, <3>1, <3>2
  <2>4. ASSUME NEW q \in DOMAIN t.requests
        PROVE  \E i \in 1 .. n + 1 : c.outbound[i].requestId = q
    <3>1. CASE q = id
      BY <1>1, <3>1
    <3>2. CASE q \in DOMAIN s.requests
      <4> PICK i \in 1 .. n : b.outbound[i].requestId = q
        BY <2>1, <3>2
      <4> QED
        BY <1>1
    <3> QED
      BY <3>1, <3>2
  <2>5. ASSUME NEW i \in 1 .. n + 1, NEW j \in 1 .. n + 1,
               c.outbound[i].requestId = c.outbound[j].requestId
        PROVE  i = j
    <3>1. CASE i \in 1 .. n /\ j \in 1 .. n
      BY <1>1, <2>1, <2>5, <3>1
    <3>2. CASE i = n + 1 /\ j \in 1 .. n
      BY <1>1, <2>1, <2>5, <3>2
    <3>3. CASE i \in 1 .. n /\ j = n + 1
      BY <1>1, <2>1, <2>5, <3>3
    <3> QED
      BY <2>2, <3>1, <3>2, <3>3
  <2>6. IsStack(c.outbound) /\ Len(c.outbound) = n + 1 /\ c.messageNonce = n + 1
    BY <1>1, <2>1
  <2> QED
    BY <2>3, <2>4, <2>5, <2>6 DEF SentOK
<1>3. UsedOK(t, c, sent)
  <2>1. /\ \A g \in b.baseGuids : AnsweredBy(s, sent, g)
        /\ \A q \in DOMAIN s.requests : s.requests[q].decision # "None" =>
             \E g \in b.baseGuids : sent[g.nr].result.requestId = q
        /\ \A g, h \in b.baseGuids :
             sent[g.nr].result.requestId = sent[h.nr].result.requestId => g = h
        /\ \A q \in DOMAIN s.requests :
             s.requests[q].decision = "None" <=> s.requests[q].status = "Dispatched"
    BY DEF PairOK, UsedOK
  <2>2. FreshRequest.decision = "None" /\ FreshRequest.status = "Dispatched"
    BY DEF FreshRequest
  <2>3. \A g \in c.baseGuids : AnsweredBy(t, sent, g)
    <3> SUFFICES ASSUME NEW g \in b.baseGuids PROVE AnsweredBy(t, sent, g)
      OBVIOUS
    <3> DEFINE q == sent[g.nr].result.requestId
    <3>1. AnsweredBy(s, sent, g) /\ q \in DOMAIN s.requests
      BY <2>1 DEF AnsweredBy
    <3>2. q \in DOMAIN t.requests /\ t.requests[q] = s.requests[q]
      BY <3>1
    <3> HIDE DEF q
    <3> QED
      BY <3>1, <3>2, AnsweredStays DEF q
  <2>4. \A q \in DOMAIN t.requests : t.requests[q].decision # "None" =>
          \E g \in c.baseGuids : sent[g.nr].result.requestId = q
    BY <2>1, <2>2
  <2>5. \A q \in DOMAIN t.requests :
          t.requests[q].decision = "None" <=> t.requests[q].status = "Dispatched"
    BY <2>1, <2>2
  <2> QED
    BY <2>1, <2>3, <2>4, <2>5 DEF UsedOK
<1> QED
  BY <1>2, <1>3 DEF PairOK

(* The requests keep what they were answered. *)
SameVerdicts(rs, rt) ==
  /\ DOMAIN rt = DOMAIN rs
  /\ \A q \in DOMAIN rs :
       /\ rt[q].decision = rs[q].decision
       /\ rt[q].resultTxHash = rs[q].resultTxHash
       /\ rt[q].status = "Dispatched" <=> rs[q].status = "Dispatched"

(* A callback begins or ends: its request was answered and stays answered. *)
LEMMA CallKeepsVerdicts ==
  ASSUME NEW rs, NEW id \in DOMAIN rs, NEW e,
         e.decision = rs[id].decision, e.resultTxHash = rs[id].resultTxHash,
         e.status # "Dispatched", rs[id].status # "Dispatched"
  PROVE  SameVerdicts(rs, [rs EXCEPT ![id] = e])
BY DEF SameVerdicts

(* Storages belong together for their messages and verdicts, whatever      *)
(* becomes of the callbacks.                                               *)
LEMMA SameVerdictsKeepPair ==
  ASSUME NEW s, NEW b, NEW t, NEW c, NEW sent, PairOK(s, b, sent),
         SameVerdicts(s.requests, t.requests), SameBridge(b, c)
  PROVE  PairOK(t, c, sent)
<1>1. SentOK(t, c)
  <2>1. SentOK(s, b) /\ c.messageNonce = b.messageNonce /\ c.outbound = b.outbound
    BY DEF PairOK, SameBridge
  <2>2. DOMAIN t.requests = DOMAIN s.requests
    BY DEF SameVerdicts
  <2> QED
    BY <2>1, <2>2 DEF SentOK
<1>2. /\ \A g \in b.baseGuids : AnsweredBy(s, sent, g)
      /\ \A q \in DOMAIN s.requests : s.requests[q].decision # "None" =>
           \E g \in b.baseGuids : sent[g.nr].result.requestId = q
      /\ \A g, h \in b.baseGuids :
           sent[g.nr].result.requestId = sent[h.nr].result.requestId => g = h
      /\ \A q \in DOMAIN s.requests :
           s.requests[q].decision = "None" <=> s.requests[q].status = "Dispatched"
      /\ c.baseGuids = b.baseGuids
  BY DEF PairOK, UsedOK, SameBridge
<1>3. ASSUME NEW g \in b.baseGuids PROVE AnsweredBy(t, sent, g)
  <2> DEFINE q == sent[g.nr].result.requestId
  <2>1. AnsweredBy(s, sent, g) /\ q \in DOMAIN s.requests
    BY <1>2 DEF AnsweredBy
  <2>2. /\ q \in DOMAIN t.requests
        /\ t.requests[q].decision = s.requests[q].decision
        /\ t.requests[q].resultTxHash = s.requests[q].resultTxHash
    BY <2>1 DEF SameVerdicts
  <2> HIDE DEF q
  <2> QED
    BY <2>1, <2>2, AnsweredStays DEF q
<1>4. UsedOK(t, c, sent)
  BY <1>2, <1>3 DEF UsedOK, SameVerdicts
<1> QED
  BY <1>1, <1>4 DEF PairOK

(* Storages with the same requests and the same bridge belong together. *)
LEMMA SamePairOK ==
  ASSUME NEW s, NEW b, NEW t, NEW c, NEW sent, PairOK(s, b, sent),
         t.requests = s.requests, SameBridge(b, c)
  PROVE  PairOK(t, c, sent)
BY SameVerdictsKeepPair DEF SameVerdicts

(* A result is handed to the router. *)
LEMMA ArrivalKeepsPair ==
  ASSUME NEW s, NEW b, NEW t, NEW c, NEW sent, PairOK(s, b, sent),
         NEW i \in 1 .. Len(sent), NEW g, g = [from |-> HubForwarder, nr |-> i],
         NEW id, id = sent[i].result.requestId,
         id \in DOMAIN s.requests, s.requests[id].status = "Dispatched",
         NEW e, t.requests = [s.requests EXCEPT ![id] = e],
         e.decision = sent[i].result.decision, e.decision \in Verdicts,
         e.resultTxHash = sent[i].result.txHash, e.status # "Dispatched",
         c.messageNonce = b.messageNonce, c.outbound = b.outbound,
         c.baseGuids = b.baseGuids \cup {g}
  PROVE  PairOK(t, c, sent)
<1>1. /\ DOMAIN t.requests = DOMAIN s.requests
      /\ t.requests[id] = e
      /\ \A q \in DOMAIN s.requests \ {id} : t.requests[q] = s.requests[q]
  OBVIOUS
<1>2. /\ \A h \in b.baseGuids : AnsweredBy(s, sent, h)
      /\ \A q \in DOMAIN s.requests : s.requests[q].decision # "None" =>
           \E h \in b.baseGuids : sent[h.nr].result.requestId = q
      /\ \A h, k \in b.baseGuids :
           sent[h.nr].result.requestId = sent[k.nr].result.requestId => h = k
      /\ \A q \in DOMAIN s.requests :
           s.requests[q].decision = "None" <=> s.requests[q].status = "Dispatched"
  BY DEF PairOK, UsedOK
<1>3. ASSUME NEW h \in b.baseGuids PROVE sent[h.nr].result.requestId # id
  <2>1. /\ s.requests[sent[h.nr].result.requestId].decision = sent[h.nr].result.decision
        /\ sent[h.nr].result.decision # "None"
    BY <1>2 DEF AnsweredBy, Verdicts
  <2>2. s.requests[id].decision = "None"
    BY <1>2
  <2> QED
    BY <2>1, <2>2
<1>4. SentOK(t, c)
  BY <1>1 DEF PairOK, SentOK
<1>5. \A h \in c.baseGuids : AnsweredBy(t, sent, h)
  <2>1. AnsweredBy(t, sent, g)
    BY <1>1 DEF AnsweredBy
  <2>2. ASSUME NEW h \in b.baseGuids PROVE AnsweredBy(t, sent, h)
    <3> DEFINE q == sent[h.nr].result.requestId
    <3>1. AnsweredBy(s, sent, h) /\ q \in DOMAIN s.requests
      BY <1>2 DEF AnsweredBy
    <3>2. q \in DOMAIN t.requests /\ t.requests[q] = s.requests[q]
      BY <1>1, <1>3, <3>1
    <3> HIDE DEF q
    <3> QED
      BY <3>1, <3>2, AnsweredStays DEF q
  <2> QED
    BY <2>1, <2>2
<1>6. ASSUME NEW q \in DOMAIN t.requests, t.requests[q].decision # "None"
      PROVE  \E h \in c.baseGuids : sent[h.nr].result.requestId = q
  <2>1. CASE q = id
    <3>1. g \in c.baseGuids /\ sent[g.nr].result.requestId = q
      BY <2>1
    <3> QED
      BY <3>1
  <2>2. CASE q # id
    BY <1>1, <1>2, <1>6, <2>2
  <2> QED
    BY <2>1, <2>2
<1>7. \A h, k \in c.baseGuids :
        sent[h.nr].result.requestId = sent[k.nr].result.requestId => h = k
  <2>1. sent[g.nr].result.requestId = id
    OBVIOUS
  <2> QED
    BY <1>2, <1>3, <2>1
<1>8. \A q \in DOMAIN t.requests :
        t.requests[q].decision = "None" <=> t.requests[q].status = "Dispatched"
  BY <1>1, <1>2 DEF Verdicts
<1> QED
  BY <1>4, <1>5, <1>6, <1>7, <1>8 DEF PairOK, UsedOK

(* More is forwarded. *)
LEMMA ForwardKeepsPair ==
  ASSUME NEW s, NEW b, NEW sent, NEW sent2, PairOK(s, b, sent),
         Len(sent) \in Nat, Len(sent2) \in Nat, Len(sent) <= Len(sent2),
         \A i \in 1 .. Len(sent) : sent2[i] = sent[i]
  PROVE  PairOK(s, b, sent2)
<1>1. \A g \in b.baseGuids :
        /\ g.nr \in 1 .. Len(sent) /\ g.nr \in 1 .. Len(sent2)
        /\ sent2[g.nr] = sent[g.nr]
  BY DEF PairOK, UsedOK, AnsweredBy
<1>2. \A g \in b.baseGuids : AnsweredBy(s, sent2, g)
  BY <1>1 DEF PairOK, UsedOK, AnsweredBy
<1>3. UsedOK(s, b, sent2)
  BY <1>1, <1>2 DEF PairOK, UsedOK
<1> QED
  BY <1>3 DEF PairOK

-----------------------------------------------------------------------------
(* A call begins: the router and the bridge save storages that belong      *)
(* together.                                                               *)
LEMMA PushBoth ==
  ASSUME NEW fs, NEW bs, NEW sent, StacksOK(fs, bs, sent), IsStack(fs),
         NEW f, NEW c, PairOK(f.saved, c, sent)
  PROVE  StacksOK(Append(fs, f), Append(bs, c), sent)
<1> DEFINE n == Len(fs)
           gs == Append(fs, f)
           cs == Append(bs, c)
<1>1. /\ n \in Nat /\ Len(gs) = n + 1
      /\ \A k \in 1 .. n : gs[k] = fs[k]
      /\ gs[n + 1] = f
  BY PushFacts
<1>2. /\ IsStack(cs) /\ Len(cs) = n + 1
      /\ \A k \in 1 .. n : cs[k] = bs[k]
      /\ cs[n + 1] = c
  BY PushFacts DEF StacksOK
<1>3. \A k \in 1 .. n : PairOK(fs[k].saved, bs[k], sent)
  BY DEF StacksOK
<1> HIDE DEF gs, cs, n
<1>4. ASSUME NEW k \in 1 .. n + 1 PROVE PairOK(gs[k].saved, cs[k], sent)
  <2>1. CASE k = n + 1
    BY <1>1, <1>2, <2>1
  <2>2. CASE k \in 1 .. n
    BY <1>1, <1>2, <1>3, <2>2
  <2> QED
    BY <1>1, <2>1, <2>2
<1>5. StacksOK(gs, cs, sent)
  BY <1>1, <1>2, <1>4 DEF StacksOK
<1> QED
  BY <1>5 DEF gs, cs

(* A call ends: what the two saved last belongs together, and what is      *)
(* below it.                                                               *)
LEMMA PopBoth ==
  ASSUME NEW fs, NEW bs, NEW sent, StacksOK(fs, bs, sent), IsStack(fs), fs # <<>>
  PROVE  /\ StacksOK(SubSeq(fs, 1, Len(fs) - 1), SubSeq(bs, 1, Len(bs) - 1), sent)
         /\ PairOK(fs[Len(fs)].saved, bs[Len(bs)], sent)
<1> DEFINE n == Len(fs)
           gs == SubSeq(fs, 1, n - 1)
           cs == SubSeq(bs, 1, Len(bs) - 1)
<1>1. /\ n \in Nat /\ n >= 1 /\ Len(gs) = n - 1
      /\ \A k \in 1 .. n - 1 : gs[k] = fs[k]
  BY PopFacts
<1>2. IsStack(bs) /\ Len(bs) = n /\ bs # <<>>
  BY <1>1 DEF StacksOK
<1>3. /\ IsStack(cs) /\ Len(cs) = n - 1
      /\ \A k \in 1 .. n - 1 : cs[k] = bs[k]
  BY <1>2, PopFacts
<1>4. \A k \in 1 .. n : PairOK(fs[k].saved, bs[k], sent)
  BY DEF StacksOK
<1> HIDE DEF gs, cs, n
<1>5. ASSUME NEW k \in 1 .. n - 1 PROVE PairOK(gs[k].saved, cs[k], sent)
  BY <1>1, <1>3, <1>4
<1>6. StacksOK(gs, cs, sent)
  BY <1>1, <1>3, <1>5 DEF StacksOK
<1>7. PairOK(fs[n].saved, bs[n], sent)
  BY <1>1, <1>4
<1> QED
  BY <1>2, <1>6, <1>7 DEF gs, cs, n

(* What a finished transaction leaves on Base belongs together. *)
LEMMA CommitKeepsPair ==
  ASSUME NEW sent, PairOK(committed, bridgeCommitted, sent), Commit, CommitBridge,
         PairOK(Storage', BridgeStorage', sent)
  PROVE  PairOK(committed', bridgeCommitted', sent)
BY DEF Commit, CommitBridge

(* The request whose callback runs is pending in every storage of its level. *)
LEMMA TopIsPending ==
  ASSUME IInv, InCallback, NEW s, StorageOK(s, Called(frames, Len(frames)))
  PROVE  /\ Top.request \in DOMAIN s.requests
         /\ s.requests[Top.request].status = "CallbackPending"
         /\ s.requests \in [DOMAIN s.requests -> Request]
<1>1. Top.request \in Called(frames, Len(frames))
  BY PopStackOK DEF IInv, InCallback, AtRest, Top
<1> QED
  BY <1>1 DEF StorageOK, IsStorage

-----------------------------------------------------------------------------
(* requestDecision, with dispatch of the sender *)
LEMMA BridgeRequestStep ==
  ASSUME IInv, NEW sent, BridgeInv(sent), NEW id \in RequestIds,
         NEW value \in Nat, NEW deliveryFee \in Nat,
         BridgeRequest(id, value, deliveryFee)
  PROVE  IInv' /\ BridgeInv(sent)'
<1>1. /\ RequestDecision(id, value, deliveryFee) /\ Dispatch(id)
      /\ baseGuids' = baseGuids /\ bridgeFrames' = bridgeFrames
      /\ Commit /\ CommitBridge /\ frames' = frames
  BY DEF BridgeRequest, RequestDecision
<1>2. IInv'
  BY <1>1, AskStep
<1>3. PairOK(Storage', BridgeStorage', sent)
  <2> DEFINE m == Message(id, messageNonce + 1)
  <2>1. /\ messageNonce' = messageNonce + 1 /\ outbound' = Append(outbound, m)
        /\ m.requestId = id /\ m.id.nonce = messageNonce + 1
    BY <1>1 DEF Dispatch, NonceAfterMessage, Message
  <2>2. /\ id \notin DOMAIN requests
        /\ DOMAIN requests' = DOMAIN requests \cup {id}
        /\ requests'[id] = FreshRequest
        /\ \A q \in DOMAIN requests : requests'[q] = requests[q]
    BY <1>1 DEF RequestDecision
  <2>3. PairOK(Storage, BridgeStorage, sent)
    BY DEF BridgeInv
  <2>4. /\ id \notin DOMAIN Storage.requests
        /\ DOMAIN Storage'.requests = DOMAIN Storage.requests \cup {id}
        /\ Storage'.requests[id] = FreshRequest
        /\ \A q \in DOMAIN Storage.requests : Storage'.requests[q] = Storage.requests[q]
    BY <2>2, StorageFields, Zenon
  <2>5. /\ m.requestId = id /\ m.id.nonce = BridgeStorage.messageNonce + 1
        /\ BridgeStorage'.messageNonce = BridgeStorage.messageNonce + 1
        /\ BridgeStorage'.outbound = Append(BridgeStorage.outbound, m)
        /\ BridgeStorage'.baseGuids = BridgeStorage.baseGuids
    BY <1>1, <2>1, BridgeFields
  <2> HIDE DEF m
  <2> QED
    BY <2>3, <2>4, <2>5, AskKeepsPair
<1>4. PairOK(committed', bridgeCommitted', sent)
  BY <1>1, <1>3, CommitKeepsPair DEF BridgeInv
<1>5. StacksOK(frames', bridgeFrames', sent)
  BY <1>1 DEF BridgeInv
<1> QED
  BY <1>2, <1>3, <1>4, <1>5 DEF BridgeInv

(* retryCallback *)
LEMMA RetriedStep ==
  ASSUME IInv, NEW sent, BridgeInv(sent), NEW id, Retried(id)
  PROVE  IInv' /\ BridgeInv(sent)'
<1>1. /\ RetryCallback(id) /\ PushBridge
      /\ messageNonce' = messageNonce /\ outbound' = outbound /\ baseGuids' = baseGuids
      /\ bridgeCommitted' = bridgeCommitted
  BY DEF Retried, bridgeStore
<1>2. IInv'
  BY <1>1, RetryStep
<1>3. /\ id \in DOMAIN requests /\ requests[id].status = "CallbackPending"
      /\ EnterCallback(id, requests[id])
  BY <1>1 DEF RetryCallback
<1>4. requests[id] \in Request
  BY <1>3, StorageFields DEF IInv, StorageOK, IsStorage
<1>5. PairOK(Storage', BridgeStorage', sent)
  <2> DEFINE e == [requests[id] EXCEPT !.callbackLocked = TRUE, !.status = "CallbackPending"]
  <2>1. requests' = [requests EXCEPT ![id] = e]
    BY <1>3 DEF EnterCallback
  <2>2. /\ e.decision = requests[id].decision
        /\ e.resultTxHash = requests[id].resultTxHash
        /\ e.status = "CallbackPending"
    BY <1>4 DEF Request
  <2>3. SameBridge(BridgeStorage, BridgeStorage')
    BY <1>1, BridgeFields DEF SameBridge
  <2>4. PairOK(Storage, BridgeStorage, sent)
    BY DEF BridgeInv
  <2> HIDE DEF e
  <2>5. SameVerdicts(requests, requests')
    BY <1>3, <2>1, <2>2, CallKeepsVerdicts
  <2> QED
    BY <2>3, <2>4, <2>5, SameVerdictsKeepPair, StorageFields
<1>6. StacksOK(frames', bridgeFrames', sent)
  <2> DEFINE f == [kind |-> "callback", request |-> id, saved |-> Storage']
  <2>1. frames' = Append(frames, f) /\ f.saved = Storage'
    BY <1>3 DEF EnterCallback
  <2>2. bridgeFrames' = Append(bridgeFrames, BridgeStorage')
    BY <1>1 DEF PushBridge
  <2>3. IsStack(frames) /\ StacksOK(frames, bridgeFrames, sent)
    BY DEF IInv, StackOK, BridgeInv
  <2> HIDE DEF f
  <2> QED
    BY <1>5, <2>1, <2>2, <2>3, PushBoth
<1>7. PairOK(committed', bridgeCommitted', sent)
  BY <1>1, <1>3 DEF BridgeInv, EnterCallback
<1> QED
  BY <1>2, <1>5, <1>6, <1>7 DEF BridgeInv

(* The end of a callback, from the storages it goes back to or keeps. *)
LEMMA CallOver ==
  ASSUME IInv, NEW sent, BridgeInv(sent), InCallback, frames' = Pop, PopBridge,
         Commit, CommitBridge,
         NEW s, NEW b, StorageOK(s, Called(frames, Len(frames))), PairOK(s, b, sent),
         SameBridge(b, BridgeStorage'),
         \/ requests' = [s.requests EXCEPT
                           ![Top.request].status = "CallbackExecuted",
                           ![Top.request].callbackLocked = FALSE]
         \/ requests' = [s.requests EXCEPT ![Top.request].callbackLocked = FALSE]
  PROVE  BridgeInv(sent)'
<1> DEFINE id == Top.request
<1>1. /\ id \in DOMAIN s.requests
      /\ s.requests[id].status = "CallbackPending"
      /\ s.requests \in [DOMAIN s.requests -> Request]
      /\ s.requests[id] \in Request
  BY TopIsPending
<1>2. PICK e : /\ requests' = [s.requests EXCEPT ![id] = e]
               /\ e.decision = s.requests[id].decision
               /\ e.resultTxHash = s.requests[id].resultTxHash
               /\ e.status \in {"CallbackPending", "CallbackExecuted"}
  <2>1. CASE requests' = [s.requests EXCEPT
                            ![Top.request].status = "CallbackExecuted",
                            ![Top.request].callbackLocked = FALSE]
    <3> DEFINE e == [s.requests[id] EXCEPT !.status = "CallbackExecuted",
                                           !.callbackLocked = FALSE]
    <3>1. /\ e.decision = s.requests[id].decision
          /\ e.resultTxHash = s.requests[id].resultTxHash
          /\ e.status = "CallbackExecuted"
      BY <1>1 DEF Request
    <3>2. requests' = [s.requests EXCEPT ![id] = e]
      BY <1>1, <2>1
    <3> HIDE DEF e
    <3> QED
      BY <3>1, <3>2
  <2>2. CASE requests' = [s.requests EXCEPT ![Top.request].callbackLocked = FALSE]
    <3> DEFINE e == [s.requests[id] EXCEPT !.callbackLocked = FALSE]
    <3>1. /\ e.decision = s.requests[id].decision
          /\ e.resultTxHash = s.requests[id].resultTxHash
          /\ e.status = "CallbackPending"
      BY <1>1 DEF Request
    <3>2. requests' = [s.requests EXCEPT ![id] = e]
      BY <1>1, <2>2
    <3> HIDE DEF e
    <3> QED
      BY <3>1, <3>2
  <2> QED
    BY <2>1, <2>2
<1>3. PairOK(Storage', BridgeStorage', sent)
  <2>1. e.status # "Dispatched" /\ s.requests[id].status # "Dispatched"
    BY <1>1, <1>2
  <2> HIDE DEF id
  <2>2. SameVerdicts(s.requests, requests')
    BY <1>1, <1>2, <2>1, CallKeepsVerdicts
  <2> QED
    BY <2>2, SameVerdictsKeepPair, StorageFields
<1>4. PairOK(committed', bridgeCommitted', sent)
  BY <1>3, CommitKeepsPair DEF BridgeInv
<1>5. StacksOK(frames', bridgeFrames', sent)
  BY PopBoth DEF Pop, PopBridge, BridgeInv, IInv, StackOK, InCallback, AtRest
<1> QED
  BY <1>3, <1>4, <1>5 DEF BridgeInv

(* _attemptCallback, when the callback returns *)
LEMMA CallEndsStep ==
  ASSUME IInv, NEW sent, BridgeInv(sent), CallEnds
  PROVE  IInv' /\ BridgeInv(sent)'
<1>1. /\ CallbackReturns /\ PopBridge /\ CommitBridge
      /\ messageNonce' = messageNonce /\ outbound' = outbound /\ baseGuids' = baseGuids
  BY DEF CallEnds, bridgeStore
<1>2. SameBridge(BridgeStorage, BridgeStorage')
  BY <1>1, BridgeFields DEF SameBridge
<1>3. PairOK(Storage, BridgeStorage, sent) /\ StorageOK(Storage, Called(frames, Len(frames)))
  BY DEF BridgeInv, IInv
<1>4. /\ InCallback /\ frames' = Pop /\ Commit
      /\ requests' = [Storage.requests EXCEPT
                        ![Top.request].status = "CallbackExecuted",
                        ![Top.request].callbackLocked = FALSE]
  BY <1>1, StorageFields DEF CallbackReturns
<1>5. BridgeInv(sent)'
  BY <1>1, <1>2, <1>3, <1>4, CallOver
<1> QED
  BY <1>1, <1>5, ReturnStep

(* _attemptCallback, when the callback reverts *)
LEMMA CallRevertsStep ==
  ASSUME IInv, NEW sent, BridgeInv(sent), CallReverts
  PROVE  IInv' /\ BridgeInv(sent)'
<1>1. CallbackReverts /\ RestoreBridge(BridgeTop) /\ PopBridge /\ CommitBridge
  BY DEF CallReverts
<1>2. SameBridge(BridgeTop, BridgeStorage')
  BY <1>1, BridgeFields DEF SameBridge, RestoreBridge
<1>3. frames # <<>> /\ StackOK(frames)
  BY <1>1 DEF IInv, CallbackReverts, InCallback, AtRest
<1>4. StorageOK(Top.saved, Called(frames, Len(frames)))
  BY <1>3, PopStackOK DEF Top
<1>5. PairOK(Top.saved, BridgeTop, sent)
  BY <1>3, PopBoth DEF Top, BridgeTop, BridgeInv, StackOK
<1>6. /\ InCallback /\ frames' = Pop /\ Commit
      /\ requests' = [Top.saved.requests EXCEPT ![Top.request].callbackLocked = FALSE]
  BY <1>1 DEF CallbackReverts, RestoreAs, Unlocked
<1>7. BridgeInv(sent)'
  BY <1>1, <1>2, <1>4, <1>5, <1>6, CallOver
<1> QED
  BY <1>1, <1>7, RevertStep

(* a transaction that fails as a whole *)
LEMMA TransactionRevertsStep ==
  ASSUME IInv, NEW sent, BridgeInv(sent), TransactionReverts
  PROVE  IInv' /\ BridgeInv(sent)'
<1>1. /\ Abort /\ RestoreBridge(bridgeCommitted) /\ bridgeFrames' = <<>>
      /\ bridgeCommitted' = bridgeCommitted
  BY DEF TransactionReverts
<1>2. /\ frames' = <<>> /\ committed' = committed /\ requests' = committed.requests
  BY <1>1 DEF Abort, Restore, RestoreAs
<1>3. PairOK(Storage', BridgeStorage', sent)
  <2>1. SameBridge(bridgeCommitted, BridgeStorage')
    BY <1>1, BridgeFields DEF SameBridge, RestoreBridge
  <2>2. Storage'.requests = committed.requests
    BY <1>2, StorageFields
  <2>3. PairOK(committed, bridgeCommitted, sent)
    BY DEF BridgeInv
  <2> QED
    BY <2>1, <2>2, <2>3, SamePairOK
<1>4. PairOK(committed', bridgeCommitted', sent)
  BY <1>1, <1>2 DEF BridgeInv
<1>5. StacksOK(frames', bridgeFrames', sent)
  <2>1. IsStack(bridgeFrames')
    BY <1>1, EmptySeq DEF IsStack
  <2> QED
    BY <1>1, <1>2, <2>1 DEF StacksOK
<1> QED
  BY <1>1, <1>3, <1>4, <1>5, AbortStep DEF BridgeInv

(* A step that touches neither the requests nor what the bridge stores. *)
LEMMA UntouchedBridge ==
  ASSUME NEW sent, BridgeInv(sent),
         UNCHANGED <<requests, frames, committed, bridgeStore, bridgeFrames, bridgeCommitted>>
  PROVE  BridgeInv(sent)'
<1>1. SameBridge(BridgeStorage, BridgeStorage')
  BY BridgeFields DEF SameBridge, bridgeStore
<1>2. Storage'.requests = Storage.requests
  BY StorageFields
<1>3. PairOK(Storage', BridgeStorage', sent)
  BY <1>1, <1>2, SamePairOK DEF BridgeInv
<1> QED
  BY <1>3 DEF BridgeInv

(* the owner's setters of the router, and the clock *)
LEMMA RouterConfiguredStep ==
  ASSUME IInv, NEW sent, BridgeInv(sent), RouterConfigured \/ BlockTimePasses
  PROVE  IInv' /\ BridgeInv(sent)'
<1>1. CASE RouterConfigured
  <2> PICK caller \in Owners :
        \/ \E t \in Transports : SetTransport(caller, t)
        \/ \E r \in Receivers : SetResultReceiver(caller, r)
        \/ \E o \in Owners : TransferOwnership(caller, o)
    BY <1>1 DEF RouterConfigured
  <2>1. IInv'
    BY SettersStep
  <2>2. UNCHANGED <<requests, frames, committed>>
    BY DEF SetTransport, SetResultReceiver, TransferOwnership, ledger
  <2> QED
    BY <1>1, <2>1, <2>2, UntouchedBridge DEF RouterConfigured, bridgeVars
<1>2. CASE BlockTimePasses
  <2>1. IInv'
    BY <1>2, TickStep DEF BlockTimePasses
  <2> QED
    BY <1>2, <2>1, UntouchedBridge DEF BlockTimePasses, Tick, bridgeVars
<1> QED
  BY <1>1, <1>2

(* A step that leaves the router alone keeps its invariant. *)
LEMMA SameRouter ==
  ASSUME IInv, UNCHANGED routerVars PROVE IInv'
BY NextIInv

(* the owners' setters of the sender and of the result receiver *)
LEMMA BridgeConfiguredStep ==
  ASSUME IInv, NEW sent, BridgeInv(sent), trustedForwarder \in Forwarders, BridgeConfigured
  PROVE  IInv' /\ BridgeInv(sent)' /\ trustedForwarder' \in Forwarders
<1>1. /\ UNCHANGED routerVars
      /\ UNCHANGED <<bridgeStore, bridgeFrames, bridgeCommitted>>
  BY DEF BridgeConfigured, SetSenderRouter, SetReceiverRouter, SetRemote,
         SetTargetGenLayerReceiver, SetBaseTrustedAdjudicator, SetTrustedForwarder,
         TransferSender, TransferBaseReceiver, SenderSetter, ReceiverSetter
<1>2. trustedForwarder' \in Forwarders
  BY DEF BridgeConfigured, SetSenderRouter, SetReceiverRouter, SetRemote,
         SetTargetGenLayerReceiver, SetBaseTrustedAdjudicator, SetTrustedForwarder,
         TransferSender, TransferBaseReceiver, SenderSetter, ReceiverSetter, receiverAdmin
<1>3. BridgeInv(sent)'
  BY <1>1, UntouchedBridge DEF routerVars
<1> QED
  BY <1>1, <1>2, <1>3, SameRouter

(* lzReceive of the result receiver, of a packet the forwarder sent *)
LEMMA ArrivesKeepsBase ==
  ASSUME IInv, NEW sent, NEW stored, BridgeInv(sent), ForwardedOK(sent, stored),
         NEW i \in 1 .. Len(sent),
         LzReceive([guid |-> [from |-> HubForwarder, nr |-> i],
                    sender |-> HubForwarder, message |-> sent[i].result])
  PROVE  IInv' /\ BridgeInv(sent)'
<1> DEFINE result == sent[i].result
           id == result.requestId
           g == [from |-> HubForwarder, nr |-> i]
<1>1. /\ HandleResult(LzReceiver, id, result.decision, result.policyHash,
                      result.evidenceHash, result.txHash)
      /\ PushBridge
      /\ messageNonce' = messageNonce /\ outbound' = outbound
      /\ baseGuids' = baseGuids \cup {g}
      /\ bridgeCommitted' = bridgeCommitted
  BY DEF LzReceive, GuidsAfter
<1>2. result.decision \in Verdicts /\ result.txHash \in ResultHashes
  BY DEF ForwardedOK
<1>3. IInv'
  BY <1>1, <1>2, ResultStep
<1>4. /\ id \in DOMAIN requests /\ requests[id].status = "Dispatched"
      /\ EnterCallback(id, [requests[id] EXCEPT !.decision = result.decision,
                                                !.resultTxHash = result.txHash,
                                                !.status = "Finalized"])
  BY <1>1 DEF HandleResult
<1>5. requests[id] \in Request
  BY <1>4, StorageFields DEF IInv, StorageOK, IsStorage
<1>6. PairOK(Storage', BridgeStorage', sent)
  <2> DEFINE r == [requests[id] EXCEPT !.decision = result.decision,
                                       !.resultTxHash = result.txHash,
                                       !.status = "Finalized"]
             e == [r EXCEPT !.callbackLocked = TRUE, !.status = "CallbackPending"]
  <2>1. requests' = [requests EXCEPT ![id] = e]
    BY <1>4 DEF EnterCallback
  <2>2. /\ e.decision = result.decision
        /\ e.resultTxHash = result.txHash
        /\ e.status # "Dispatched"
    BY <1>5 DEF Request
  <2>3. PairOK(Storage, BridgeStorage, sent)
    BY DEF BridgeInv
  <2> HIDE DEF e
  <2>4. /\ id \in DOMAIN Storage.requests
        /\ Storage.requests[id].status = "Dispatched"
        /\ Storage'.requests = [Storage.requests EXCEPT ![id] = e]
    BY <1>4, <2>1, StorageFields
  <2>5. /\ BridgeStorage'.messageNonce = BridgeStorage.messageNonce
        /\ BridgeStorage'.outbound = BridgeStorage.outbound
        /\ BridgeStorage'.baseGuids = BridgeStorage.baseGuids \cup {g}
    BY <1>1, BridgeFields
  <2>6. e.decision \in Verdicts
    BY <1>2, <2>2
  <2> QED
    BY <2>2, <2>3, <2>4, <2>5, <2>6, ArrivalKeepsPair
<1>7. StacksOK(frames', bridgeFrames', sent)
  <2> DEFINE f == [kind |-> "callback", request |-> id, saved |-> Storage']
  <2>1. frames' = Append(frames, f) /\ f.saved = Storage'
    BY <1>4 DEF EnterCallback
  <2>2. bridgeFrames' = Append(bridgeFrames, BridgeStorage')
    BY <1>1 DEF PushBridge
  <2>3. IsStack(frames) /\ StacksOK(frames, bridgeFrames, sent)
    BY DEF IInv, StackOK, BridgeInv
  <2> HIDE DEF f
  <2> QED
    BY <1>6, <2>1, <2>2, <2>3, PushBoth
<1>8. PairOK(committed', bridgeCommitted', sent)
  BY <1>1, <1>4 DEF BridgeInv, EnterCallback
<1> QED
  BY <1>3, <1>6, <1>7, <1>8 DEF BridgeInv

(* Everything on Base but the arrival of packets *)
LEMMA BaseRunsStep ==
  ASSUME IInv, NEW sent, BridgeInv(sent), trustedForwarder \in Forwarders, BaseRuns
  PROVE  IInv' /\ BridgeInv(sent)' /\ trustedForwarder' \in Forwarders
<1>1. BaseActs \/ RouterConfigured \/ BridgeConfigured
  BY DEF BaseRuns
<1>2. CASE BaseActs
  <2>1. trustedForwarder' = trustedForwarder
    BY <1>2 DEF BaseActs, BridgeRequest, Retried, CallEnds, CallReverts,
                TransactionReverts, BlockTimePasses, bridgeVars, receiverAdmin
  <2>2. ASSUME NEW id \in RequestIds, NEW deliveryFee \in 0 .. RequestFee,
               BridgeRequest(id, RequestFee, deliveryFee)
        PROVE  IInv' /\ BridgeInv(sent)'
    <3>1. RequestFee \in Nat /\ deliveryFee \in Nat
      BY RouterConstants
    <3> QED
      BY <2>2, <3>1, BridgeRequestStep
  <2>3. ASSUME NEW id \in DOMAIN requests, Retried(id)
        PROVE  IInv' /\ BridgeInv(sent)'
    BY <2>3, RetriedStep
  <2> QED
    BY <1>2, <2>1, <2>2, <2>3, CallEndsStep, CallRevertsStep, TransactionRevertsStep,
       RouterConfiguredStep
    DEF BaseActs
<1>3. CASE RouterConfigured
  <2>1. trustedForwarder' = trustedForwarder
    BY <1>3 DEF RouterConfigured, bridgeVars, receiverAdmin
  <2> QED
    BY <1>3, <2>1, RouterConfiguredStep
<1>4. CASE BridgeConfigured
  BY <1>4, BridgeConfiguredStep
<1> QED
  BY <1>1, <1>2, <1>3, <1>4

(* Nobody on Base moves. *)
LEMMA BaseRests ==
  ASSUME IInv, NEW sent, BridgeInv(sent), UNCHANGED baseVars
  PROVE  IInv' /\ BridgeInv(sent)' /\ trustedForwarder' = trustedForwarder
<1>1. UNCHANGED routerVars /\ UNCHANGED bridgeVars
  BY DEF baseVars
<1>2. BridgeInv(sent)'
  BY <1>1, UntouchedBridge DEF routerVars, bridgeVars
<1>3. trustedForwarder' = trustedForwarder
  BY <1>1 DEF bridgeVars, receiverAdmin
<1> QED
  BY <1>1, <1>2, <1>3, SameRouter

-----------------------------------------------------------------------------
(* A quorum of distinct signers holds one who keeps its key for itself. *)
LEMMA HonestSigner ==
  ASSUME QuorumOK, NEW n \in quorum .. MaxAttestations, NEW result,
         NEW attestations \in [1 .. n -> AttestationsOf(result)],
         Hub!DistinctSigners(attestations)
  PROVE  StoredFor(result.requestId, result.decision)
<1> SUFFICES ASSUME ~StoredFor(result.requestId, result.decision)
             PROVE  FALSE
  OBVIOUS
<1> DEFINE by == [i \in 1 .. n |-> attestations[i].signer]
<1>1. \A i \in 1 .. n : attestations[i].signer \in Compromised
  <2>1. MaySign(result) = Compromised
    BY DEF MaySign
  <2> QED
    BY <2>1 DEF AttestationsOf
<1>2. \A i, j \in 1 .. n : attestations[i].signer = attestations[j].signer => i = j
  BY DEF Hub!DistinctSigners
<1>3. by \in Injection(1 .. n, Compromised)
  BY <1>1, <1>2, Zenon DEF Injection, IsInjective
<1>4. /\ IsFiniteSet(Compromised) /\ Cardinality(Compromised) \in Nat
      /\ n \in Nat /\ n > Cardinality(Compromised)
  <2>1. IsFiniteSet(Compromised) /\ Cardinality(Compromised) \in Nat
    BY PathConstants, FS_CardinalityType
  <2> QED
    BY <2>1 DEF QuorumOK
<1>5. Cardinality(1 .. n) = n
  <2>1. 1 \in Int /\ n \in Int
    BY <1>4
  <2>2. Cardinality(1 .. n) = IF 1 > n THEN 0 ELSE n - 1 + 1
    BY <2>1, FS_Interval
  <2> QED
    BY <1>4, <2>2
<1>6. Cardinality(1 .. n) <= Cardinality(Compromised)
  BY <1>3, <1>4, FS_Injection
<1> QED
  BY <1>4, <1>5, <1>6

(* More is forwarded, and the storages on Base still belong together. *)
LEMMA BridgeGrows ==
  ASSUME NEW sent, NEW sent2, BridgeInv(sent),
         Len(sent) \in Nat, Len(sent2) \in Nat, Len(sent) <= Len(sent2),
         \A i \in 1 .. Len(sent) : sent2[i] = sent[i]
  PROVE  BridgeInv(sent2)
BY ForwardKeepsPair DEF BridgeInv, StacksOK

(* forwardResult *)
LEMMA ForwardedStep ==
  ASSUME PathInv, NEW id, Forwarded(id)
  PROVE  /\ BridgeInv(forwarded')
         /\ ForwardedOK(forwarded', results)
         /\ quorum' = quorum
<1> PICK d \in Verdicts, h \in ResultHashes, n \in quorum .. MaxAttestations :
      \E attestations \in [1 .. n -> AttestationsOf(ResultFor(id, d, h))] :
        Hub!ForwardResult(HubRelayer, h, ResultFor(id, d, h), attestations)
  BY DEF Forwarded
<1> DEFINE result == ResultFor(id, d, h)
<1> PICK attestations \in [1 .. n -> AttestationsOf(result)] :
      Hub!ForwardResult(HubRelayer, h, result, attestations)
  OBVIOUS
<1> DEFINE f == [result |-> result, epoch |-> signerEpoch,
                 attestations |-> {attestations[i] : i \in DOMAIN attestations}]
<1>1. /\ Hub!DistinctSigners(attestations)
      /\ forwarded' = Append(forwarded, f)
      /\ quorum' = quorum
  BY DEF Hub!ForwardResult, Hub!VerifyQuorum, Hub!signing
<1>2. result.decision = d /\ result.txHash = h
  BY DEF ResultFor
<1>3. f.result = result
  OBVIOUS
<1> HIDE DEF result, f
<1>4. StoredFor(result.requestId, result.decision)
  BY <1>1, HonestSigner DEF PathInv
<1>5. /\ IsStack(forwarded')
      /\ Len(forwarded) \in Nat
      /\ Len(forwarded') = Len(forwarded) + 1
      /\ \A i \in 1 .. Len(forwarded) : forwarded'[i] = forwarded[i]
      /\ forwarded'[Len(forwarded) + 1] = f
  BY <1>1, PushFacts DEF PathInv, ForwardedOK
<1>6. BridgeInv(forwarded')
  <2>1. Len(forwarded') \in Nat /\ Len(forwarded) <= Len(forwarded')
    BY <1>5
  <2> QED
    BY <1>5, <2>1, BridgeGrows DEF PathInv
<1>7. ForwardedOK(forwarded', results)
  <2> SUFFICES ASSUME NEW i \in 1 .. Len(forwarded')
               PROVE  LET r == forwarded'[i].result
                          key == [request |-> r.requestId, spelling |-> "lower"]
                      IN /\ r.decision \in Verdicts
                         /\ r.txHash \in ResultHashes
                         /\ key \in DOMAIN results
                         /\ results[key].decision = r.decision
    BY <1>5 DEF ForwardedOK
  <2>1. CASE i = Len(forwarded) + 1
    BY <1>2, <1>3, <1>4, <1>5, <2>1 DEF StoredFor
  <2>2. CASE i \in 1 .. Len(forwarded)
    BY <1>5, <2>2 DEF PathInv, ForwardedOK
  <2> QED
    BY <1>5, <2>1, <2>2
<1> QED
  BY <1>1, <1>6, <1>7

(* setSigner and setQuorum *)
LEMMA SignersChangeStep ==
  ASSUME QuorumOK, SignersChange
  PROVE  forwarded' = forwarded /\ QuorumOK'
<1> PICK o \in HubOwners : Hub!AdministersSigners(o)
  BY DEF SignersChange
<1>1. quorum' > Cardinality(Compromised)
  BY DEF SignersChange
<1>2. forwarded' = forwarded /\ quorum' \in Int
  BY DEF Hub!AdministersSigners, Hub!SetSigner, Hub!SetQuorum, Hub!sent, QuorumOK
<1> QED
  BY <1>1, <1>2 DEF QuorumOK

-----------------------------------------------------------------------------
(* What a validator may conclude from the server's answer. *)
LEMMA OutcomeSupported ==
  ASSUME NEW answer \in GenLayer!Answers, NEW outcome \in GenLayer!Outcomes(answer)
  PROVE  Supported(outcome, {answer})
<1>1. CASE answer = "Unusable"
  <2>1. outcome = [decision |-> "Undetermined", body |-> "Committed"]
    BY <1>1 DEF GenLayer!Outcomes
  <2> QED
    BY <1>1, <2>1 DEF Supported
<1>2. CASE answer = "Committed"
  <2>1. \E d \in GenLayer!Decisions : outcome = [decision |-> d, body |-> "Committed"]
    BY <1>2 DEF GenLayer!Outcomes
  <2> QED
    BY <1>2, <2>1 DEF Supported, GenLayer!Decisions
<1>3. CASE answer \notin {"Unusable", "Committed"}
  <2>1. outcome = [decision |-> "Fail", body |-> answer]
    BY <1>3 DEF GenLayer!Outcomes
  <2> QED
    BY <1>3, <2>1 DEF Supported
<1> QED
  BY <1>1, <1>2, <1>3

(* A validator that agrees saw what the leader's outcome rests on, too. *)
LEMMA AgreementSupported ==
  ASSUME NEW leaders, NEW mine, NEW answers, NEW answer,
         Supported(leaders, answers), Supported(mine, {answer}),
         GenLayer!SameOutcome(mine, leaders)
  PROVE  Supported(leaders, answers \cup {answer})
BY DEF Supported, GenLayer!SameOutcome

(* A supported outcome rests on the evidence. *)
LEMMA SupportedRests ==
  ASSUME NEW outcome, NEW answers, Supported(outcome, answers)
  PROVE  GenLayer!RestsOnEvidence([decision |-> outcome.decision, answers |-> answers])
<1> DEFINE r == [decision |-> outcome.decision, answers |-> answers]
<1>1. r.decision = outcome.decision /\ r.answers = answers
  OBVIOUS
<1> HIDE DEF r
<1>2. CASE outcome.decision = "Pass"
  BY <1>1, <1>2 DEF Supported, GenLayer!RestsOnEvidence
<1>3. CASE outcome.decision = "Fail"
  <2>1. outcome.body # "Unusable" /\ answers = {outcome.body}
    BY <1>3 DEF Supported
  <2>2. Cardinality({outcome.body}) = 1
    BY FS_Singleton
  <2>3. GenLayer!Cardinality({outcome.body}) = Cardinality({outcome.body})
    BY DEF GenLayer!Cardinality, Cardinality
  <2>4. GenLayer!Cardinality(r.answers) = 1 /\ "Unusable" \notin r.answers
    BY <1>1, <2>1, <2>2, <2>3
  <2> QED
    BY <1>1, <1>3, <2>4 DEF GenLayer!RestsOnEvidence
<1>4. CASE outcome.decision = "Undetermined"
  BY <1>1, <1>4, PathConstants DEF Supported, GenLayer!RestsOnEvidence
<1>5. outcome.decision \in {"Pass", "Fail", "Undetermined"}
  BY DEF Supported
<1> QED
  BY <1>2, <1>3, <1>4, <1>5 DEF r

(* A result that is added leaves the others as they are. *)
LEMMA StoreKeepsForwarded ==
  ASSUME NEW sent, NEW stored, ForwardedOK(sent, stored),
         NEW stored2, DOMAIN stored \subseteq DOMAIN stored2,
         \A key \in DOMAIN stored : stored2[key] = stored[key]
  PROVE  ForwardedOK(sent, stored2)
BY DEF ForwardedOK

(* A step of the adjudicator that stores nothing *)
LEMMA ExecutionChanges ==
  ASSUME AdjudicatorOK, NEW sent, ForwardedOK(sent, results), results' = results,
         execution' # GenLayer!Idle => ExecutionOK(execution', results)
  PROVE  AdjudicatorOK' /\ ForwardedOK(sent, results')
BY DEF AdjudicatorOK

(* adjudicate, up to the execution by the validators *)
LEMMA SubmittedStep ==
  ASSUME AdjudicatorOK, NEW sent, ForwardedOK(sent, results), NEW id,
         SubmittedToGenLayer(id)
  PROVE  AdjudicatorOK' /\ ForwardedOK(sent, results')
<1> DEFINE key == [request |-> messages[id].message.requestId, spelling |-> "lower"]
<1>1. /\ key \notin DOMAIN results /\ results' = results
      /\ execution' = GenLayer!Execution(key)
  BY DEF SubmittedToGenLayer, GenLayer!Adjudicate, GenLayer!HasNoResult
<1> HIDE DEF key
<1>2. ExecutionOK(execution', results)
  BY <1>1 DEF ExecutionOK, GenLayer!Execution
<1> QED
  BY <1>1, <1>2, ExecutionChanges

(* the execution by leader and validators, and the owner's setters *)
LEMMA GenLayerStep ==
  ASSUME AdjudicatorOK, NEW sent, ForwardedOK(sent, results), GenLayerRuns
  PROVE  AdjudicatorOK' /\ ForwardedOK(sent, results')
<1> DEFINE e == execution
<1>1. CASE GenLayer!Lead
  <2> PICK answer \in GenLayer!Answers : \E outcome \in GenLayer!Outcomes(answer) :
          execution' = [e EXCEPT !.proposal = outcome, !.agreeing = 1, !.answers = {answer}]
    BY <1>1 DEF GenLayer!Lead
  <2>1. PICK outcome \in GenLayer!Outcomes(answer) :
          execution' = [e EXCEPT !.proposal = outcome, !.agreeing = 1, !.answers = {answer}]
    OBVIOUS
  <2>2. execution # GenLayer!Idle /\ results' = results
    BY <1>1 DEF GenLayer!Lead
  <2>3. Supported(outcome, {answer})
    BY OutcomeSupported
  <2>4. ExecutionOK(e, results)
    BY <2>2 DEF AdjudicatorOK
  <2>5. ExecutionOK(execution', results)
    BY <2>1, <2>3, <2>4 DEF ExecutionOK
  <2> QED
    BY <2>2, <2>5, ExecutionChanges
<1>2. CASE GenLayer!Agrees
  <2> PICK answer \in GenLayer!Answers : \E mine \in GenLayer!Outcomes(answer) :
          /\ GenLayer!SameOutcome(mine, e.proposal)
          /\ execution' = [e EXCEPT !.agreeing = @ + 1, !.answers = @ \cup {answer}]
    BY <1>2 DEF GenLayer!Agrees
  <2>1. PICK mine \in GenLayer!Outcomes(answer) :
          /\ GenLayer!SameOutcome(mine, e.proposal)
          /\ execution' = [e EXCEPT !.agreeing = @ + 1, !.answers = @ \cup {answer}]
    OBVIOUS
  <2>2. GenLayer!IsLed /\ results' = results
    BY <1>2 DEF GenLayer!Agrees
  <2>3. ExecutionOK(e, results) /\ Supported(e.proposal, e.answers)
    BY <2>2 DEF AdjudicatorOK, GenLayer!IsLed, ExecutionOK
  <2>4. Supported(e.proposal, e.answers \cup {answer})
    BY <2>1, <2>3, OutcomeSupported, AgreementSupported
  <2>5. ExecutionOK(execution', results)
    BY <2>1, <2>3, <2>4 DEF ExecutionOK
  <2> QED
    BY <2>2, <2>5, ExecutionChanges
<1>3. CASE GenLayer!Disagrees
  <2>1. /\ GenLayer!IsLed /\ results' = results
        /\ execution' = [e EXCEPT !.disagreeing = @ + 1]
    BY <1>3 DEF GenLayer!Disagrees
  <2>2. ExecutionOK(e, results)
    BY <2>1 DEF AdjudicatorOK, GenLayer!IsLed
  <2>3. ExecutionOK(execution', results)
    BY <2>1, <2>2 DEF ExecutionOK
  <2> QED
    BY <2>1, <2>3, ExecutionChanges
<1>4. CASE GenLayer!StoreResult
  <2> DEFINE r == [decision |-> e.proposal.decision, answers |-> e.answers]
  <2>1. /\ GenLayer!IsLed /\ execution' = GenLayer!Idle
        /\ results' = [k \in DOMAIN results \cup {e.key} |->
                         IF k = e.key THEN r ELSE results[k]]
    BY <1>4 DEF GenLayer!StoreResult
  <2>2. e.key \notin DOMAIN results /\ Supported(e.proposal, e.answers)
    BY <2>1 DEF AdjudicatorOK, GenLayer!IsLed, ExecutionOK
  <2>3. GenLayer!RestsOnEvidence(r)
    BY <2>2, SupportedRests
  <2> HIDE DEF r
  <2>4. /\ DOMAIN results' = DOMAIN results \cup {e.key}
        /\ results'[e.key] = r
        /\ \A key \in DOMAIN results : results'[key] = results[key]
    BY <2>1, <2>2
  <2>5. AdjudicatorOK'
    BY <2>1, <2>3, <2>4 DEF AdjudicatorOK
  <2>6. ForwardedOK(sent, results')
    BY <2>4, StoreKeepsForwarded
  <2> QED
    BY <2>5, <2>6
<1>5. CASE GenLayer!RotateLeader \/ GenLayer!GiveUp
  <2>1. /\ GenLayer!IsLed /\ results' = results
        /\ execution' = GenLayer!Execution(e.key) \/ execution' = GenLayer!Idle
    BY <1>5 DEF GenLayer!RotateLeader, GenLayer!GiveUp, GenLayer!NoMajority
  <2>2. e.key \notin DOMAIN results
    BY <2>1 DEF AdjudicatorOK, GenLayer!IsLed, ExecutionOK
  <2>3. execution' # GenLayer!Idle => ExecutionOK(execution', results)
    BY <2>1, <2>2 DEF ExecutionOK, GenLayer!Execution
  <2> QED
    BY <2>1, <2>3, ExecutionChanges
<1>6. CASE GenLayer!Administers
  <2>1. results' = results /\ execution' = execution
    BY <1>6 DEF GenLayer!Administers, GenLayer!SetAuthorizedSubmitter,
                GenLayer!TransferAdjudicator
  <2> QED
    BY <2>1 DEF AdjudicatorOK
<1> QED
  BY <1>1, <1>2, <1>3, <1>4, <1>5, <1>6 DEF GenLayerRuns, GenLayer!Executes

-----------------------------------------------------------------------------
(***************************************************************************)
(* The contracts as the deployment scripts connect them are good.          *)
(***************************************************************************)
LEMMA InitPathInv == PathInit => PathInv
<1> SUFFICES ASSUME PathInit PROVE PathInv
  OBVIOUS
<1> USE DEF PathInit
<1>1. IInv
  <2>1. AdminOK
    <3>1. transport \in Transports /\ resultReceiver \in Receivers
      BY BridgeConstants DEF RouterConnected
    <3>2. paused \in BOOLEAN
      BY Zenon DEF RouterConnected
    <3>3. now \in Times
      BY RouterConstants DEF RouterConnected, Times
    <3> QED
      BY <3>1, <3>2, <3>3 DEF AdminOK, RouterConnected
  <2> QED
    BY <2>1, EmptyIInv DEF NothingAsked, RouterConnected
<1>2. trustedForwarder \in Forwarders
  BY PathConstants DEF BridgeConnected
<1>3. BridgeInv(forwarded)
  <2>1. PairOK(Storage, BridgeStorage, forwarded)
    <3>1. Storage.requests = [id \in {} |-> <<>>]
      BY StorageFields DEF RouterConnected
    <3>2. /\ BridgeStorage.messageNonce = 0
          /\ BridgeStorage.outbound = <<>>
          /\ BridgeStorage.baseGuids = {}
      BY BridgeFields DEF BridgeConnected
    <3>3. IsStack(<<>>)
      BY EmptySeq DEF IsStack
    <3> QED
      BY <3>1, <3>2, <3>3 DEF PairOK, SentOK, UsedOK
  <2>2. committed = Storage /\ bridgeCommitted = BridgeStorage
    BY DEF RouterConnected, BridgeConnected
  <2>3. StacksOK(frames, bridgeFrames, forwarded)
    BY EmptySeq DEF StacksOK, IsStack, RouterConnected, BridgeConnected
  <2> QED
    BY <2>1, <2>2, <2>3 DEF BridgeInv
<1>4. ForwardedOK(forwarded, results)
  BY EmptySeq DEF ForwardedOK, IsStack, HubConnected
<1>5. QuorumOK
  BY PathConstants DEF QuorumOK, HubConnected
<1>6. AdjudicatorOK
  BY DEF AdjudicatorOK, GenLayer!AdjudicatorInit
<1> QED
  BY <1>1, <1>2, <1>3, <1>4, <1>5, <1>6 DEF PathInv

(***************************************************************************)
(* Every step of the four systems keeps the invariant.                     *)
(***************************************************************************)
LEMMA NextPathInv == PathInv /\ [PathNext]_pathVars => PathInv'
<1> SUFFICES ASSUME PathInv, [PathNext]_pathVars PROVE PathInv'
  OBVIOUS
<1>1. /\ IInv /\ trustedForwarder \in Forwarders /\ BridgeInv(forwarded)
      /\ ForwardedOK(forwarded, results) /\ QuorumOK /\ AdjudicatorOK
  BY DEF PathInv
<1>2. ASSUME UNCHANGED hubVars, UNCHANGED genLayerVars,
             IInv', BridgeInv(forwarded)', trustedForwarder' \in Forwarders
      PROVE  PathInv'
  <2>1. forwarded' = forwarded /\ results' = results /\ quorum' = quorum
        /\ execution' = execution
    BY <1>2 DEF hubVars, hubForwarderVars, genLayerVars
  <2> QED
    BY <1>1, <1>2, <2>1 DEF PathInv, QuorumOK, AdjudicatorOK
<1>3. ASSUME UNCHANGED baseVars, forwarded' = forwarded, QuorumOK',
             AdjudicatorOK', ForwardedOK(forwarded, results')
      PROVE  PathInv'
  <2>1. IInv' /\ trustedForwarder' = trustedForwarder
    BY <1>1, <1>3, BaseRests
  <2>2. BridgeInv(forwarded)'
    BY <1>1, <1>3, UntouchedBridge
    DEF baseVars, routerVars, bridgeVars
  <2> QED
    BY <1>1, <1>3, <2>1, <2>2 DEF PathInv
<1>4. CASE BaseRuns
  <2>1. UNCHANGED hubVars /\ UNCHANGED genLayerVars
    BY <1>4 DEF BaseRuns, OnBase
  <2>2. forwarded' = forwarded
    BY <2>1 DEF hubVars, hubForwarderVars
  <2>3. IInv' /\ BridgeInv(forwarded)' /\ trustedForwarder' \in Forwarders
    BY <1>1, <1>4, <2>2, BaseRunsStep DEF BridgeInv
  <2> QED
    BY <1>2, <2>1, <2>3
<1>5. ASSUME NEW i, ArrivesAtHub(i) PROVE PathInv'
  <2>1. UNCHANGED baseVars /\ UNCHANGED genLayerVars /\ UNCHANGED hubForwarderVars
    BY <1>5 DEF ArrivesAtHub, OnHub
  <2> QED
    BY <1>1, <1>3, <2>1 DEF hubForwarderVars, genLayerVars, QuorumOK, AdjudicatorOK
<1>6. ASSUME NEW id, SubmittedToGenLayer(id) PROVE PathInv'
  <2>1. UNCHANGED baseVars /\ UNCHANGED hubVars
    BY <1>6 DEF SubmittedToGenLayer, OnGenLayer
  <2> QED
    BY <1>1, <1>3, <1>6, <2>1, SubmittedStep DEF hubVars, hubForwarderVars, QuorumOK
<1>7. ASSUME NEW id, Relayed(id) PROVE PathInv'
  <2>1. UNCHANGED baseVars /\ UNCHANGED genLayerVars /\ UNCHANGED hubForwarderVars
    BY <1>7 DEF Relayed, OnHub
  <2> QED
    BY <1>1, <1>3, <2>1 DEF hubForwarderVars, genLayerVars, QuorumOK, AdjudicatorOK
<1>8. ASSUME NEW id, Forwarded(id) PROVE PathInv'
  <2>1. UNCHANGED baseVars /\ UNCHANGED genLayerVars
    BY <1>8 DEF Forwarded, OnHub
  <2>2. /\ BridgeInv(forwarded') /\ ForwardedOK(forwarded', results) /\ quorum' = quorum
    BY <1>8, ForwardedStep
  <2>3. PICK sent : sent = forwarded'
    OBVIOUS
  <2>4. BridgeInv(sent)
    BY <2>2, <2>3
  <2>5. IInv' /\ BridgeInv(sent)' /\ trustedForwarder' = trustedForwarder
    BY <1>1, <2>1, <2>4, BaseRests
  <2>6. BridgeInv(forwarded)'
    BY <2>3, <2>5 DEF BridgeInv
  <2> QED
    BY <1>1, <2>1, <2>2, <2>5, <2>6 DEF PathInv, QuorumOK, AdjudicatorOK, genLayerVars
<1>9. ASSUME NEW id, StrangerSends(id) PROVE PathInv'
  <2>1. trustedForwarder \in Strangers
    BY <1>9 DEF StrangerSends, LzReceive, Accepts, FromTrustedForwarder
  <2> QED
    BY <1>1, <2>1, PathConstants
<1>10. CASE GenLayerRuns
  <2>1. UNCHANGED baseVars /\ UNCHANGED hubVars
    BY <1>10 DEF GenLayerRuns, OnGenLayer
  <2> QED
    BY <1>1, <1>3, <1>10, <2>1, GenLayerStep DEF hubVars, hubForwarderVars, QuorumOK
<1>11. CASE SignersChange
  <2>1. UNCHANGED baseVars /\ UNCHANGED genLayerVars
    BY <1>11 DEF SignersChange, OnHub
  <2> QED
    BY <1>1, <1>3, <1>11, <2>1, SignersChangeStep DEF genLayerVars, AdjudicatorOK
<1>12. ASSUME NEW i \in 1 .. Len(forwarded), ArrivesAtBase(i) PROVE PathInv'
  <2>1. /\ LzReceive([guid |-> [from |-> HubForwarder, nr |-> i],
                      sender |-> HubForwarder, message |-> forwarded[i].result])
        /\ UNCHANGED hubVars /\ UNCHANGED genLayerVars
    BY <1>12 DEF ArrivesAtBase, OnBase
  <2>2. trustedForwarder' = trustedForwarder
    BY <2>1 DEF LzReceive, receiverAdmin
  <2>3. IInv' /\ BridgeInv(forwarded)'
    <3>1. forwarded' = forwarded
      BY <2>1 DEF hubVars, hubForwarderVars
    <3> QED
      BY <1>1, <2>1, <3>1, ArrivesKeepsBase DEF BridgeInv
  <2> QED
    BY <1>1, <1>2, <2>1, <2>2, <2>3
<1>13. CASE UNCHANGED pathVars
  <2>1. UNCHANGED baseVars /\ UNCHANGED hubVars /\ UNCHANGED genLayerVars
    BY <1>13 DEF pathVars
  <2> QED
    BY <1>1, <1>3, <2>1 DEF hubVars, hubForwarderVars, genLayerVars, QuorumOK, AdjudicatorOK
<1> QED
  BY <1>4, <1>5, <1>6, <1>7, <1>8, <1>9, <1>10, <1>11, <1>12, <1>13 DEF PathNext

(***************************************************************************)
(* In every reachable state of the four systems, and in every state a      *)
(* revert would restore on Base, messages, packets, verdicts and results   *)
(* belong together.                                                        *)
(***************************************************************************)
THEOREM PathInvariant == PathSpec => []PathInv
BY InitPathInv, NextPathInv, PTL DEF PathSpec

(***************************************************************************)
(* The messages that were sent are one for each request.                   *)
(***************************************************************************)
LEMMA SentOnce == PathInv => OneMessagePerRequest
<1> SUFFICES ASSUME PathInv PROVE OneMessagePerRequest
  OBVIOUS
<1>1. SentOK(Storage, BridgeStorage)
  BY DEF PathInv, BridgeInv, PairOK
<1>2. /\ IsStack(outbound)
      /\ \A i \in 1 .. Len(outbound) :
           outbound[i].id.nonce = i /\ outbound[i].requestId \in DOMAIN requests
      /\ \A id \in DOMAIN requests :
           \E i \in 1 .. Len(outbound) : outbound[i].requestId = id
      /\ \A i, j \in 1 .. Len(outbound) :
           outbound[i].requestId = outbound[j].requestId => i = j
  BY <1>1, StorageFields, BridgeFields DEF SentOK
<1>3. DOMAIN outbound = 1 .. Len(outbound)
  BY <1>2, LenProperties DEF IsStack
<1>4. {outbound[i].requestId : i \in DOMAIN outbound} = DOMAIN requests
  <2>1. ASSUME NEW i \in DOMAIN outbound PROVE outbound[i].requestId \in DOMAIN requests
    BY <1>2, <1>3
  <2>2. ASSUME NEW id \in DOMAIN requests
        PROVE  \E i \in DOMAIN outbound : outbound[i].requestId = id
    BY <1>2, <1>3
  <2> QED
    BY <2>1, <2>2
<1>5. ASSUME NEW i \in DOMAIN outbound, NEW j \in DOMAIN outbound, i # j
      PROVE  /\ outbound[i].requestId # outbound[j].requestId
             /\ outbound[i].id.nonce # outbound[j].id.nonce
  BY <1>2, <1>3, <1>5
<1> QED
  BY <1>4, <1>5 DEF OneMessagePerRequest

(***************************************************************************)
(* Every request the router stores was sent to the hub exactly once, under *)
(* a message id of its own, whatever is rolled back.                       *)
(***************************************************************************)
THEOREM MessagePerRequest == PathSpec => []OneMessagePerRequest
BY PathInvariant, SentOnce, PTL

(***************************************************************************)
(* The packets that were accepted are one for each verdict.                *)
(***************************************************************************)
LEMMA UsedUp == PathInv => PacketPerVerdict
<1> SUFFICES ASSUME PathInv PROVE PacketPerVerdict
  OBVIOUS
<1>1. UsedOK(Storage, BridgeStorage, forwarded)
  BY DEF PathInv, BridgeInv, PairOK
<1>2. /\ \A g \in baseGuids :
           /\ ResultOf(g).requestId \in DOMAIN requests
           /\ requests[ResultOf(g).requestId].decision = ResultOf(g).decision
           /\ requests[ResultOf(g).requestId].resultTxHash = ResultOf(g).txHash
           /\ ResultOf(g).decision \in Verdicts
      /\ \A id \in DOMAIN requests : requests[id].decision # "None" =>
           \E g \in baseGuids : ResultOf(g).requestId = id
      /\ \A g, h \in baseGuids :
           ResultOf(g).requestId = ResultOf(h).requestId => g = h
  BY <1>1, StorageFields, BridgeFields DEF UsedOK, AnsweredBy, ResultOf
<1>3. "None" \notin Verdicts
  BY DEF Verdicts
<1> QED
  BY <1>2, <1>3 DEF PacketPerVerdict, Answered

(***************************************************************************)
(* A packet is used up exactly when it has answered a request: none is     *)
(* lost in a transaction that fails, and none answers twice.               *)
(***************************************************************************)
THEOREM PacketsUsedUp == PathSpec => []PacketPerVerdict
BY PathInvariant, UsedUp, PTL

(***************************************************************************)
(* A verdict came in a packet, the packet from a quorum, and the quorum's  *)
(* result from the adjudicator.                                            *)
(***************************************************************************)
LEMMA Adjudicated == PathInv => VerdictIsAdjudicated
<1> SUFFICES ASSUME PathInv, NEW id \in Answered
             PROVE  LET key == [request |-> id, spelling |-> "lower"]
                    IN /\ StoredFor(id, requests[id].decision)
                       /\ GenLayer!RestsOnEvidence(results[key])
  BY DEF VerdictIsAdjudicated
<1>1. UsedOK(Storage, BridgeStorage, forwarded)
  BY DEF PathInv, BridgeInv, PairOK
<1>2. PICK g \in baseGuids : forwarded[g.nr].result.requestId = id
  BY <1>1, StorageFields, BridgeFields DEF UsedOK, Answered
<1>3. /\ g.nr \in 1 .. Len(forwarded)
      /\ requests[id].decision = forwarded[g.nr].result.decision
  BY <1>1, <1>2, StorageFields, BridgeFields DEF UsedOK, AnsweredBy
<1> DEFINE key == [request |-> id, spelling |-> "lower"]
<1>4. key \in DOMAIN results /\ results[key].decision = requests[id].decision
  BY <1>2, <1>3 DEF PathInv, ForwardedOK
<1>5. GenLayer!RestsOnEvidence(results[key])
  BY <1>4 DEF PathInv, AdjudicatorOK
<1> QED
  BY <1>4, <1>5 DEF StoredFor

(***************************************************************************)
(* Every verdict the router records is the one the adjudicator stored for  *)
(* that very request, and a majority of validators based it on the         *)
(* evidence: whatever packets are lost, repeated or reordered, whatever    *)
(* fewer lost keys than the quorum attest, and whatever the owners change  *)
(* in between.                                                             *)
(***************************************************************************)
THEOREM VerdictsAreAdjudicated == PathSpec => []VerdictIsAdjudicated
BY PathInvariant, Adjudicated, PTL

(***************************************************************************)
(* The router's own invariants survive results that come through the       *)
(* bridge, which stores its own part in the same transactions.             *)
(***************************************************************************)
THEOREM RouterSoundOnThePath ==
  PathSpec => [](DeliveredOnce /\ LockIsHeldByOneCall /\ FeesAreHeld
                   /\ NonceIdentifiesRequest)
<1>1. PathInv => /\ DeliveredOnce /\ LockIsHeldByOneCall /\ FeesAreHeld
                 /\ NonceIdentifiesRequest
  BY IInvLocks
  DEF PathInv, IInv, StorageOK, DeliveredOnce, FeesAreHeld, NonceIdentifiesRequest
<1> QED
  BY <1>1, PathInvariant, PTL
=============================================================================
