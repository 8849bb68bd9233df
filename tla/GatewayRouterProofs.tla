------------------------- MODULE GatewayRouterProofs -------------------------
(***************************************************************************)
(* What GatewayRouter.tla guarantees for every number of applications,     *)
(* requests and calls in progress.                                         *)
(*                                                                         *)
(* DeliveredOnce is not inductive: a revert brings back the storage a      *)
(* frame saved, so that storage must be as good as the current one, for    *)
(* the calls that were in progress when it was saved.  Hence IInv, which   *)
(* says StorageOK of the current storage, of the committed one and of      *)
(* every saved one, each with the set of requests whose callback is in     *)
(* progress at its level of the stack.                                     *)
(***************************************************************************)
EXTENDS GatewayRouter, SequenceTheorems, TLAPS

(* The requests whose callbacks are among the first n calls in progress. *)
Called(fs, n) ==
  {fs[i].request : i \in {k \in 1 .. n : fs[k].kind = "callback"}}

(* A good storage, given the requests whose callback is in progress. *)
StorageOK(s, called) ==
  /\ IsStorage(s)
  /\ DeliveredOnceIn(s)
  /\ FeesAreHeldIn(s)
  /\ NonceIdentifiesIn(s)
  /\ called = {id \in DOMAIN s.requests : s.requests[id].callbackLocked}
  /\ \A id \in called : s.requests[id].status = "CallbackPending"

AdminOK ==
  /\ owner \in Owners
  /\ transport \in Transports
  /\ resultReceiver \in Receivers \cup {Nobody}
  /\ paused \in BOOLEAN
  /\ now \in Times

StackOK(fs) ==
  /\ IsStack(fs)
  /\ Len(fs) <= MaxDepth
  /\ \A k \in 1 .. Len(fs) : StorageOK(fs[k].saved, Called(fs, k))
  /\ \A i, j \in 1 .. Len(fs) :
       fs[i].kind = "callback" /\ fs[j].kind = "callback"
         /\ fs[i].request = fs[j].request => i = j

(* The inductive invariant. *)
IInv ==
  /\ AdminOK
  /\ StackOK(frames)
  /\ StorageOK(Storage, Called(frames, Len(frames)))
  /\ StorageOK(committed, {})

-----------------------------------------------------------------------------
(* A sequence is a sequence over its own elements. *)
LEMMA OwnElements ==
  ASSUME NEW S, NEW q \in Seq(S)
  PROVE  q \in Seq({q[i] : i \in DOMAIN q})
<1> DEFINE R == {q[i] : i \in DOMAIN q}
<1>1. Len(q) \in Nat /\ q \in [1 .. Len(q) -> S] /\ DOMAIN q = 1 .. Len(q)
  BY LenProperties
<1>2. \A i \in 1 .. Len(q) : q[i] \in R
  BY <1>1
<1>3. q \in [1 .. Len(q) -> R]
  BY <1>1, <1>2
<1> QED
  BY <1>1, <1>3, SeqDef

(* Pushing a frame leaves the frames below it as they are. *)
LEMMA PushFacts ==
  ASSUME NEW fs, IsStack(fs), NEW f
  PROVE  /\ IsStack(Append(fs, f))
         /\ Len(fs) \in Nat
         /\ Len(Append(fs, f)) = Len(fs) + 1
         /\ \A i \in 1 .. Len(fs) : Append(fs, f)[i] = fs[i]
         /\ Append(fs, f)[Len(fs) + 1] = f
<1> DEFINE S == {fs[i] : i \in DOMAIN fs} \cup {f}
<1>1. fs \in Seq(S)
  BY SeqMonotonic DEF IsStack
<1>2. Append(fs, f) \in Seq(S)
  BY <1>1, AppendProperties
<1>3. IsStack(Append(fs, f))
  BY ZenonT(60), <1>2, OwnElements DEF IsStack
<1> QED
  BY <1>1, <1>3, AppendProperties, LenProperties

(* Popping a frame leaves the frames below it as they are. *)
LEMMA PopFacts ==
  ASSUME NEW fs, IsStack(fs), fs # <<>>
  PROVE  LET ps == SubSeq(fs, 1, Len(fs) - 1)
         IN /\ IsStack(ps)
            /\ Len(fs) \in Nat /\ Len(fs) >= 1
            /\ Len(ps) = Len(fs) - 1
            /\ \A i \in 1 .. Len(fs) - 1 : ps[i] = fs[i]
<1> DEFINE S == {fs[i] : i \in DOMAIN fs}
           ps == SubSeq(fs, 1, Len(fs) - 1)
<1>1. fs \in Seq(S) /\ Len(fs) \in Nat \ {0} /\ DOMAIN fs = 1 .. Len(fs)
  BY EmptySeq, LenProperties DEF IsStack
<1>2. \A i \in 1 .. Len(fs) - 1 : fs[i] \in S
  BY <1>1
<1>3. /\ ps \in Seq(S)
      /\ Len(ps) = Len(fs) - 1
      /\ \A i \in 1 .. Len(fs) - 1 : ps[i] = fs[i]
  BY <1>1, <1>2, SubSeqProperties
<1>4. IsStack(ps)
  BY <1>3, OwnElements DEF IsStack
<1> QED
  BY <1>1, <1>3, <1>4

(* Equal prefixes of the stack have the same callbacks in progress. *)
LEMMA CalledPrefix ==
  ASSUME NEW fs, NEW gs, NEW n \in Nat, \A i \in 1 .. n : gs[i] = fs[i]
  PROVE  Called(gs, n) = Called(fs, n)
BY DEF Called

(* One more frame adds its request, if it is a callback. *)
LEMMA CalledNext ==
  ASSUME NEW fs, NEW n \in Nat
  PROVE  Called(fs, n + 1) =
           Called(fs, n) \cup
             (IF fs[n + 1].kind = "callback" THEN {fs[n + 1].request} ELSE {})
<1> 1 .. n + 1 = 1 .. n \cup {n + 1}
  OBVIOUS
<1> QED
  BY DEF Called

(* No frame, no callback in progress. *)
LEMMA CalledNone ==
  ASSUME NEW fs PROVE Called(fs, 0) = {}
BY DEF Called

(* A good frame on a good stack makes a good stack. *)
LEMMA PushStackOK ==
  ASSUME NEW fs, StackOK(fs), Len(fs) < MaxDepth,
         NEW f,
         StorageOK(f.saved, Called(Append(fs, f), Len(fs) + 1)),
         f.kind = "callback" => f.request \notin Called(fs, Len(fs))
  PROVE  StackOK(Append(fs, f))
<1> DEFINE gs == Append(fs, f)
           n == Len(fs)
<1>1. /\ IsStack(gs) /\ n \in Nat /\ Len(gs) = n + 1
      /\ \A i \in 1 .. n : gs[i] = fs[i]
      /\ gs[n + 1] = f
  BY PushFacts DEF StackOK
<1> HIDE DEF gs
<1>2. Len(gs) <= MaxDepth
  BY <1>1, RouterConstants DEF StackOK
<1>3. ASSUME NEW k \in 1 .. Len(gs)
      PROVE  StorageOK(gs[k].saved, Called(gs, k))
  <2>1. CASE k = n + 1
    BY <1>1, <2>1 DEF gs
  <2>2. CASE k \in 1 .. n
    <3>1. Called(gs, k) = Called(fs, k)
      <4> SUFFICES \A i \in 1 .. k : gs[i] = fs[i]
        BY <2>2, <1>1, CalledPrefix
      <4> QED
        BY <1>1, <2>2
    <3> QED
      BY <1>1, <2>2, <3>1 DEF StackOK
  <2> QED
    BY <1>1, <2>1, <2>2
<1>4. ASSUME NEW i \in 1 .. Len(gs), NEW j \in 1 .. Len(gs),
             gs[i].kind = "callback", gs[j].kind = "callback",
             gs[i].request = gs[j].request
      PROVE  i = j
  <2>1. \A m \in 1 .. n : fs[m].kind = "callback" => fs[m].request \in Called(fs, n)
    BY DEF Called
  <2>2. CASE i \in 1 .. n /\ j \in 1 .. n
    BY <1>1, <1>4, <2>2 DEF StackOK
  <2>3. CASE i = n + 1 /\ j \in 1 .. n
    BY <1>1, <1>4, <2>1, <2>3
  <2>4. CASE i \in 1 .. n /\ j = n + 1
    BY <1>1, <1>4, <2>1, <2>4
  <2> QED
    BY <1>1, <2>2, <2>3, <2>4
<1> QED
  BY <1>1, <1>2, <1>3, <1>4 DEF StackOK, gs

(* What is below the top frame of a good stack is a good stack, and a        *)
(* callback on top is not in progress below.                                 *)
LEMMA PopStackOK ==
  ASSUME NEW fs, StackOK(fs), fs # <<>>
  PROVE  LET n == Len(fs)
             ps == SubSeq(fs, 1, n - 1)
         IN /\ StackOK(ps)
            /\ n \in Nat /\ n >= 1 /\ Len(ps) = n - 1
            /\ Called(ps, n - 1) = Called(fs, n - 1)
            /\ StorageOK(fs[n].saved, Called(fs, n))
            /\ fs[n].kind = "callback" =>
                 /\ fs[n].request \in Called(fs, n)
                 /\ Called(fs, n - 1) = Called(fs, n) \ {fs[n].request}
            /\ fs[n].kind # "callback" => Called(fs, n - 1) = Called(fs, n)
<1> DEFINE n == Len(fs)
           ps == SubSeq(fs, 1, n - 1)
<1>1. /\ IsStack(ps) /\ n \in Nat /\ n >= 1 /\ Len(ps) = n - 1
      /\ \A i \in 1 .. n - 1 : ps[i] = fs[i]
  BY PopFacts DEF StackOK
<1> HIDE DEF ps
<1>2. \A k \in 0 .. n - 1 : Called(ps, k) = Called(fs, k)
  <2> SUFFICES ASSUME NEW k \in 0 .. n - 1
               PROVE  Called(ps, k) = Called(fs, k)
    OBVIOUS
  <2>1. k \in Nat /\ \A i \in 1 .. k : ps[i] = fs[i]
    BY <1>1
  <2> QED
    BY <2>1, CalledPrefix
<1>3. StackOK(ps)
  <2>1. Len(ps) <= MaxDepth
    BY <1>1, RouterConstants DEF StackOK
  <2>2. \A k \in 1 .. Len(ps) : StorageOK(ps[k].saved, Called(ps, k))
    BY <1>1, <1>2 DEF StackOK
  <2>3. \A i, j \in 1 .. Len(ps) :
          ps[i].kind = "callback" /\ ps[j].kind = "callback"
            /\ ps[i].request = ps[j].request => i = j
    BY <1>1 DEF StackOK
  <2> QED
    BY <1>1, <2>1, <2>2, <2>3 DEF StackOK
<1>4. Called(fs, n) = Called(fs, n - 1) \cup
        (IF fs[n].kind = "callback" THEN {fs[n].request} ELSE {})
  <2>1. n - 1 \in Nat /\ (n - 1) + 1 = n
    BY <1>1
  <2> QED
    BY <2>1, CalledNext
<1>5. fs[n].kind = "callback" => fs[n].request \notin Called(fs, n - 1)
  <2> SUFFICES ASSUME fs[n].kind = "callback",
                      NEW m \in 1 .. n - 1, fs[m].kind = "callback",
                      fs[m].request = fs[n].request
               PROVE  FALSE
    BY <1>1 DEF Called
  <2> QED
    BY <1>1 DEF StackOK
<1>6. StorageOK(fs[n].saved, Called(fs, n))
  BY <1>1 DEF StackOK
<1> QED
  BY <1>1, <1>2, <1>3, <1>4, <1>5, <1>6 DEF ps

-----------------------------------------------------------------------------
(* A storage is good for what its fields are. *)
SameStorage(s, t) ==
  /\ t.requests = s.requests
  /\ t.deliveries = s.deliveries
  /\ t.latestNonce = s.latestNonce
  /\ t.accruedFees = s.accruedFees
  /\ t.balance = s.balance

(* Storages with the same fields are good together. *)
LEMMA SameStorageOK ==
  ASSUME NEW s, NEW t, NEW called, StorageOK(s, called), SameStorage(s, t)
  PROVE  StorageOK(t, called)
BY DEF StorageOK, SameStorage, IsStorage, DeliveredOnceIn, FeesAreHeldIn,
       NonceIdentifiesIn

(* What requestDecision does to a storage. *)
Accepted(s, t, id, income) ==
  /\ id \notin DOMAIN s.requests
  /\ id.nonce > s.latestNonce[id.requester]
  /\ t.requests \in [DOMAIN s.requests \cup {id} -> Request]
  /\ t.requests[id] = FreshRequest
  /\ \A q \in DOMAIN s.requests : t.requests[q] = s.requests[q]
  /\ t.deliveries \in [DOMAIN s.requests \cup {id} -> Nat]
  /\ t.deliveries[id] = 0
  /\ \A q \in DOMAIN s.requests : t.deliveries[q] = s.deliveries[q]
  /\ t.latestNonce = [s.latestNonce EXCEPT ![id.requester] = id.nonce]
  /\ t.accruedFees = s.accruedFees + income
  /\ t.balance = s.balance + income

(* requestDecision keeps a storage good. *)
LEMMA AskKeepsStorage ==
  ASSUME NEW s, NEW t, NEW called, StorageOK(s, called),
         NEW id \in RequestIds, NEW income \in Nat, Accepted(s, t, id, income)
  PROVE  StorageOK(t, called)
<1> USE DEF StorageOK, Accepted
<1>1. /\ id.requester \in Applications
      /\ id.nonce \in 1 .. MaxNonce
      /\ FreshRequest \in Request
      /\ ~FreshRequest.callbackLocked
      /\ FreshRequest.status = "Dispatched"
  BY DEF RequestIds, Nonces, FreshRequest, Request
<1>2. IsStorage(t)
  BY <1>1, RouterConstants DEF IsStorage
<1>3. DeliveredOnceIn(t)
  BY <1>1 DEF DeliveredOnceIn, IsStorage
<1>4. FeesAreHeldIn(t)
  BY DEF FeesAreHeldIn, IsStorage
<1>5. NonceIdentifiesIn(t)
  <2> SUFFICES ASSUME NEW p \in DOMAIN s.requests \cup {id},
                      NEW q \in DOMAIN s.requests \cup {id}
               PROVE  /\ p.nonce <= t.latestNonce[p.requester]
                      /\ p.requester = q.requester /\ p.nonce = q.nonce => p = q
    BY DEF NonceIdentifiesIn
  <2>1. /\ p.requester \in Applications /\ p.nonce \in Nat
        /\ q.requester \in Applications /\ q.nonce \in Nat
        /\ id.nonce \in Nat
        /\ s.latestNonce \in [Applications -> Nat]
    BY <1>1, RouterConstants DEF IsStorage, RequestIds, Nonces
  <2>2. \A r \in DOMAIN s.requests :
          /\ r.nonce <= s.latestNonce[r.requester]
          /\ r.requester = id.requester => r.nonce < id.nonce
    <3> SUFFICES ASSUME NEW r \in DOMAIN s.requests
                 PROVE  /\ r.nonce <= s.latestNonce[r.requester]
                        /\ r.requester = id.requester => r.nonce < id.nonce
      OBVIOUS
    <3>1. r.nonce <= s.latestNonce[r.requester]
      BY DEF NonceIdentifiesIn
    <3>2. r.nonce \in Nat /\ r.requester \in Applications
      BY RouterConstants DEF IsStorage, RequestIds, Nonces
    <3> QED
      BY <3>1, <3>2, <2>1
  <2>3. p.nonce <= t.latestNonce[p.requester]
    BY <1>1, <2>1, <2>2
  <2>4. p.requester = q.requester /\ p.nonce = q.nonce => p = q
    BY <2>1, <2>2 DEF NonceIdentifiesIn
  <2> QED
    BY <2>3, <2>4
<1>6. called = {q \in DOMAIN t.requests : t.requests[q].callbackLocked}
  BY <1>1
<1>7. \A q \in called : t.requests[q].status = "CallbackPending"
  BY <1>1
<1> QED
  BY <1>2, <1>3, <1>4, <1>5, <1>6, <1>7

(* A request that is not locked may be locked for its callback. *)
LEMMA EnterKeepsStorage ==
  ASSUME NEW s, NEW t, NEW called, StorageOK(s, called),
         NEW id \in DOMAIN s.requests, ~s.requests[id].callbackLocked,
         s.requests[id].status # "CallbackExecuted",
         NEW r \in Request,
         t.requests = [s.requests EXCEPT
            ![id] = [r EXCEPT !.callbackLocked = TRUE, !.status = "CallbackPending"]],
         t.deliveries = s.deliveries,
         t.latestNonce = s.latestNonce,
         t.accruedFees = s.accruedFees,
         t.balance = s.balance
  PROVE  StorageOK(t, called \cup {id})
<1> USE DEF StorageOK
<1> DEFINE e == [r EXCEPT !.callbackLocked = TRUE, !.status = "CallbackPending"]
<1>1. e \in Request /\ e.callbackLocked /\ e.status = "CallbackPending"
  BY DEF Request
<1> HIDE DEF e
<1>2. /\ s.requests \in [DOMAIN s.requests -> Request]
      /\ t.requests = [s.requests EXCEPT ![id] = e]
      /\ DOMAIN t.requests = DOMAIN s.requests
  BY DEF IsStorage, e
<1>3. IsStorage(t)
  BY <1>1, <1>2 DEF IsStorage
<1>4. DeliveredOnceIn(t)
  BY <1>1, <1>2 DEF DeliveredOnceIn
<1>5. FeesAreHeldIn(t) /\ NonceIdentifiesIn(t)
  BY <1>2 DEF FeesAreHeldIn, NonceIdentifiesIn
<1>6. called \cup {id} = {q \in DOMAIN t.requests : t.requests[q].callbackLocked}
  BY <1>1, <1>2
<1>7. \A q \in called \cup {id} : t.requests[q].status = "CallbackPending"
  BY <1>1, <1>2
<1> QED
  BY <1>3, <1>4, <1>5, <1>6, <1>7

(* The end of a callback unlocks its request: executed, and counted as       *)
(* delivered, if it returned, and otherwise as it was.                       *)
LEMMA LeaveKeepsStorage ==
  ASSUME NEW s, NEW t, NEW called, StorageOK(s, called),
         NEW id \in called,
         \/ /\ t.requests = [s.requests EXCEPT
                                ![id].status = "CallbackExecuted",
                                ![id].callbackLocked = FALSE]
            /\ t.deliveries = [s.deliveries EXCEPT ![id] = @ + 1]
         \/ /\ t.requests = [s.requests EXCEPT ![id].callbackLocked = FALSE]
            /\ t.deliveries = s.deliveries,
         t.latestNonce = s.latestNonce,
         t.accruedFees = s.accruedFees,
         t.balance = s.balance
  PROVE  StorageOK(t, called \ {id})
<1> USE DEF StorageOK
<1>1. /\ id \in DOMAIN s.requests
      /\ s.requests[id].callbackLocked
      /\ s.requests[id].status = "CallbackPending"
      /\ s.deliveries[id] = 0
  BY DEF DeliveredOnceIn
<1>2. /\ s.requests \in [DOMAIN s.requests -> Request]
      /\ s.deliveries \in [DOMAIN s.requests -> Nat]
  BY DEF IsStorage
<1>3. PICK e \in Request :
        /\ t.requests = [s.requests EXCEPT ![id] = e]
        /\ ~e.callbackLocked
        /\ t.deliveries =
             [s.deliveries EXCEPT ![id] =
                IF e.status = "CallbackExecuted" THEN 1 ELSE 0]
  <2>1. CASE /\ t.requests = [s.requests EXCEPT
                                ![id].status = "CallbackExecuted",
                                ![id].callbackLocked = FALSE]
             /\ t.deliveries = [s.deliveries EXCEPT ![id] = @ + 1]
    <3> DEFINE e == [s.requests[id] EXCEPT !.status = "CallbackExecuted",
                                           !.callbackLocked = FALSE]
    <3>1. /\ e \in Request
          /\ ~e.callbackLocked
          /\ e.status = "CallbackExecuted"
      BY <1>1, <1>2 DEF Request
    <3>2. t.requests = [s.requests EXCEPT ![id] = e]
      BY <1>1, <1>2, <2>1
    <3>3. t.deliveries = [s.deliveries EXCEPT ![id] = 1]
      BY <1>1, <1>2, <2>1
    <3> HIDE DEF e
    <3> QED
      BY <3>1, <3>2, <3>3
  <2>2. CASE /\ t.requests = [s.requests EXCEPT ![id].callbackLocked = FALSE]
             /\ t.deliveries = s.deliveries
    <3> DEFINE e == [s.requests[id] EXCEPT !.callbackLocked = FALSE]
    <3>1. /\ e \in Request
          /\ ~e.callbackLocked
          /\ e.status = "CallbackPending"
      BY <1>1, <1>2 DEF Request
    <3>2. t.requests = [s.requests EXCEPT ![id] = e]
      BY <1>1, <1>2, <2>2
    <3>3. t.deliveries = [s.deliveries EXCEPT ![id] = 0]
      BY <1>1, <1>2, <2>2
    <3> HIDE DEF e
    <3> QED
      BY <3>1, <3>2, <3>3
  <2> QED
    BY <2>1, <2>2
<1>4. DOMAIN t.requests = DOMAIN s.requests
  BY <1>3
<1>5. IsStorage(t)
  BY <1>2, <1>3, <1>4 DEF IsStorage
<1>6. DeliveredOnceIn(t)
  BY <1>1, <1>2, <1>3 DEF DeliveredOnceIn
<1>7. FeesAreHeldIn(t) /\ NonceIdentifiesIn(t)
  BY <1>4 DEF FeesAreHeldIn, NonceIdentifiesIn
<1>8. called \ {id} = {q \in DOMAIN t.requests : t.requests[q].callbackLocked}
  BY <1>1, <1>2, <1>3
<1>9. \A q \in called \ {id} : t.requests[q].status = "CallbackPending"
  BY <1>1, <1>2, <1>3
<1> QED
  BY <1>5, <1>6, <1>7, <1>8, <1>9

-----------------------------------------------------------------------------
(* The storage a transaction ends with is good without calls in progress.    *)
LEMMA CommitKeepsStorage ==
  ASSUME IInv, Commit, StorageOK(Storage', Called(frames', Len(frames')))
  PROVE  StorageOK(committed', {})
<1>1. CASE frames' = <<>>
  <2>1. Len(frames') = 0
    BY <1>1
  <2> QED
    BY <1>1, <2>1, CalledNone DEF Commit
<1>2. CASE frames' # <<>>
  BY <1>2 DEF Commit, IInv
<1> QED
  BY <1>1, <1>2

(* The fields of the storage of the router. *)
LEMMA StorageFields ==
  /\ Storage.requests = requests /\ Storage'.requests = requests'
  /\ Storage.deliveries = deliveries /\ Storage'.deliveries = deliveries'
  /\ Storage.latestNonce = latestNonce /\ Storage'.latestNonce = latestNonce'
  /\ Storage.accruedFees = accruedFees /\ Storage'.accruedFees = accruedFees'
  /\ Storage.balance = balance /\ Storage'.balance = balance'
BY DEF Storage

(* A router nobody has asked yet, however it is configured, is good. *)
NothingAsked ==
  /\ requests = [id \in {} |-> <<>>]
  /\ deliveries = [id \in {} |-> 0]
  /\ latestNonce = [a \in Applications |-> 0]
  /\ accruedFees = 0
  /\ balance = 0
  /\ frames = <<>>
  /\ committed = Storage

LEMMA EmptyIInv == AdminOK /\ NothingAsked => IInv
<1> SUFFICES ASSUME AdminOK, NothingAsked PROVE IInv
  OBVIOUS
<1>1. frames = <<>> /\ Len(frames) = 0
  BY DEF NothingAsked
<1>2. StackOK(frames)
  <2>1. IsStack(frames)
    BY <1>1, EmptySeq DEF IsStack
  <2> QED
    BY <1>1, <2>1, RouterConstants DEF StackOK
<1>3. StorageOK(Storage, {})
  BY RouterConstants, StorageFields
  DEF NothingAsked, StorageOK, IsStorage, DeliveredOnceIn,
      FeesAreHeldIn, NonceIdentifiesIn
<1> QED
  BY <1>1, <1>2, <1>3, CalledNone DEF IInv, NothingAsked

(* The constructor leaves a good router. *)
LEMMA InitIInv == RouterInit => IInv
<1> SUFFICES ASSUME RouterInit PROVE IInv
  OBVIOUS
<1>1. AdminOK
  <2>1. paused \in BOOLEAN
    BY Zenon DEF RouterInit
  <2>2. now \in Times
    BY RouterConstants DEF RouterInit, Times
  <2> QED
    BY <2>1, <2>2 DEF RouterInit, AdminOK
<1> QED
  BY <1>1, EmptyIInv DEF RouterInit, NothingAsked

(* requestDecision *)
LEMMA AskStep ==
  ASSUME IInv, NEW id \in RequestIds, NEW value \in Nat, NEW deliveryFee \in Nat,
         RequestDecision(id, value, deliveryFee)
  PROVE  IInv'
<1>1. AdminOK' /\ StackOK(frames')
  BY DEF IInv, RequestDecision, AdminOK, admin
<1>2. StorageOK(Storage', Called(frames', Len(frames')))
  <2> DEFINE income == FeeIncome(value, deliveryFee)
  <2>1. income \in Nat
    BY DEF RequestDecision, FeeIncome
  <2>2. /\ accruedFees' = accruedFees + income
        /\ balance' = balance + income
    BY DEF RequestDecision, FeeIncome, IInv, StorageOK, IsStorage, Storage
  <2> HIDE DEF income
  <2>3. /\ requests \in [DOMAIN requests -> Request]
        /\ deliveries \in [DOMAIN requests -> Nat]
        /\ FreshRequest \in Request
    BY StorageFields DEF IInv, StorageOK, IsStorage, FreshRequest, Request
  <2>4. /\ requests' \in [DOMAIN requests \cup {id} -> Request]
        /\ requests'[id] = FreshRequest
        /\ \A q \in DOMAIN requests : requests'[q] = requests[q]
    BY <2>3 DEF RequestDecision
  <2>5. /\ deliveries' \in [DOMAIN requests \cup {id} -> Nat]
        /\ deliveries'[id] = 0
        /\ \A q \in DOMAIN requests : deliveries'[q] = deliveries[q]
    BY <2>3 DEF RequestDecision
  <2>6. /\ id \notin DOMAIN requests
        /\ id.nonce > latestNonce[id.requester]
        /\ latestNonce' = [latestNonce EXCEPT ![id.requester] = id.nonce]
    BY DEF RequestDecision, ValidRequest, NonceIsNew
  <2>7. StorageOK(Storage, Called(frames, Len(frames)))
    BY DEF IInv
  <2>8. StorageOK(Storage', Called(frames, Len(frames)))
    <3>1. /\ id \notin DOMAIN Storage.requests
          /\ id.nonce > Storage.latestNonce[id.requester]
          /\ Storage'.latestNonce =
               [Storage.latestNonce EXCEPT ![id.requester] = id.nonce]
          /\ Storage'.accruedFees = Storage.accruedFees + income
          /\ Storage'.balance = Storage.balance + income
      BY <2>2, <2>6, StorageFields
    <3>2. /\ Storage'.requests \in [DOMAIN Storage.requests \cup {id} -> Request]
          /\ Storage'.requests[id] = FreshRequest
          /\ \A q \in DOMAIN Storage.requests :
                Storage'.requests[q] = Storage.requests[q]
      BY <2>4, StorageFields, Zenon
    <3>3. /\ Storage'.deliveries \in [DOMAIN Storage.requests \cup {id} -> Nat]
          /\ Storage'.deliveries[id] = 0
          /\ \A q \in DOMAIN Storage.requests :
                Storage'.deliveries[q] = Storage.deliveries[q]
      BY <2>5, StorageFields, Zenon
    <3>4. Accepted(Storage, Storage', id, income)
      BY <3>1, <3>2, <3>3 DEF Accepted
    <3> QED
      BY <2>1, <2>7, <3>4, AskKeepsStorage
  <2> QED
    BY <2>8 DEF RequestDecision
<1>3. StorageOK(committed', {})
  BY <1>2, CommitKeepsStorage DEF RequestDecision
<1> QED
  BY <1>1, <1>2, <1>3 DEF IInv

(* _attemptCallback, up to the call *)
LEMMA EnterStep ==
  ASSUME IInv, NEW id \in DOMAIN requests, NEW r \in Request,
         ~requests[id].callbackLocked,
         requests[id].status # "CallbackExecuted",
         EnterCallback(id, r)
  PROVE  IInv'
<1> DEFINE f == [kind |-> "callback", request |-> id, saved |-> Storage']
           n == Len(frames)
<1>1. /\ IsStack(frames) /\ n \in Nat /\ n < MaxDepth
      /\ frames' = Append(frames, f)
      /\ Len(frames') = n + 1
      /\ frames'[n + 1].kind = "callback" /\ frames'[n + 1].request = id
      /\ \A i \in 1 .. n : frames'[i] = frames[i]
  BY PushFacts DEF IInv, StackOK, EnterCallback
<1>2. id \notin Called(frames, n)
  BY DEF IInv, StorageOK, Storage
<1>3. Called(frames', n + 1) = Called(frames, n) \cup {id}
  <2>1. Called(frames', n) = Called(frames, n)
    BY <1>1, CalledPrefix
  <2> QED
    BY <1>1, <2>1, CalledNext
<1>4. StorageOK(Storage', Called(frames, n) \cup {id})
  BY ZenonT(60), EnterKeepsStorage, StorageFields DEF IInv, EnterCallback
<1>5. StackOK(frames')
  BY <1>1, <1>2, <1>3, <1>4, PushStackOK DEF IInv
<1>6. StorageOK(Storage', Called(frames', Len(frames')))
  BY <1>1, <1>3, <1>4
<1>7. AdminOK' /\ committed' = committed
  BY DEF IInv, EnterCallback, AdminOK, admin
<1> QED
  BY <1>5, <1>6, <1>7 DEF IInv

(* handleResult *)
LEMMA ResultStep ==
  ASSUME IInv, NEW id, NEW sender, NEW d, NEW p, NEW e,
         NEW h \in ResultHashes \cup {NoHash},
         HandleResult(sender, id, d, p, e, h)
  PROVE  IInv'
<1>1. id \in DOMAIN requests /\ requests[id].status = "Dispatched"
  BY DEF HandleResult
<1>2. requests[id] \in Request
  BY <1>1 DEF IInv, StorageOK, IsStorage, Storage
<1> DEFINE r == [requests[id] EXCEPT !.decision = d, !.resultTxHash = h,
                                     !.status = "Finalized"]
<1>3. EnterCallback(id, r) /\ d \in Verdicts
  BY DEF HandleResult
<1>4. ~requests[id].callbackLocked
  BY <1>2, <1>3 DEF EnterCallback, CallbackIsFree, Request
<1>5. EnterCallback(id, [r EXCEPT !.status = "Dispatched"])
  BY <1>2, <1>3 DEF EnterCallback, CallbackIsFree, Request
<1>6. [r EXCEPT !.status = "Dispatched"] \in Request
  BY <1>2, <1>3 DEF Request
<1> QED
  BY <1>1, <1>4, <1>5, <1>6, EnterStep

(* retryCallback *)
LEMMA RetryStep ==
  ASSUME IInv, NEW id, RetryCallback(id)
  PROVE  IInv'
<1>1. /\ id \in DOMAIN requests
      /\ requests[id].status = "CallbackPending"
      /\ EnterCallback(id, requests[id])
  BY DEF RetryCallback
<1>2. requests[id] \in Request
  BY <1>1 DEF IInv, StorageOK, IsStorage, Storage
<1>3. ~requests[id].callbackLocked
  BY <1>1 DEF EnterCallback, CallbackIsFree
<1> QED
  BY <1>1, <1>2, <1>3, EnterStep

(* _attemptCallback, after the call *)
LEMMA LeaveStep ==
  ASSUME IInv, InCallback, frames' = Pop, Commit,
         UNCHANGED <<admin, now>>,
         NEW s, StorageOK(s, Called(frames, Len(frames))),
         \/ /\ requests' = [s.requests EXCEPT
                              ![Top.request].status = "CallbackExecuted",
                              ![Top.request].callbackLocked = FALSE]
            /\ deliveries' = [s.deliveries EXCEPT ![Top.request] = @ + 1]
         \/ /\ requests' = [s.requests EXCEPT ![Top.request].callbackLocked = FALSE]
            /\ deliveries' = s.deliveries,
         latestNonce' = s.latestNonce,
         accruedFees' = s.accruedFees,
         balance' = s.balance
  PROVE  IInv'
<1> DEFINE n == Len(frames)
<1>1. frames # <<>> /\ StackOK(frames)
  BY DEF IInv, InCallback, AtRest
<1>2. /\ StackOK(frames')
      /\ Len(frames') = n - 1
      /\ Called(frames', n - 1) = Called(frames, n - 1)
      /\ Called(frames, n) = Called(frames, n - 1) \cup {Top.request}
      /\ Top.request \notin Called(frames, n - 1)
  BY <1>1, PopStackOK DEF Pop, Top, InCallback
<1>3. Called(frames, n) \ {Top.request} = Called(frames', Len(frames'))
  BY <1>2
<1>4. Top.request \in Called(frames, n)
  BY <1>2
<1>5. StorageOK(Storage', Called(frames, n) \ {Top.request})
  BY ZenonT(60), <1>4, LeaveKeepsStorage, StorageFields
<1>6. StorageOK(Storage', Called(frames', Len(frames')))
  BY <1>3, <1>5
<1>7. StorageOK(committed', {})
  BY <1>6, CommitKeepsStorage
<1>8. AdminOK'
  BY DEF IInv, AdminOK, admin
<1> QED
  BY <1>2, <1>6, <1>7, <1>8 DEF IInv

(* _attemptCallback, when the callback returns *)
LEMMA ReturnStep ==
  ASSUME IInv, CallbackReturns PROVE IInv'
<1>1. StorageOK(Storage, Called(frames, Len(frames)))
  BY DEF IInv
<1> QED
  BY <1>1, LeaveStep, StorageFields DEF CallbackReturns

(* _attemptCallback, when the callback reverts *)
LEMMA RevertStep ==
  ASSUME IInv, CallbackReverts PROVE IInv'
<1>1. frames # <<>> /\ StackOK(frames)
  BY DEF IInv, CallbackReverts, InCallback, AtRest
<1>2. StorageOK(Top.saved, Called(frames, Len(frames)))
  BY <1>1, PopStackOK DEF Top
<1>3. /\ requests' = [Top.saved.requests EXCEPT ![Top.request].callbackLocked = FALSE]
      /\ deliveries' = Top.saved.deliveries
      /\ latestNonce' = Top.saved.latestNonce
      /\ accruedFees' = Top.saved.accruedFees
      /\ balance' = Top.saved.balance
  BY DEF CallbackReverts, RestoreAs, Unlocked
<1>4. InCallback /\ frames' = Pop /\ Commit /\ UNCHANGED <<admin, now>>
  BY DEF CallbackReverts
<1> QED
  BY <1>2, <1>3, <1>4, LeaveStep

-----------------------------------------------------------------------------
(* withdrawFees, up to the call of the recipient and after it *)
LEMMA WithdrawStep ==
  ASSUME IInv, NEW sender, WithdrawFees(sender) PROVE IInv'
<1> DEFINE f == [kind |-> "withdraw", saved |-> Storage]
<1>1. /\ frames = <<>> /\ Len(frames) = 0
      /\ frames' = Append(frames, f)
      /\ f.kind # "callback" /\ f.saved = Storage
  BY DEF WithdrawFees, AtRest
<1>2. /\ IsStack(frames) /\ Len(frames') = 1
      /\ frames'[1] = f
  BY <1>1, PushFacts DEF IInv, StackOK
<1>3. Called(frames', 1) = {} /\ Called(frames, 0) = {}
  BY <1>1, <1>2 DEF Called
<1>4. StorageOK(Storage, {})
  BY <1>1, <1>3 DEF IInv
<1>5. StackOK(frames')
  <2>1. StackOK(frames) /\ Len(frames) < MaxDepth
    BY <1>1 DEF WithdrawFees, IInv
  <2>2. StorageOK(f.saved, Called(Append(frames, f), Len(frames) + 1))
    <3>1. Called(frames', Len(frames) + 1) = {}
      BY <1>1, <1>3
    <3> QED
      BY <1>1, <1>4, <3>1, Zenon
  <2>3. f.kind = "callback" => f.request \notin Called(frames, Len(frames))
    BY <1>1
  <2>4. StackOK(Append(frames, f))
    <3> HIDE DEF f
    <3> QED
      BY <2>1, <2>2, <2>3, PushStackOK
  <2> QED
    BY <1>1, <2>4
<1>6. StorageOK(Storage', {})
  <2>1. accruedFees \in Nat /\ balance = accruedFees
    BY <1>4, StorageFields DEF StorageOK, IsStorage, FeesAreHeldIn
  <2>2. /\ requests' = requests /\ deliveries' = deliveries
        /\ latestNonce' = latestNonce
        /\ accruedFees' = 0 /\ balance' = 0
    BY <2>1 DEF WithdrawFees
  <2>3. /\ Storage'.requests = Storage.requests
        /\ Storage'.deliveries = Storage.deliveries
        /\ Storage'.latestNonce = Storage.latestNonce
        /\ Storage'.accruedFees = 0
        /\ Storage'.balance = 0
    BY <2>2, StorageFields
  <2> QED
    BY <1>4, <2>3 DEF StorageOK, IsStorage, FeesAreHeldIn, DeliveredOnceIn,
                      NonceIdentifiesIn
<1>7. AdminOK' /\ committed' = committed
  BY DEF IInv, AdminOK, WithdrawFees, admin
<1> QED
  BY <1>2, <1>3, <1>5, <1>6, <1>7 DEF IInv

(* A payment ends, from the storage s it goes back to or keeps. *)
LEMMA PayoutEnds ==
  ASSUME IInv, ~AtRest, Top.kind # "callback", frames' = Pop, Commit,
         UNCHANGED <<admin, now>>,
         NEW s, StorageOK(s, Called(frames, Len(frames))),
         SameStorage(s, Storage')
  PROVE  IInv'
<1> DEFINE n == Len(frames)
<1>1. frames # <<>> /\ StackOK(frames)
  BY DEF IInv, AtRest
<1>2. /\ StackOK(frames')
      /\ Len(frames') = n - 1
      /\ Called(frames', n - 1) = Called(frames, n - 1)
      /\ Called(frames, n) = Called(frames, n - 1)
  BY <1>1, PopStackOK DEF Pop, Top
<1>3. StorageOK(Storage', Called(frames', Len(frames')))
  BY <1>2, SameStorageOK
<1>4. StorageOK(committed', {})
  BY <1>3, CommitKeepsStorage
<1>5. AdminOK'
  BY DEF IInv, AdminOK, admin
<1> QED
  BY <1>2, <1>3, <1>4, <1>5 DEF IInv

(* withdrawFees, when the recipient returns *)
LEMMA WithdrawReturnsStep ==
  ASSUME IInv, WithdrawReturns PROVE IInv'
<1>1. StorageOK(Storage, Called(frames, Len(frames)))
  BY DEF IInv
<1>2. SameStorage(Storage, Storage')
  BY StorageFields DEF SameStorage, WithdrawReturns
<1> QED
  BY <1>1, <1>2, PayoutEnds DEF WithdrawReturns, InWithdraw

(* withdrawFees, when the recipient reverts *)
LEMMA WithdrawRevertsStep ==
  ASSUME IInv, WithdrawReverts PROVE IInv'
<1>1. frames # <<>> /\ StackOK(frames)
  BY DEF IInv, WithdrawReverts, InWithdraw, AtRest
<1>2. StorageOK(Top.saved, Called(frames, Len(frames)))
  BY <1>1, PopStackOK DEF Top
<1>3. SameStorage(Top.saved, Storage')
  BY StorageFields DEF SameStorage, WithdrawReverts, Restore, RestoreAs
<1> QED
  BY <1>2, <1>3, PayoutEnds DEF WithdrawReverts, InWithdraw

(* a transaction that fails as a whole *)
LEMMA AbortStep ==
  ASSUME IInv, Abort PROVE IInv'
<1>1. StorageOK(committed, {})
  BY DEF IInv
<1>2. SameStorage(committed, Storage')
  BY StorageFields DEF SameStorage, Abort, Restore, RestoreAs
<1>3. frames' = <<>> /\ Len(frames') = 0 /\ committed' = committed
  BY DEF Abort
<1>4. StorageOK(Storage', Called(frames', Len(frames')))
  BY <1>1, <1>2, <1>3, SameStorageOK, CalledNone
<1>5. StackOK(frames')
  <2>1. IsStack(frames')
    BY <1>3, EmptySeq DEF IsStack
  <2> QED
    BY <1>3, <2>1, RouterConstants DEF StackOK
<1>6. AdminOK'
  BY DEF IInv, AdminOK, Abort, admin
<1> QED
  BY <1>1, <1>3, <1>4, <1>5, <1>6 DEF IInv

(* the setters, the clock and the steps of others *)
LEMMA AdminStep ==
  ASSUME IInv, AdminOK', UNCHANGED <<requests, deliveries, latestNonce,
         accruedFees, balance, frames, committed>>
  PROVE  IInv'
<1>1. SameStorage(Storage, Storage')
  BY StorageFields DEF SameStorage
<1>2. StorageOK(Storage', Called(frames, Len(frames)))
  BY <1>1, SameStorageOK DEF IInv
<1> QED
  BY <1>2 DEF IInv

(* setTransport, setResultReceiver, transferOwnership, setPaused *)
LEMMA SettersStep ==
  ASSUME IInv, NEW sender,
         \/ \E t \in Transports : SetTransport(sender, t)
         \/ \E r \in Receivers : SetResultReceiver(sender, r)
         \/ \E o \in Owners : TransferOwnership(sender, o)
         \/ \E p \in BOOLEAN : SetPaused(sender, p)
  PROVE  IInv'
<1>1. AdminOK
  BY DEF IInv
<1>2. CASE \E t \in Transports : SetTransport(sender, t)
  <2>1. AdminOK'
    BY <1>1, <1>2 DEF AdminOK, SetTransport, ledger
  <2> QED
    BY <1>2, <2>1, AdminStep DEF SetTransport, ledger
<1>3. CASE \E r \in Receivers : SetResultReceiver(sender, r)
  <2>1. AdminOK'
    BY <1>1, <1>3 DEF AdminOK, SetResultReceiver, ledger
  <2> QED
    BY <1>3, <2>1, AdminStep DEF SetResultReceiver, ledger
<1>4. CASE \E o \in Owners : TransferOwnership(sender, o)
  <2>1. AdminOK'
    BY <1>1, <1>4 DEF AdminOK, TransferOwnership, ledger
  <2> QED
    BY <1>4, <2>1, AdminStep DEF TransferOwnership, ledger
<1>5. CASE \E p \in BOOLEAN : SetPaused(sender, p)
  <2>1. AdminOK'
    BY <1>1, <1>5 DEF AdminOK, SetPaused, ledger
  <2> QED
    BY <1>5, <2>1, AdminStep DEF SetPaused, ledger
<1> QED
  BY <1>2, <1>3, <1>4, <1>5

(* the clock *)
LEMMA TickStep ==
  ASSUME IInv, Tick PROVE IInv'
<1>1. AdminOK'
  BY RouterConstants DEF IInv, AdminOK, Tick, Times, admin
<1> QED
  BY <1>1, AdminStep DEF Tick

-----------------------------------------------------------------------------
(* Every step of the router keeps the invariant. *)
LEMMA NextIInv == IInv /\ [RouterNext]_routerVars => IInv'
<1> SUFFICES ASSUME IInv, [RouterNext]_routerVars PROVE IInv'
  OBVIOUS
<1>1. CASE CallsRouter
  <2>1. ASSUME NEW id \in RequestIds, NEW value \in 0 .. RequestFee + 1,
               NEW deliveryFee \in 0 .. RequestFee,
               RequestDecision(id, value, deliveryFee)
        PROVE  IInv'
    <3>1. value \in Nat /\ deliveryFee \in Nat
      BY RouterConstants
    <3> QED
      BY <2>1, <3>1, AskStep
  <2>2. ASSUME NEW id \in DOMAIN committed.requests, NEW sender \in Receivers,
               NEW d \in Verdicts \cup {"None"}, NEW p \in Policies,
               NEW e \in Evidence, NEW h \in ResultHashes \cup {NoHash},
               HandleResult(sender, id, d, p, e, h)
        PROVE  IInv'
    BY <2>2, ResultStep
  <2>3. ASSUME NEW id \in DOMAIN requests, RetryCallback(id)
        PROVE  IInv'
    BY <2>3, RetryStep
  <2> QED
    BY <1>1, <2>1, <2>2, <2>3 DEF CallsRouter
<1>2. CASE CallbackReturns
  BY <1>2, ReturnStep
<1>3. CASE CallbackReverts
  BY <1>3, RevertStep
<1>4. CASE WithdrawReturns
  BY <1>4, WithdrawReturnsStep
<1>5. CASE WithdrawReverts
  BY <1>5, WithdrawRevertsStep
<1>6. CASE Abort
  BY <1>6, AbortStep
<1>7. CASE AdminNext
  <2> PICK sender \in Owners :
        \/ \E t \in Transports : SetTransport(sender, t)
        \/ \E r \in Receivers : SetResultReceiver(sender, r)
        \/ \E o \in Owners : TransferOwnership(sender, o)
        \/ \E p \in BOOLEAN : SetPaused(sender, p)
        \/ WithdrawFees(sender)
    BY <1>7 DEF AdminNext
  <2> QED
    BY SettersStep, WithdrawStep
<1>8. CASE Tick
  BY <1>8, TickStep
<1>9. CASE UNCHANGED routerVars
  <2>1. AdminOK'
    BY <1>9 DEF IInv, AdminOK, routerVars, admin
  <2> QED
    BY <1>9, <2>1, AdminStep DEF routerVars
<1> QED
  BY <1>1, <1>2, <1>3, <1>4, <1>5, <1>6, <1>7, <1>8, <1>9 DEF RouterNext

(***************************************************************************)
(* The invariant holds in every reachable state: of the current storage,   *)
(* of the committed one, and of every storage a revert may restore.        *)
(***************************************************************************)
THEOREM RouterInvariant == RouterSpec => []IInv
<1>1. RouterInit => IInv
  BY InitIInv
<1>2. IInv /\ [RouterNext]_routerVars => IInv'
  BY NextIInv
<1> QED
  BY <1>1, <1>2, PTL DEF RouterSpec

(* DeliveredOnce of the current storage is a part of the invariant. *)
THEOREM CallbackDeliveredOnce == RouterSpec => []DeliveredOnce
<1>1. IInv => DeliveredOnce
  BY DEF IInv, StorageOK, DeliveredOnce
<1> QED
  BY <1>1, RouterInvariant, PTL

(* The invariant says who holds the lock of a request, and once.            *)
LEMMA IInvLocks ==
  ASSUME IInv PROVE LockIsHeldByOneCall
<1>1. DOMAIN frames = 1 .. Len(frames)
  <2>1. frames \in Seq({frames[i] : i \in DOMAIN frames})
    BY DEF IInv, StackOK, IsStack
  <2> QED
    BY <2>1, LenProperties
<1>2. ASSUME NEW id \in DOMAIN requests
      PROVE  requests[id].callbackLocked
               <=> \E i \in DOMAIN frames : Calls(i, id)
  <2>1. requests[id].callbackLocked <=> id \in Called(frames, Len(frames))
    <3>1. requests[id] \in Request
      BY <1>2, StorageFields DEF IInv, StorageOK, IsStorage
    <3> QED
      BY <1>2, <3>1, StorageFields DEF IInv, StorageOK
  <2> QED
    BY <1>1, <2>1 DEF Called, Calls
<1>3. \A i, j \in DOMAIN frames : \A id \in DOMAIN requests :
        Calls(i, id) /\ Calls(j, id) => i = j
  BY <1>1 DEF IInv, StackOK, Calls
<1> QED
  BY <1>2, <1>3 DEF LockIsHeldByOneCall

(* The lock of a request is set exactly while its callback is on the stack,  *)
(* once: what the invariant says of the current storage and of the stack.    *)
THEOREM LockHeldByOneCall == RouterSpec => []LockIsHeldByOneCall
<1>1. IInv => LockIsHeldByOneCall
  BY IInvLocks
<1> QED
  BY <1>1, RouterInvariant, PTL

(* The router holds the fees on its books, also during a withdrawal. *)
THEOREM FeesHeld == RouterSpec => []FeesAreHeld
<1>1. IInv => FeesAreHeld
  BY DEF IInv, StorageOK, FeesAreHeld
<1> QED
  BY <1>1, RouterInvariant, PTL

(* No requester has two stored requests with one nonce. *)
THEOREM NonceIdentifies == RouterSpec => []NonceIdentifiesRequest
<1>1. IInv => NonceIdentifiesRequest
  BY DEF IInv, StorageOK, NonceIdentifiesRequest
<1> QED
  BY <1>1, RouterInvariant, PTL

(* The invariant types the router's storage, its copies and its stack. *)
LEMMA IInvTyped ==
  ASSUME IInv PROVE RouterTypeOK
<1>1. DOMAIN frames = 1 .. Len(frames)
  <2>1. frames \in Seq({frames[i] : i \in DOMAIN frames})
    BY DEF IInv, StackOK, IsStack
  <2> QED
    BY <2>1, LenProperties
<1>2. ASSUME NEW i \in DOMAIN frames PROVE IsFrame(frames[i])
  <2>1. StorageOK(frames[i].saved, Called(frames, i))
    BY <1>1 DEF IInv, StackOK
  <2>2. i \in 1 .. i
    BY <1>1, <1>2
  <2>3. frames[i].kind = "callback" => frames[i].request \in Called(frames, i)
    BY <2>2 DEF Called
  <2> QED
    BY <2>1, <2>3 DEF IsFrame, StorageOK
<1>3. IsStorage(Storage) /\ IsStorage(committed)
  BY DEF IInv, StorageOK
<1>4. IsStack(frames) /\ Len(frames) <= MaxDepth
  BY DEF IInv, StackOK
<1> QED
  BY <1>2, <1>3, <1>4 DEF IInv, AdminOK, RouterTypeOK

(* Type correctness of the router's storage, its copies and its stack. *)
THEOREM RouterTyped == RouterSpec => []RouterTypeOK
<1>1. IInv => RouterTypeOK
  BY IInvTyped
<1> QED
  BY <1>1, RouterInvariant, PTL

-----------------------------------------------------------------------------
(***************************************************************************)
(* The refinement of VerdictRegister.tla.  A step of the register is what  *)
(* a whole transaction did, and a revert inside it may take back a part:   *)
(* hence the invariant compares the storage the last transaction left with *)
(* the current one and with every saved one.                               *)
(***************************************************************************)
(***************************************************************************)
(* What the calls in progress did to the storage `c' the last transaction  *)
(* left, up to a storage `s' at block time `clock': the promise of the     *)
(* register, and that nothing happens to a request that is not committed.  *)
(***************************************************************************)
PromiseKept(c, s, clock, q) ==
  /\ s.requests[q].decision # c.requests[q].decision =>
        /\ c.requests[q].decision = "None"
        /\ clock <= q.expiry
  /\ s.deliveries[q] # c.deliveries[q] =>
        c.deliveries[q] = 0 /\ s.deliveries[q] = 1

Evolved(c, s, clock) ==
  /\ DOMAIN c.requests \subseteq DOMAIN s.requests
  /\ \A q \in DOMAIN c.requests : PromiseKept(c, s, clock, q)
  /\ \A q \in DOMAIN s.requests \ DOMAIN c.requests :
        s.requests[q].status = "Dispatched" /\ clock < q.expiry
  /\ \A q \in DOMAIN s.requests :
        s.requests[q].status = "Dispatched" <=> s.requests[q].decision = "None"

(* The invariant of the refinement. *)
RefinementInv ==
  /\ IInv
  /\ AtRest => SameStorage(committed, Storage)
  /\ Evolved(committed, committed, now)
  /\ Evolved(committed, Storage, now)
  /\ \A k \in 1 .. Len(frames) : Evolved(committed, frames[k].saved, now)
-----------------------------------------------------------------------------
(* Evolved is about the requests and the deliveries of two storages. *)
LEMMA EvolvedSame ==
  ASSUME NEW c, NEW s, NEW c2, NEW s2, NEW clock, Evolved(c, s, clock),
         SameStorage(c, c2), SameStorage(s, s2)
  PROVE  Evolved(c2, s2, clock)
BY DEF Evolved, PromiseKept, SameStorage

(* A storage a transaction ends with is where the next one starts. *)
LEMMA EvolvedFromItself ==
  ASSUME NEW c, NEW s, NEW t, NEW clock, NEW later,
         Evolved(c, s, clock), SameStorage(s, t)
  PROVE  Evolved(t, s, later)
BY DEF Evolved, PromiseKept, SameStorage

(* A request that is made while its expiry lies ahead. *)
LEMMA EvolvedAsk ==
  ASSUME NEW c, NEW s, NEW t, NEW clock, Evolved(c, s, clock),
         NEW id, id \notin DOMAIN s.requests, clock < id.expiry,
         DOMAIN t.requests = DOMAIN s.requests \cup {id},
         t.requests[id] = FreshRequest,
         \A q \in DOMAIN s.requests : t.requests[q] = s.requests[q],
         \A q \in DOMAIN s.requests : t.deliveries[q] = s.deliveries[q]
  PROVE  Evolved(c, t, clock)
BY DEF Evolved, PromiseKept, FreshRequest

(* A step of a committed request that has, or in time receives, a verdict. *)
LEMMA EvolvedTouch ==
  ASSUME NEW c, NEW s, NEW t, NEW clock, Evolved(c, s, clock),
         NEW id \in DOMAIN c.requests, NEW e,
         e.status # "Dispatched", e.decision # "None",
         \/ e.decision = s.requests[id].decision
         \/ s.requests[id].decision = "None" /\ clock <= id.expiry,
         t.requests = [s.requests EXCEPT ![id] = e],
         \A q \in DOMAIN s.requests \ {id} : t.deliveries[q] = s.deliveries[q],
         \/ t.deliveries[id] = s.deliveries[id]
         \/ s.deliveries[id] = 0 /\ t.deliveries[id] = 1
  PROVE  Evolved(c, t, clock)
<1>1. /\ DOMAIN t.requests = DOMAIN s.requests
      /\ id \in DOMAIN s.requests
      /\ t.requests[id] = e
      /\ \A q \in DOMAIN s.requests \ {id} : t.requests[q] = s.requests[q]
  BY DEF Evolved
<1>2. ASSUME NEW q \in DOMAIN c.requests PROVE PromiseKept(c, t, clock, q)
  <2>1. PromiseKept(c, s, clock, q) /\ q \in DOMAIN s.requests
    BY DEF Evolved
  <2>2. CASE q = id
    BY <1>1, <2>1, <2>2 DEF PromiseKept
  <2>3. CASE q # id
    BY <1>1, <2>1, <2>3 DEF PromiseKept
  <2> QED
    BY <2>2, <2>3
<1> QED
  BY <1>1, <1>2 DEF Evolved

(* A request that is past Dispatched was committed by an earlier transaction. *)
LEMMA AnsweredIsCommitted ==
  ASSUME NEW c, NEW s, NEW clock, Evolved(c, s, clock),
         NEW id \in DOMAIN s.requests, s.requests[id].status # "Dispatched"
  PROVE  id \in DOMAIN c.requests /\ s.requests[id].decision # "None"
BY DEF Evolved

-----------------------------------------------------------------------------
RegisterStep == [Register!RegisterNext]_(Register!registerVars)

(* A step of the router that ends a transaction takes a step of the register, *)
(* any other step leaves it alone.                                            *)
LEMMA EndsOrGoesOn ==
  ASSUME RefinementInv, IInv', now' = now,
         frames' = <<>> => SameStorage(Storage', committed'),
         frames' # <<>> => committed' = committed,
         Evolved(committed, Storage', now),
         \A k \in 1 .. Len(frames') : Evolved(committed, frames'[k].saved, now)
  PROVE  RefinementInv' /\ RegisterStep
<1>1. CASE frames' # <<>>
  <2>1. RefinementInv'
    <3>1. Evolved(committed', committed', now') /\ Len(frames') = Len(frames')
      BY <1>1 DEF RefinementInv
    <3> QED
      BY <1>1, <3>1 DEF RefinementInv, AtRest
  <2>2. UNCHANGED Register!registerVars
    BY <1>1 DEF Register!registerVars
  <2> QED
    BY <2>1, <2>2 DEF RegisterStep
<1>2. CASE frames' = <<>>
  <2>1. Len(frames') = 0
    BY <1>2
  <2>2. Evolved(committed', Storage', now)
    BY <1>2, EvolvedFromItself
  <2>3. RefinementInv'
    <3>1. SameStorage(committed', Storage')
      BY <1>2 DEF SameStorage
    <3>2. Evolved(committed', committed', now)
      BY <1>2, EvolvedFromItself, EvolvedSame DEF SameStorage
    <3> QED
      BY <1>2, <2>1, <2>2, <3>1, <3>2 DEF RefinementInv, AtRest
  <2>4. Evolved(committed, committed', now)
    BY <1>2, EvolvedSame DEF SameStorage
  <2>5. StorageOK(committed', {})
    BY DEF IInv
  <2>6. /\ committed'.requests \in [DOMAIN committed'.requests -> Request]
        /\ DeliveredOnceIn(committed')
    BY <2>5 DEF StorageOK, IsStorage
  <2>7. ASSUME NEW q \in DOMAIN committed.requests
        PROVE  Register!KeepsPromise(q)
    <3>1. q \in DOMAIN committed'.requests
      BY <2>4 DEF Evolved
    <3>2. PromiseKept(committed, committed', now, q)
      BY <2>4 DEF Evolved
    <3>3. committed'.requests[q].decision \in Verdicts \cup {"None"}
      BY <2>6, <3>1 DEF Request
    <3>4. committed'.deliveries[q] = 1 => committed'.requests[q].decision # "None"
      BY <2>4, <2>6, <3>1 DEF DeliveredOnceIn, Evolved
    <3> QED
      BY <3>1, <3>2, <3>3, <3>4 DEF Register!KeepsPromise, PromiseKept
  <2>8. ASSUME NEW q \in DOMAIN committed'.requests \ DOMAIN committed.requests
        PROVE  Register!AcceptedFresh(q)
    BY <2>4, <2>6 DEF Register!AcceptedFresh, Evolved, DeliveredOnceIn
  <2>9. DOMAIN committed.requests \subseteq DOMAIN committed'.requests
    BY <2>4 DEF Evolved
  <2>10. Register!Transact
    BY <2>7, <2>8, <2>9 DEF Register!Transact
  <2> QED
    BY <2>3, <2>10 DEF RegisterStep, Register!RegisterNext
<1> QED
  BY <1>1, <1>2

(* What a step does to the register, when it ends the transaction. *)
LEMMA CommitEnds ==
  ASSUME Commit
  PROVE  /\ frames' = <<>> => SameStorage(Storage', committed')
         /\ frames' # <<>> => committed' = committed
BY DEF Commit, SameStorage

(* A call starts: its saved storage has evolved as well. *)
LEMMA PushEvolved ==
  ASSUME RefinementInv, NEW f, frames' = Append(frames, f),
         Evolved(committed, f.saved, now)
  PROVE  /\ frames' # <<>>
         /\ \A k \in 1 .. Len(frames') : Evolved(committed, frames'[k].saved, now)
<1>1. IsStack(frames)
  BY DEF RefinementInv, IInv, StackOK
<1>2. /\ Len(frames) \in Nat
      /\ Len(frames') = Len(frames) + 1
      /\ \A i \in 1 .. Len(frames) : frames'[i] = frames[i]
      /\ frames'[Len(frames) + 1] = f
  BY <1>1, PushFacts
<1>3. frames' # <<>>
  <2>1. Len(frames') # 0
    BY <1>2
  <2> QED
    BY <2>1
<1>4. ASSUME NEW k \in 1 .. Len(frames')
      PROVE  Evolved(committed, frames'[k].saved, now)
  <2>1. CASE k = Len(frames) + 1
    BY <1>2, <2>1
  <2>2. CASE k \in 1 .. Len(frames)
    BY <1>2, <2>2 DEF RefinementInv
  <2> QED
    BY <1>2, <2>1, <2>2
<1> QED
  BY <1>3, <1>4

(* A call ends: the storage below has evolved. *)
LEMMA PopEvolved ==
  ASSUME RefinementInv, frames # <<>>, frames' = Pop
  PROVE  /\ \A k \in 1 .. Len(frames') : Evolved(committed, frames'[k].saved, now)
         /\ Evolved(committed, Top.saved, now)
         /\ StorageOK(Top.saved, Called(frames, Len(frames)))
         /\ Top.kind = "callback" => Top.request \in Called(frames, Len(frames))
<1>1. IsStack(frames) /\ StackOK(frames)
  BY DEF RefinementInv, IInv, StackOK
<1>2. /\ Len(frames) \in Nat /\ Len(frames) >= 1
      /\ Len(frames') = Len(frames) - 1
      /\ \A i \in 1 .. Len(frames) - 1 : frames'[i] = frames[i]
  BY <1>1, PopFacts DEF Pop
<1>3. /\ StorageOK(Top.saved, Called(frames, Len(frames)))
      /\ Top.kind = "callback" => Top.request \in Called(frames, Len(frames))
  BY <1>1, PopStackOK DEF Top
<1>4. Evolved(committed, Top.saved, now)
  BY <1>2 DEF RefinementInv, Top
<1> QED
  BY <1>2, <1>3, <1>4 DEF RefinementInv

-----------------------------------------------------------------------------
(* requestDecision *)
LEMMA RAskStep ==
  ASSUME RefinementInv, IInv', NEW id \in RequestIds, NEW value \in Nat, NEW deliveryFee \in Nat,
         RequestDecision(id, value, deliveryFee)
  PROVE  RefinementInv' /\ RegisterStep
<1>1. /\ id \notin DOMAIN requests /\ id.expiry > now
      /\ now' = now /\ frames' = frames /\ Commit
  BY DEF RequestDecision, ValidRequest
<1>2. now < id.expiry
  BY <1>1, RouterConstants DEF RefinementInv, IInv, AdminOK, Times, RequestIds
<1>3. /\ DOMAIN Storage'.requests = DOMAIN Storage.requests \cup {id}
      /\ Storage'.requests[id] = FreshRequest
      /\ \A q \in DOMAIN Storage.requests :
            Storage'.requests[q] = Storage.requests[q]
  BY <1>1, StorageFields DEF RequestDecision
<1>4. \A q \in DOMAIN Storage.requests :
        Storage'.deliveries[q] = Storage.deliveries[q]
  <2>1. DOMAIN deliveries = DOMAIN requests
    BY StorageFields DEF RefinementInv, IInv, StorageOK, IsStorage
  <2> QED
    BY <1>1, <2>1, StorageFields DEF RequestDecision
<1>5. Evolved(committed, Storage', now)
  BY <1>1, <1>2, <1>3, <1>4, StorageFields, EvolvedAsk DEF RefinementInv
<1> QED
  BY <1>1, <1>5, CommitEnds, EndsOrGoesOn DEF RefinementInv

(* _attemptCallback, up to the call *)
LEMMA REnterStep ==
  ASSUME RefinementInv, IInv', NEW id \in DOMAIN committed.requests, NEW r \in Request,
         r.decision # "None",
         \/ r.decision = requests[id].decision
         \/ requests[id].decision = "None" /\ now <= id.expiry,
         EnterCallback(id, r)
  PROVE  RefinementInv' /\ RegisterStep
<1> DEFINE e == [r EXCEPT !.callbackLocked = TRUE, !.status = "CallbackPending"]
           f == [kind |-> "callback", request |-> id, saved |-> Storage']
<1>1. e.status = "CallbackPending" /\ e.decision = r.decision
  BY DEF Request
<1>2. /\ Storage'.requests = [Storage.requests EXCEPT ![id] = e]
      /\ Storage'.deliveries = Storage.deliveries
      /\ frames' = Append(frames, f) /\ f.saved = Storage'
      /\ now' = now /\ committed' = committed
  BY StorageFields DEF EnterCallback
<1> HIDE DEF e
<1>3. Evolved(committed, Storage', now)
  <2>1. Evolved(committed, Storage, now)
    BY DEF RefinementInv
  <2>2. \/ e.decision = Storage.requests[id].decision
        \/ Storage.requests[id].decision = "None" /\ now <= id.expiry
    BY <1>1, StorageFields
  <2>3. e.status # "Dispatched" /\ e.decision # "None"
    BY <1>1
  <2> QED
    BY <1>2, <2>1, <2>2, <2>3, EvolvedTouch
<1> HIDE DEF f
<1>4. /\ frames' # <<>>
      /\ \A k \in 1 .. Len(frames') : Evolved(committed, frames'[k].saved, now)
  BY <1>2, <1>3, PushEvolved
<1> QED
  BY <1>2, <1>3, <1>4, EndsOrGoesOn

(* handleResult *)
LEMMA RResultStep ==
  ASSUME RefinementInv, IInv', NEW id \in DOMAIN committed.requests, NEW sender, NEW d,
         NEW p, NEW e, NEW h \in ResultHashes \cup {NoHash},
         HandleResult(sender, id, d, p, e, h)
  PROVE  RefinementInv' /\ RegisterStep
<1> DEFINE r == [requests[id] EXCEPT !.decision = d, !.resultTxHash = h,
                                     !.status = "Finalized"]
           u == [r EXCEPT !.status = "Dispatched"]
<1>1. /\ id \in DOMAIN requests /\ requests[id].status = "Dispatched"
      /\ now <= id.expiry /\ d \in Verdicts
      /\ EnterCallback(id, r)
  BY DEF HandleResult, InTime
<1>2. requests[id] \in Request
  BY <1>1, StorageFields DEF RefinementInv, IInv, StorageOK, IsStorage
<1>3. requests[id].decision = "None"
  BY <1>1, StorageFields DEF RefinementInv, Evolved
<1>4. /\ u \in Request /\ u.decision # "None"
      /\ EnterCallback(id, u)
  BY <1>1, <1>2 DEF EnterCallback, CallbackIsFree, Request, Verdicts
<1> QED
  BY <1>1, <1>3, <1>4, REnterStep

(* retryCallback *)
LEMMA RRetryStep ==
  ASSUME RefinementInv, IInv', NEW id, RetryCallback(id)
  PROVE  RefinementInv' /\ RegisterStep
<1>1. /\ id \in DOMAIN requests
      /\ requests[id].status = "CallbackPending"
      /\ EnterCallback(id, requests[id])
  BY DEF RetryCallback
<1>2. requests[id] \in Request
  BY <1>1, StorageFields DEF RefinementInv, IInv, StorageOK, IsStorage
<1>3. id \in DOMAIN committed.requests /\ requests[id].decision # "None"
  BY <1>1, StorageFields DEF RefinementInv, Evolved
<1> QED
  BY <1>1, <1>2, <1>3, REnterStep

(* _attemptCallback, after the call *)
LEMMA RReturnStep ==
  ASSUME RefinementInv, IInv', CallbackReturns PROVE RefinementInv' /\ RegisterStep
<1> DEFINE id == Top.request
           e == [requests[id] EXCEPT !.status = "CallbackExecuted",
                                     !.callbackLocked = FALSE]
<1>1. /\ frames # <<>> /\ Top.kind = "callback"
      /\ frames' = Pop /\ Commit /\ now' = now
  BY DEF CallbackReturns, InCallback, AtRest
<1>2. StorageOK(Storage, Called(frames, Len(frames)))
  BY DEF RefinementInv, IInv
<1>3. id \in Called(frames, Len(frames))
  BY <1>1, PopEvolved
<1>4. /\ id \in DOMAIN requests /\ requests[id] \in Request
      /\ requests[id].status = "CallbackPending"
      /\ id \in DOMAIN deliveries /\ deliveries[id] = 0
  BY <1>2, <1>3, StorageFields DEF StorageOK, IsStorage, DeliveredOnceIn
<1>5. id \in DOMAIN committed.requests /\ requests[id].decision # "None"
  BY <1>4, StorageFields DEF RefinementInv, Evolved
<1>6. e.status # "Dispatched" /\ e.decision = requests[id].decision
  BY <1>4 DEF Request
<1>7. /\ Storage'.requests = [Storage.requests EXCEPT ![id] = e]
      /\ Storage'.deliveries = [Storage.deliveries EXCEPT ![id] = @ + 1]
  BY <1>4, StorageFields DEF CallbackReturns
<1> HIDE DEF e
<1>8. Evolved(committed, Storage', now)
  <2>1. Storage'.deliveries[id] = 1 /\ Storage.deliveries[id] = 0
    BY <1>4, <1>7, StorageFields
  <2>2. \A q \in DOMAIN Storage.requests \ {id} :
          Storage'.deliveries[q] = Storage.deliveries[q]
    BY <1>2, <1>7 DEF StorageOK, IsStorage
  <2>3. Evolved(committed, Storage, now) /\ e.decision # "None"
        /\ e.decision = Storage.requests[id].decision
    BY <1>5, <1>6, StorageFields DEF RefinementInv
  <2>4. /\ id \in DOMAIN committed.requests /\ e.status # "Dispatched"
        /\ Storage'.requests = [Storage.requests EXCEPT ![id] = e]
    BY <1>5, <1>6, <1>7
  <2> HIDE DEF id
  <2> QED
    BY <2>1, <2>2, <2>3, <2>4, EvolvedTouch
<1> QED
  BY <1>1, <1>8, PopEvolved, CommitEnds, EndsOrGoesOn

(* _attemptCallback, when the callback reverts *)
LEMMA RRevertStep ==
  ASSUME RefinementInv, IInv', CallbackReverts PROVE RefinementInv' /\ RegisterStep
<1> DEFINE s == Top.saved
           id == Top.request
           e == [s.requests[id] EXCEPT !.callbackLocked = FALSE]
<1>1. /\ frames # <<>> /\ Top.kind = "callback"
      /\ frames' = Pop /\ Commit /\ now' = now
  BY DEF CallbackReverts, InCallback, AtRest
<1>2. /\ StorageOK(s, Called(frames, Len(frames)))
      /\ Evolved(committed, s, now)
      /\ id \in Called(frames, Len(frames))
  BY <1>1, PopEvolved
<1> HIDE DEF s, id
<1>3. /\ id \in DOMAIN s.requests /\ s.requests[id] \in Request
      /\ s.requests[id].status = "CallbackPending"
  BY <1>2 DEF StorageOK, IsStorage
<1>4. id \in DOMAIN committed.requests /\ s.requests[id].decision # "None"
  BY <1>2, <1>3, AnsweredIsCommitted
<1>5. e.status # "Dispatched" /\ e.decision = s.requests[id].decision
  BY <1>3 DEF Request
<1>6. /\ Storage'.requests = [s.requests EXCEPT ![id] = e]
      /\ Storage'.deliveries = s.deliveries
  BY <1>3, StorageFields DEF CallbackReverts, RestoreAs, Unlocked, s, id
<1> HIDE DEF e
<1>7. Evolved(committed, Storage', now)
  BY <1>2, <1>4, <1>5, <1>6, EvolvedTouch
<1> QED
  BY <1>1, <1>7, PopEvolved, CommitEnds, EndsOrGoesOn

(* withdrawFees changes no request and no delivery. *)
LEMMA RWithdrawStep ==
  ASSUME RefinementInv, IInv', NEW sender, WithdrawFees(sender)
  PROVE  RefinementInv' /\ RegisterStep
<1> DEFINE f == [kind |-> "withdraw", saved |-> Storage]
<1>1. /\ frames' = Append(frames, f) /\ f.saved = Storage
      /\ committed' = committed /\ now' = now
      /\ Storage'.requests = Storage.requests
      /\ Storage'.deliveries = Storage.deliveries
  BY StorageFields DEF WithdrawFees
<1> HIDE DEF f
<1>2. Evolved(committed, Storage, now)
  BY DEF RefinementInv
<1>3. Evolved(committed, Storage', now)
  BY <1>1, <1>2 DEF Evolved, PromiseKept
<1>4. /\ frames' # <<>>
      /\ \A k \in 1 .. Len(frames') : Evolved(committed, frames'[k].saved, now)
  BY <1>1, <1>2, PushEvolved
<1> QED
  BY <1>1, <1>3, <1>4, EndsOrGoesOn

(* withdrawFees, after the transfer *)
LEMMA RPayoutEnds ==
  ASSUME RefinementInv, IInv', frames # <<>>, frames' = Pop, Commit, now' = now,
         NEW s, Evolved(committed, s, now), SameStorage(s, Storage')
  PROVE  RefinementInv' /\ RegisterStep
<1>1. Evolved(committed, Storage', now)
  BY EvolvedSame DEF SameStorage
<1> QED
  BY <1>1, PopEvolved, CommitEnds, EndsOrGoesOn

(* withdrawFees, when the recipient returns *)
LEMMA RWithdrawReturnsStep ==
  ASSUME RefinementInv, IInv', WithdrawReturns PROVE RefinementInv' /\ RegisterStep
<1>1. SameStorage(Storage, Storage') /\ Evolved(committed, Storage, now)
  BY StorageFields DEF SameStorage, WithdrawReturns, RefinementInv
<1> QED
  BY <1>1, RPayoutEnds DEF WithdrawReturns, InWithdraw, AtRest

(* withdrawFees, when the recipient reverts *)
LEMMA RWithdrawRevertsStep ==
  ASSUME RefinementInv, IInv', WithdrawReverts PROVE RefinementInv' /\ RegisterStep
<1>1. frames # <<>> /\ frames' = Pop /\ Commit /\ now' = now
  BY DEF WithdrawReverts, InWithdraw, AtRest
<1>2. SameStorage(Top.saved, Storage') /\ Evolved(committed, Top.saved, now)
  BY <1>1, PopEvolved, StorageFields
  DEF SameStorage, WithdrawReverts, Restore, RestoreAs
<1> QED
  BY <1>1, <1>2, RPayoutEnds

(* a transaction that fails as a whole *)
LEMMA RAbortStep ==
  ASSUME RefinementInv, IInv', Abort PROVE RefinementInv' /\ RegisterStep
<1>1. /\ SameStorage(committed, Storage') /\ SameStorage(Storage', committed')
      /\ frames' = <<>> /\ Len(frames') = 0 /\ now' = now
  BY StorageFields DEF SameStorage, Abort, Restore, RestoreAs
<1>2. Evolved(committed, committed, now)
  BY DEF RefinementInv
<1>3. Evolved(committed, Storage', now)
  BY <1>1, <1>2, EvolvedSame DEF SameStorage
<1> QED
  BY <1>1, <1>3, EndsOrGoesOn

(* the setters and steps of others *)
LEMMA RUntouchedStep ==
  ASSUME RefinementInv, IInv', UNCHANGED ledger PROVE RefinementInv' /\ RegisterStep
<1>1. /\ SameStorage(Storage, Storage') /\ committed' = committed
      /\ frames' = frames /\ now' = now
  BY StorageFields DEF SameStorage, ledger
<1>2. RefinementInv'
  <2>1. Evolved(committed', Storage', now')
    BY <1>1, EvolvedSame DEF RefinementInv, SameStorage
  <2>2. AtRest' => SameStorage(committed', Storage')
    BY <1>1 DEF RefinementInv, AtRest, SameStorage
  <2> QED
    BY <1>1, <2>1, <2>2 DEF RefinementInv
<1>3. UNCHANGED Register!registerVars
  BY <1>1 DEF Register!registerVars
<1> QED
  BY <1>2, <1>3 DEF RegisterStep

(* A block ends no transaction: the register waits. *)
LEMMA RTickStep ==
  ASSUME RefinementInv, IInv', Tick PROVE RefinementInv' /\ RegisterStep
<1>1. /\ frames = <<>> /\ frames' = <<>> /\ Len(frames') = 0
      /\ committed' = committed /\ now' = now + 1
      /\ SameStorage(Storage, Storage')
  BY StorageFields DEF SameStorage, Tick, AtRest
<1>2. SameStorage(committed, Storage) /\ SameStorage(committed', Storage')
  BY <1>1 DEF RefinementInv, AtRest, SameStorage
<1>3. Evolved(committed', committed', now') /\ Evolved(committed', Storage', now')
  <2>1. Evolved(committed, committed, now)
    BY DEF RefinementInv
  <2>2. SameStorage(committed, committed)
    BY DEF SameStorage
  <2> QED
    BY <1>1, <1>2, <2>1, <2>2, EvolvedFromItself, EvolvedSame
<1>4. RefinementInv'
  BY <1>1, <1>2, <1>3 DEF RefinementInv, AtRest
<1>5. now \in Nat
  BY RouterConstants DEF RefinementInv, IInv, AdminOK, Times
<1>6. Register!Wait
  BY <1>1, <1>5 DEF Register!Wait
<1> QED
  BY <1>4, <1>6 DEF RegisterStep, Register!RegisterNext

(* Every step of the router is a step of the register, or none. *)
LEMMA NextRefines ==
  ASSUME RefinementInv, IInv', [RouterNext]_routerVars PROVE RefinementInv' /\ RegisterStep
<1>1. CASE CallsRouter
  <2>1. ASSUME NEW id \in RequestIds, NEW value \in 0 .. RequestFee + 1,
               NEW deliveryFee \in 0 .. RequestFee,
               RequestDecision(id, value, deliveryFee)
        PROVE  RefinementInv' /\ RegisterStep
    <3>1. value \in Nat /\ deliveryFee \in Nat
      BY RouterConstants
    <3> QED
      BY <2>1, <3>1, RAskStep
  <2>2. ASSUME NEW id \in DOMAIN committed.requests, NEW sender \in Receivers,
               NEW d \in Verdicts \cup {"None"}, NEW p \in Policies,
               NEW e \in Evidence, NEW h \in ResultHashes \cup {NoHash},
               HandleResult(sender, id, d, p, e, h)
        PROVE  RefinementInv' /\ RegisterStep
    BY <2>2, RResultStep
  <2>3. ASSUME NEW id \in DOMAIN requests, RetryCallback(id)
        PROVE  RefinementInv' /\ RegisterStep
    BY <2>3, RRetryStep
  <2> QED
    BY <1>1, <2>1, <2>2, <2>3 DEF CallsRouter
<1>2. CASE CallbackReturns
  BY <1>2, RReturnStep
<1>3. CASE CallbackReverts
  BY <1>3, RRevertStep
<1>4. CASE WithdrawReturns
  BY <1>4, RWithdrawReturnsStep
<1>5. CASE WithdrawReverts
  BY <1>5, RWithdrawRevertsStep
<1>6. CASE Abort
  BY <1>6, RAbortStep
<1>7. CASE AdminNext
  <2>1. PICK sender \in Owners :
          \/ UNCHANGED ledger
          \/ WithdrawFees(sender)
    BY <1>7 DEF AdminNext, SetTransport, SetResultReceiver, TransferOwnership,
                SetPaused
  <2> QED
    BY <2>1, RUntouchedStep, RWithdrawStep
<1>8. CASE Tick
  BY <1>8, RTickStep
<1>9. CASE UNCHANGED routerVars
  <2>1. UNCHANGED ledger
    BY <1>9 DEF routerVars, ledger
  <2> QED
    BY <2>1, RUntouchedStep
<1> QED
  BY <1>1, <1>2, <1>3, <1>4, <1>5, <1>6, <1>7, <1>8, <1>9 DEF RouterNext

(* The initial states are initial states of the register. *)
LEMMA InitRefines ==
  ASSUME RouterInit PROVE RefinementInv /\ Register!RegisterInit
<1>1. IInv
  BY InitIInv
<1>2. /\ committed = Storage /\ frames = <<>> /\ Len(frames) = 0 /\ now = 0
      /\ DOMAIN committed.requests = {} /\ DOMAIN committed.deliveries = {}
      /\ committed.deliveries = [q \in {} |-> 0]
  BY StorageFields DEF RouterInit
<1>3. RefinementInv
  BY <1>1, <1>2 DEF RefinementInv, Evolved, SameStorage
<1>4. [id \in DOMAIN committed.requests |-> committed.requests[id].decision]
        = [q \in {} |-> "None"]
  BY <1>2
<1>5. Register!RegisterInit
  BY <1>2, <1>4 DEF Register!RegisterInit
<1> QED
  BY <1>3, <1>5

(***************************************************************************)
(* Whatever callbacks call and whichever of them revert, the router keeps  *)
(* the promise of VerdictRegister.tla: what one transaction changes is one *)
(* step of the register.                                                   *)
(***************************************************************************)
THEOREM RouterRefinesRegister == RouterSpec => ImplementsVerdictRegister
<1>1. RouterInit => RefinementInv /\ Register!RegisterInit
  BY InitRefines
<1>2. RefinementInv /\ [RouterNext]_routerVars => RefinementInv' /\ RegisterStep
  <2> SUFFICES ASSUME RefinementInv, [RouterNext]_routerVars PROVE RefinementInv' /\ RegisterStep
    OBVIOUS
  <2>1. IInv'
    BY NextIInv DEF RefinementInv
  <2> QED
    BY <2>1, NextRefines
<1> QED
  BY <1>1, <1>2, PTL
  DEF RouterSpec, ImplementsVerdictRegister, RegisterStep, Register!RegisterSpec
=============================================================================
