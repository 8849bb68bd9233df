--------------------------- MODULE RouterV2Proofs ---------------------------
(***************************************************************************)
(* Proofs about RouterV2, for any number of applications, routes, results  *)
(* and nested calls.                                                       *)
(*                                                                         *)
(* The properties speak of the current storage only, but a failing         *)
(* callback or transaction puts an earlier storage in its place.  The      *)
(* inductive invariant V2Inv therefore says of the committed storage and   *)
(* of every storage a call saved what it says of the current one, each     *)
(* time for the calls that were in progress then (Good); and it relates    *)
(* each of them to the committed storage by what one transaction may do    *)
(* (SinceCommit), which is what the refinement of VerdictRegister needs    *)
(* when the transaction ends.                                              *)
(***************************************************************************)
EXTENDS RouterV2, SequenceTheorems, TLAPS

SomeRequest ==
  [status : {"Dispatched", "CallbackPending", "CallbackExecuted"},
   callbackLocked : BOOLEAN, resultTxHash : TxHashes \cup {NoHash},
   resultHash : ResultHashes \cup {NoHash}]

SomeStorage ==
  [requests : UNION {[D -> SomeRequest] : D \in SUBSET RequestIds},
   latestNonce : [Applications -> Nat], accruedFees : Nat, balance : Nat,
   received : UNION {[D -> Seq(ResultBytes)] : D \in SUBSET RequestIds}]

SomeCall ==
  [kind : {"callback"}, request : RequestIds, result : ResultBytes, saved : SomeStorage]
    \cup [kind : {"withdraw"}, saved : SomeStorage]

(* Storages are compared field by field. *)
Same(s, t) ==
  /\ t.requests = s.requests /\ t.latestNonce = s.latestNonce
  /\ t.accruedFees = s.accruedFees /\ t.balance = s.balance
  /\ t.received = s.received

IsStorage(s) ==
  /\ s.requests \in [DOMAIN s.requests -> SomeRequest]
  /\ DOMAIN s.requests \subseteq RequestIds
  /\ s.received \in [DOMAIN s.requests -> Seq(ResultBytes)]
  /\ s.latestNonce \in [Applications -> Nat]
  /\ s.accruedFees \in Nat /\ s.balance = s.accruedFees

(* What every request of a storage satisfies. *)
Follows(id, table) ==
  id.routeId \in DOMAIN table /\ table[id.routeId].binding = id.binding

Took(s, id) ==
  IF s.requests[id].status = "CallbackExecuted"
  THEN Len(s.received[id]) = 1 /\ HashOf(s.received[id][1]) = s.requests[id].resultHash
  ELSE s.received[id] = <<>>

RequestsOK(s, table) ==
  \A id \in DOMAIN s.requests :
    /\ Follows(id, table)
    /\ Took(s, id)
    /\ s.requests[id].status = "Dispatched" <=> s.requests[id].resultHash = NoHash

(* The callback of id is among the first n calls of a stack. *)
IsCalled(fs, n, id) == \E i \in 1 .. n : fs[i].kind = "callback" /\ fs[i].request = id

LocksOK(s, fs, n) ==
  \A id \in DOMAIN s.requests :
    s.requests[id].callbackLocked <=>
      s.requests[id].status = "CallbackExecuted" \/ IsCalled(fs, n, id)

CallsOK(s, fs, n) ==
  \A i \in 1 .. n : fs[i].kind = "callback" =>
    /\ fs[i].request \in DOMAIN s.requests
    /\ s.requests[fs[i].request].status = "CallbackPending"
    /\ s.requests[fs[i].request].resultHash = HashOf(fs[i].result)

(* What a transaction that began with storage c at time clock has done so far. *)
SinceCommit(c, s, clock) ==
  /\ DOMAIN c.requests \subseteq DOMAIN s.requests
  /\ \A q \in DOMAIN c.requests :
       /\ s.requests[q].resultHash # c.requests[q].resultHash =>
            c.requests[q].resultHash = NoHash /\ clock <= q.expiry
       /\ c.requests[q].status = "CallbackExecuted" =>
            s.requests[q].status = "CallbackExecuted"
  /\ \A q \in DOMAIN s.requests \ DOMAIN c.requests :
       s.requests[q].status = "Dispatched" /\ clock < q.expiry

Good(s, fs, n, c, clock, table) ==
  /\ IsStorage(s)
  /\ RequestsOK(s, table)
  /\ LocksOK(s, fs, n)
  /\ CallsOK(s, fs, n)
  /\ SinceCommit(c, s, clock)

StackOK(fs, c, clock, table) ==
  /\ fs \in Seq(SomeCall)
  /\ \A k \in 1 .. Len(fs) : Good(fs[k].saved, fs, k, c, clock, table)
  /\ \A i, j \in 1 .. Len(fs) :
       fs[i].kind = "callback" /\ fs[j].kind = "callback" /\ fs[i].request = fs[j].request
         => i = j

V2Inv ==
  /\ now \in Nat
  /\ AtRest => Same(committed, Storage)
  /\ Good(committed, calls, 0, committed, now, routes)
  /\ Good(Storage, calls, Len(calls), committed, now, routes)
  /\ StackOK(calls, committed, now, routes)

-----------------------------------------------------------------------------
(* The fields of the current storage, and of the next one. *)
LEMMA StorageIs ==
  /\ Storage.requests = requests /\ Storage.latestNonce = latestNonce
  /\ Storage.accruedFees = accruedFees /\ Storage.balance = balance
  /\ Storage.received = received
  /\ Storage'.requests = requests' /\ Storage'.latestNonce = latestNonce'
  /\ Storage'.accruedFees = accruedFees' /\ Storage'.balance = balance'
  /\ Storage'.received = received'
BY DEF Storage

(* Good says nothing of a storage but what its fields are. *)
LEMMA GoodSame ==
  ASSUME NEW s, NEW t, NEW fs, NEW n, NEW c, NEW d, NEW clock, NEW table, Good(s, fs, n, c, clock, table), Same(s, t), Same(c, d)
  PROVE  Good(t, fs, n, d, clock, table)
<1>1. IsStorage(t) /\ RequestsOK(t, table)
  BY DEF Good, Same, IsStorage, RequestsOK, Took
<1>2. LocksOK(t, fs, n) /\ CallsOK(t, fs, n)
  BY DEF Good, Same, LocksOK, CallsOK
<1>3. SinceCommit(d, t, clock)
  BY DEF Good, Same, SinceCommit
<1>4. QED BY <1>1, <1>2, <1>3 DEF Good

(* Good depends on the calls in progress, not on what is above them. *)
LEMMA GoodPrefix ==
  ASSUME NEW s, NEW fs, NEW gs, NEW n \in Nat, NEW c, NEW clock, NEW table,
         Good(s, fs, n, c, clock, table),
         \A i \in 1 .. n : gs[i] = fs[i]
  PROVE  Good(s, gs, n, c, clock, table)
<1>1. \A id : IsCalled(gs, n, id) <=> IsCalled(fs, n, id)
  BY DEF IsCalled
<1>2. LocksOK(s, gs, n)
  BY <1>1 DEF Good, LocksOK
<1>3. CallsOK(s, gs, n)
  BY DEF Good, CallsOK
<1>4. QED BY <1>2, <1>3 DEF Good

(* A storage has changed nothing since it was committed. *)
LEMMA NothingSinceCommit == \A c, s, clock : Same(c, s) => SinceCommit(c, s, clock)
BY DEF Same, SinceCommit

(* A storage that is a record of the right fields is one a call may save. *)
LEMMA StorageIsTyped ==
  ASSUME NEW s, IsStorage(s),
         s = [requests |-> s.requests, latestNonce |-> s.latestNonce,
              accruedFees |-> s.accruedFees, balance |-> s.balance, received |-> s.received]
  PROVE  s \in SomeStorage
<1>1. s.requests \in UNION {[D -> SomeRequest] : D \in SUBSET RequestIds}
  BY DEF IsStorage
<1>2. s.received \in UNION {[D -> Seq(ResultBytes)] : D \in SUBSET RequestIds}
  BY DEF IsStorage
<1>3. s.latestNonce \in [Applications -> Nat] /\ s.accruedFees \in Nat /\ s.balance \in Nat
  BY DEF IsStorage
<1>4. QED BY <1>1, <1>2, <1>3 DEF SomeStorage

-----------------------------------------------------------------------------
(* A call with a good storage saved is pushed on a good stack. *)
LEMMA PushOK ==
  ASSUME NEW fs, NEW c, NEW clock, NEW table, StackOK(fs, c, clock, table), NEW f \in SomeCall,
         Good(f.saved, Append(fs, f), Len(fs) + 1, c, clock, table),
         f.kind = "callback" => ~IsCalled(fs, Len(fs), f.request)
  PROVE  /\ StackOK(Append(fs, f), c, clock, table)
         /\ Len(Append(fs, f)) = Len(fs) + 1 /\ Len(fs) \in Nat
         /\ \A i \in 1 .. Len(fs) : Append(fs, f)[i] = fs[i]
         /\ Append(fs, f)[Len(fs) + 1] = f
         /\ Append(fs, f) # <<>>
<1> DEFINE gs == Append(fs, f)
           n == Len(fs)
<1>1. /\ gs \in Seq(SomeCall) /\ Len(gs) = n + 1 /\ n \in Nat
      /\ \A i \in 1 .. n : gs[i] = fs[i]
      /\ gs[n + 1] = f
      /\ gs # <<>>
  BY DEF StackOK
<1> HIDE DEF gs
<1>2. ASSUME NEW k \in 1 .. Len(gs) PROVE Good(gs[k].saved, gs, k, c, clock, table)
  <2>1. CASE k = n + 1
    BY <2>1, <1>1 DEF gs
  <2>2. CASE k \in 1 .. n
    <3>1. Good(fs[k].saved, fs, k, c, clock, table) /\ gs[k] = fs[k]
      BY <2>2, <1>1 DEF StackOK
    <3>2. k \in Nat /\ \A i \in 1 .. k : gs[i] = fs[i]
      BY <2>2, <1>1
    <3>3. QED BY <3>1, <3>2, GoodPrefix
  <2>3. QED BY <1>1, <2>1, <2>2
<1>3. ASSUME NEW i \in 1 .. n + 1, NEW j \in 1 .. n + 1, gs[i].kind = "callback",
             gs[j].kind = "callback", gs[i].request = gs[j].request
      PROVE  i = j
  <2>1. CASE i \in 1 .. n /\ j \in 1 .. n
    BY <2>1, <1>1, <1>3 DEF StackOK
  <2>2. CASE i = n + 1 /\ j \in 1 .. n
    BY <2>2, <1>1, <1>3 DEF IsCalled
  <2>3. CASE i \in 1 .. n /\ j = n + 1
    BY <2>3, <1>1, <1>3 DEF IsCalled
  <2>4. QED BY <1>1, <2>1, <2>2, <2>3
<1>4. QED BY <1>1, <1>2, <1>3 DEF StackOK, gs

(* The calls below the innermost one are a good stack, and no other call   *)
(* is one of the same callback.                                            *)
LEMMA PopOK ==
  ASSUME NEW c, NEW clock, NEW table, StackOK(calls, c, clock, table), calls # <<>>, Leave
  PROVE  /\ StackOK(calls', c, clock, table)
         /\ Len(calls) \in Nat /\ Len(calls) >= 1 /\ Len(calls') = Len(calls) - 1
         /\ \A i \in 1 .. Len(calls) - 1 : calls'[i] = calls[i]
         /\ Innermost = calls[Len(calls)] /\ Innermost \in SomeCall
         /\ Good(Innermost.saved, calls, Len(calls), c, clock, table)
<1> DEFINE n == Len(calls)
           gs == SubSeq(calls, 1, n - 1)
<1>1. calls \in Seq(SomeCall) /\ n \in Nat /\ n >= 1
  BY EmptySeq DEF StackOK
<1>2. \A i \in 1 .. n : calls[i] \in SomeCall
  BY <1>1, ElementOfSeq
<1>3. /\ gs \in Seq(SomeCall) /\ Len(gs) = n - 1
      /\ \A i \in 1 .. n - 1 : gs[i] = calls[i]
  <2>1. 1 \in Int /\ n - 1 \in Int /\ \A i \in 1 .. n - 1 : calls[i] \in SomeCall
    BY <1>1, <1>2
  <2>2. /\ gs \in Seq(SomeCall)
        /\ Len(gs) = IF 1 <= n - 1 THEN (n - 1) - 1 + 1 ELSE 0
        /\ \A i \in 1 .. (n - 1) - 1 + 1 : gs[i] = calls[1 + i - 1]
    BY <2>1, SubSeqProperties
  <2> HIDE DEF gs, n
  <2>3. QED BY <2>2, <1>1
<1>4. calls' = gs
  BY DEF Leave
<1> HIDE DEF gs
<1>5. ASSUME NEW k \in 1 .. Len(gs) PROVE Good(gs[k].saved, gs, k, c, clock, table)
  <2>1. Good(calls[k].saved, calls, k, c, clock, table) /\ gs[k] = calls[k]
    BY <1>1, <1>3 DEF StackOK
  <2>2. k \in Nat /\ \A i \in 1 .. k : gs[i] = calls[i]
    BY <1>1, <1>3
  <2>3. QED BY <2>1, <2>2, GoodPrefix
<1>6. \A i, j \in 1 .. Len(gs) :
        gs[i].kind = "callback" /\ gs[j].kind = "callback" /\ gs[i].request = gs[j].request
          => i = j
  BY <1>1, <1>3 DEF StackOK
<1>7. StackOK(gs, c, clock, table)
  BY <1>3, <1>5, <1>6 DEF StackOK
<1>8. n \in 1 .. n
  BY <1>1
<1>9. Good(Innermost.saved, calls, n, c, clock, table) /\ Innermost \in SomeCall
  BY <1>2, <1>8 DEF StackOK, Innermost
<1>10. QED BY <1>1, <1>3, <1>4, <1>7, <1>9 DEF Innermost

(* The request of a callback on top is called there and nowhere below. *)
LEMMA CalledOnTop ==
  ASSUME NEW fs, NEW c, NEW clock, NEW table, StackOK(fs, c, clock, table), NEW n \in Nat, n = Len(fs), n >= 1,
         fs[n].kind = "callback"
  PROVE  \A id : IsCalled(fs, n - 1, id) <=> IsCalled(fs, n, id) /\ id # fs[n].request
BY DEF StackOK, IsCalled

(* A call of another kind calls nothing. *)
LEMMA CalledBelow ==
  ASSUME NEW fs, NEW n \in Nat, n >= 1, fs[n].kind # "callback"
  PROVE  \A id : IsCalled(fs, n - 1, id) <=> IsCalled(fs, n, id)
BY DEF IsCalled


-----------------------------------------------------------------------------
RegisterStep == [Register!RegisterNext]_(Register!registerVars)

(***************************************************************************)
(* A step that leaves good storages and a good stack behind takes no step  *)
(* of the register while its transaction goes on, and one that ends it     *)
(* commits what the whole transaction did as one step.                     *)
(***************************************************************************)
LEMMA GoesOn ==
  ASSUME V2Inv, now' = now, routes' = routes,
         calls' # <<>> => committed' = committed,
         calls' = <<>> => Same(Storage', committed'),
         StackOK(calls', committed, now, routes),
         Good(Storage', calls', Len(calls'), committed, now, routes)
  PROVE  V2Inv' /\ RegisterStep
<1>1. now \in Nat /\ Good(committed, calls, 0, committed, now, routes)
  BY DEF V2Inv
<1>2. CASE calls' # <<>>
  <2>1. committed' = committed
    BY <1>2
  <2>2. Good(committed, calls', 0, committed, now, routes)
    BY <1>1, GoodPrefix
  <2>3. V2Inv'
    BY <1>1, <1>2, <2>1, <2>2 DEF V2Inv, AtRest
  <2>4. UNCHANGED Register!registerVars
    BY <2>1 DEF Register!registerVars
  <2>5. QED BY <2>3, <2>4 DEF RegisterStep
<1>3. CASE calls' = <<>>
  <2>1. Len(calls') = 0 /\ Same(Storage', committed') /\ Same(committed', Storage')
    BY <1>3 DEF Same
  <2>2. Good(committed', calls', 0, committed, now, routes)
    BY <2>1, GoodSame DEF Same
  <2>3. Good(committed', calls', 0, committed', now, routes)
    BY <2>2, NothingSinceCommit DEF Good, Same
  <2>4. Good(Storage', calls', 0, committed', now, routes)
    BY <2>1, <2>3, GoodSame DEF Same
  <2>5. StackOK(calls', committed', now, routes)
    BY <1>3, <2>1 DEF StackOK
  <2>6. V2Inv'
    BY <1>1, <1>3, <2>1, <2>3, <2>4, <2>5 DEF V2Inv, AtRest
  <2> DEFINE c == committed
             d == committed'
  <2>7. /\ DOMAIN c.received = DOMAIN c.requests
        /\ DOMAIN d.received = DOMAIN d.requests
        /\ DOMAIN c.requests \subseteq DOMAIN d.requests
    BY <1>1, <2>2 DEF Good, IsStorage, SinceCommit
  <2>8. ASSUME NEW q \in DOMAIN c.requests PROVE Register!KeepsPromise(q)
    <3>1. /\ Took(c, q) /\ Took(d, q)
          /\ c.requests[q] \in SomeRequest /\ d.requests[q] \in SomeRequest
          /\ d.requests[q].status = "Dispatched" <=> d.requests[q].resultHash = NoHash
          /\ c.requests[q].status = "CallbackExecuted" => d.requests[q].status = "CallbackExecuted"
          /\ d.requests[q].resultHash # c.requests[q].resultHash =>
               c.requests[q].resultHash = NoHash /\ now <= q.expiry
      BY <1>1, <2>2, <2>7 DEF Good, RequestsOK, SinceCommit, IsStorage
    <3>2. /\ VerdictOn(d.requests[q]) # VerdictOn(c.requests[q]) =>
               /\ VerdictOn(c.requests[q]) = "None"
               /\ VerdictOn(d.requests[q]) \in ResultHashes
               /\ now <= q.expiry
      <4>1. d.requests[q].resultHash = NoHash => c.requests[q].resultHash = NoHash
        BY <3>1
      <4>2. QED BY <3>1, <4>1 DEF VerdictOn, SomeRequest
    <3>3. Len(d.received[q]) # Len(c.received[q]) =>
               /\ Len(c.received[q]) = 0
               /\ Len(d.received[q]) = 1
               /\ VerdictOn(d.requests[q]) # "None"
      <4>1. Len(d.received[q]) # Len(c.received[q]) =>
               /\ Len(c.received[q]) = 0
               /\ Len(d.received[q]) = 1
               /\ d.requests[q].status = "CallbackExecuted"
        <5>1. Len(<<>>) = 0
          OBVIOUS
        <5>2. QED BY <3>1, <5>1 DEF Took
      <4>2. d.requests[q].status = "CallbackExecuted" => d.requests[q].resultHash \in ResultHashes
        BY <3>1 DEF SomeRequest
      <4>3. QED BY <4>1, <4>2, V2Constants DEF VerdictOn
    <3>4. q \in DOMAIN d.requests
      BY <2>7
    <3>5. QED BY <2>7, <3>2, <3>3, <3>4 DEF Register!KeepsPromise
  <2>9. ASSUME NEW q \in DOMAIN d.requests \ DOMAIN c.requests PROVE Register!AcceptedFresh(q)
    <3>1. /\ d.requests[q].status = "Dispatched" /\ now < q.expiry
          /\ d.requests[q].resultHash = NoHash /\ d.received[q] = <<>>
      BY <2>2 DEF Good, RequestsOK, SinceCommit, Took
    <3>2. QED BY <2>7, <3>1 DEF Register!AcceptedFresh, VerdictOn
  <2>10. Register!Transact
    BY <2>7, <2>8, <2>9 DEF Register!Transact
  <2>11. QED BY <2>6, <2>10 DEF RegisterStep, Register!RegisterNext
<1>4. QED BY <1>2, <1>3

-----------------------------------------------------------------------------
(***************************************************************************)
(* What the steps do to a storage.                                         *)
(***************************************************************************)
Fresh == [status |-> "Dispatched", callbackLocked |-> FALSE,
          resultTxHash |-> NoHash, resultHash |-> NoHash]

Asked(s, t, id, income) ==
  /\ t.requests = [q \in DOMAIN s.requests \cup {id} |->
                     IF q = id THEN Fresh ELSE s.requests[q]]
  /\ t.received = [q \in DOMAIN s.received \cup {id} |->
                     IF q = id THEN <<>> ELSE s.received[q]]
  /\ t.latestNonce = [s.latestNonce EXCEPT ![id.requester] = id.nonce]
  /\ t.accruedFees = s.accruedFees + income /\ t.balance = s.balance + income

(* Only request id changed, and became e. *)
Became(s, t, id, e) ==
  /\ t.requests = [s.requests EXCEPT ![id] = e]
  /\ t.latestNonce = s.latestNonce /\ t.accruedFees = s.accruedFees
  /\ t.balance = s.balance

(* The callback of request id took a result. *)
TookOne(s, t, id, result) ==
  t.received = [s.received EXCEPT ![id] = Append(@, result)]

(* What _attemptCallback may make of a request before it calls. *)
Locked(s, id, e, clock) ==
  /\ ~s.requests[id].callbackLocked
  /\ e \in SomeRequest /\ e.callbackLocked /\ e.status = "CallbackPending"
  /\ e.resultHash # NoHash
  /\ \/ e.resultHash = s.requests[id].resultHash
     \/ s.requests[id].resultHash = NoHash /\ clock <= id.expiry

(* The stack gs is the first n calls of fs and f on top of them, m in all. *)
Extended(fs, n, gs, m, f) ==
  /\ n \in Nat /\ m = n + 1
  /\ \A i \in 1 .. n : gs[i] = fs[i]
  /\ gs[m] = f

(* The stack gs is the first m calls of fs, which has one more. *)
Shortened(fs, n, gs, m) ==
  /\ n = Len(fs) /\ n \in Nat /\ n >= 1 /\ m = n - 1
  /\ \A i \in 1 .. m : gs[i] = fs[i]

(* requestRoute adds a request. *)
LEMMA AskKeepsGood ==
  ASSUME NEW s, NEW t, NEW fs, NEW n, NEW c, NEW clock, NEW table,
         Good(s, fs, n, c, clock, table),
         NEW id \in RequestIds, id \notin DOMAIN s.requests,
         Follows(id, table), clock < id.expiry, NEW income \in Nat,
         Asked(s, t, id, income)
  PROVE  Good(t, fs, n, c, clock, table)
<1> USE DEF Asked
<1>1. IsStorage(s) /\ RequestsOK(s, table) /\ LocksOK(s, fs, n) /\ CallsOK(s, fs, n)
      /\ SinceCommit(c, s, clock)
  BY DEF Good
<1>2. Fresh \in SomeRequest /\ Fresh.status = "Dispatched" /\ ~Fresh.callbackLocked
      /\ Fresh.resultHash = NoHash
  BY DEF Fresh, SomeRequest
<1> HIDE DEF Fresh
<1>3. /\ DOMAIN t.requests = DOMAIN s.requests \cup {id}
      /\ t.requests[id] = Fresh /\ t.received[id] = <<>>
      /\ \A q \in DOMAIN s.requests :
           /\ q # id /\ t.requests[q] = s.requests[q] /\ t.received[q] = s.received[q]
  BY <1>1 DEF IsStorage
<1>4. IsStorage(t)
  <2>1. id.nonce \in Nat /\ t.latestNonce \in [Applications -> Nat]
    BY <1>1, V2Constants DEF RequestIds, IsStorage
  <2>2. <<>> \in Seq(ResultBytes)
    OBVIOUS
  <2>3. t.received \in [DOMAIN t.requests -> Seq(ResultBytes)]
    BY <1>1, <1>3, <2>2 DEF IsStorage
  <2>4. t.requests \in [DOMAIN t.requests -> SomeRequest]
    BY <1>1, <1>2, <1>3 DEF IsStorage
  <2>5. QED BY <1>1, <1>3, <2>1, <2>3, <2>4 DEF IsStorage
<1>5. RequestsOK(t, table)
  <2> SUFFICES ASSUME NEW q \in DOMAIN s.requests \cup {id}
               PROVE  /\ Follows(q, table) /\ Took(t, q)
                      /\ t.requests[q].status = "Dispatched" <=> t.requests[q].resultHash = NoHash
    BY <1>3 DEF RequestsOK
  <2>1. CASE q = id
    BY <2>1, <1>2, <1>3 DEF Took
  <2>2. CASE q # id
    BY <2>2, <1>1, <1>3 DEF RequestsOK, Took
  <2>3. QED BY <2>1, <2>2
<1>6. ~IsCalled(fs, n, id)
  BY <1>1 DEF CallsOK, IsCalled
<1>7. LocksOK(t, fs, n)
  BY <1>1, <1>2, <1>3, <1>6 DEF LocksOK
<1>8. CallsOK(t, fs, n)
  BY <1>1, <1>3 DEF CallsOK
<1>9. SinceCommit(c, t, clock)
  BY <1>1, <1>2, <1>3 DEF SinceCommit
<1>10. QED BY <1>4, <1>5, <1>7, <1>8, <1>9 DEF Good

(* _attemptCallback locks a request for the call that is pushed, with the  *)
(* hash of the bytes it carries.                                           *)
LEMMA EnterKeepsGood ==
  ASSUME NEW s, NEW t, NEW fs, NEW n, NEW gs, NEW m, NEW f, NEW c, NEW clock, NEW table,
         Good(s, fs, n, c, clock, table), Extended(fs, n, gs, m, f),
         NEW id \in DOMAIN c.requests, NEW e, Locked(s, id, e, clock), Became(s, t, id, e),
         t.received = s.received,
         f.kind = "callback", f.request = id, HashOf(f.result) = e.resultHash
  PROVE  /\ Good(t, gs, m, c, clock, table)
         /\ ~IsCalled(fs, n, id)
<1> USE DEF Extended, Locked, Became
<1>1. IsStorage(s) /\ RequestsOK(s, table) /\ LocksOK(s, fs, n) /\ CallsOK(s, fs, n)
      /\ SinceCommit(c, s, clock)
  BY DEF Good
<1>2. id \in DOMAIN s.requests
  BY <1>1 DEF SinceCommit
<1>3. /\ DOMAIN t.requests = DOMAIN s.requests
      /\ t.requests[id] = e
      /\ \A q \in DOMAIN s.requests : q # id => t.requests[q] = s.requests[q]
  BY <1>1, <1>2 DEF IsStorage
<1>4. IsStorage(t)
  BY <1>1, <1>2 DEF IsStorage
<1>5. s.requests[id].status # "CallbackExecuted" /\ ~IsCalled(fs, n, id)
  BY <1>1, <1>2 DEF LocksOK
<1>6. RequestsOK(t, table)
  BY <1>1, <1>2, <1>3, <1>5 DEF RequestsOK, Took
<1>7. \A q : IsCalled(gs, m, q) <=> IsCalled(fs, n, q) \/ q = id
  BY DEF IsCalled
<1>8. LocksOK(t, gs, m)
  BY <1>1, <1>3, <1>7 DEF LocksOK
<1>9. CallsOK(t, gs, m)
  <2> SUFFICES ASSUME NEW i \in 1 .. m, gs[i].kind = "callback"
               PROVE  /\ gs[i].request \in DOMAIN t.requests
                      /\ t.requests[gs[i].request].status = "CallbackPending"
                      /\ t.requests[gs[i].request].resultHash = HashOf(gs[i].result)
    BY DEF CallsOK
  <2>1. CASE i = m
    BY <2>1, <1>2, <1>3
  <2>2. CASE i \in 1 .. n
    <3>1. gs[i] = fs[i] /\ gs[i].request # id
      BY <2>2, <1>5 DEF IsCalled
    <3>2. QED BY <2>2, <3>1, <1>1, <1>3 DEF CallsOK
  <2>3. QED BY <2>1, <2>2
<1>10. SinceCommit(c, t, clock)
  <2>1. ASSUME NEW q \in DOMAIN c.requests
        PROVE  /\ t.requests[q].resultHash # c.requests[q].resultHash =>
                    c.requests[q].resultHash = NoHash /\ clock <= q.expiry
               /\ c.requests[q].status = "CallbackExecuted" =>
                    t.requests[q].status = "CallbackExecuted"
    <3>1. CASE q = id
      <4>1. s.requests[id].status # "CallbackExecuted" => c.requests[id].status # "CallbackExecuted"
        BY <1>1 DEF SinceCommit
      <4>2. s.requests[id].resultHash # c.requests[id].resultHash =>
              c.requests[id].resultHash = NoHash /\ clock <= id.expiry
        BY <1>1 DEF SinceCommit
      <4>3. QED BY <3>1, <4>1, <4>2, <1>3, <1>5
    <3>2. CASE q # id
      <4>1. q \in DOMAIN s.requests
        BY <1>1 DEF SinceCommit
      <4>2. QED BY <3>2, <4>1, <1>1, <1>3 DEF SinceCommit
    <3>3. QED BY <3>1, <3>2
  <2>2. QED BY <2>1, <1>1, <1>3 DEF SinceCommit
<1>11. QED BY <1>4, <1>5, <1>6, <1>8, <1>9, <1>10 DEF Good

(* A callback on top returns: its request is executed, and stays locked. *)
LEMMA SucceedKeepsGood ==
  ASSUME NEW s, NEW t, NEW fs, NEW n, NEW gs, NEW m, NEW c, NEW clock, NEW table,
         StackOK(fs, c, clock, table), Shortened(fs, n, gs, m),
         Good(s, fs, n, c, clock, table), fs[n].kind = "callback", NEW id, id = fs[n].request,
         fs[n].result \in ResultBytes,
         Became(s, t, id, [s.requests[id] EXCEPT !.status = "CallbackExecuted"]),
         TookOne(s, t, id, fs[n].result)
  PROVE  Good(t, gs, m, c, clock, table)
<1>1. IsStorage(s) /\ RequestsOK(s, table) /\ LocksOK(s, fs, n) /\ CallsOK(s, fs, n)
      /\ SinceCommit(c, s, clock)
  BY DEF Good
<1>2. /\ id \in DOMAIN s.requests /\ s.requests[id].status = "CallbackPending"
      /\ s.requests[id].resultHash = HashOf(fs[n].result)
      /\ s.requests[id] \in SomeRequest
      /\ s.received[id] = <<>>
  <2>1. n \in 1 .. n
    BY DEF Shortened
  <2>2. /\ id \in DOMAIN s.requests /\ s.requests[id].status = "CallbackPending"
        /\ s.requests[id].resultHash = HashOf(fs[n].result)
    BY <2>1, <1>1 DEF CallsOK
  <2>3. QED BY <2>2, <1>1 DEF IsStorage, RequestsOK, Took
<1>13. m \in Nat /\ n \in Nat /\ n = Len(fs) /\ n >= 1 /\ m = n - 1
       /\ \A i \in 1 .. m : gs[i] = fs[i]
  BY DEF Shortened
<1> DEFINE e == [s.requests[id] EXCEPT !.status = "CallbackExecuted"]
<1>3. /\ e \in SomeRequest /\ e.status = "CallbackExecuted"
      /\ e.callbackLocked = s.requests[id].callbackLocked
      /\ e.resultHash = s.requests[id].resultHash
      /\ t.requests = [s.requests EXCEPT ![id] = e]
  BY <1>2 DEF SomeRequest, Became
<1> HIDE DEF e
<1>4. /\ DOMAIN t.requests = DOMAIN s.requests
      /\ t.requests[id] = e
      /\ \A q \in DOMAIN s.requests : q # id =>
           t.requests[q] = s.requests[q] /\ t.received[q] = s.received[q]
      /\ t.received[id] = Append(<<>>, fs[n].result)
  BY <1>1, <1>2, <1>3 DEF IsStorage, TookOne
<1>5. /\ t.received[id] \in Seq(ResultBytes)
      /\ Len(t.received[id]) = 1 /\ t.received[id][1] = fs[n].result
  <2> DEFINE took == fs[n].result
  <2>1. t.received[id] = Append(<<>>, took) /\ took \in ResultBytes
    BY <1>4
  <2> HIDE DEF took
  <2>2. /\ Append(<<>>, took) \in Seq(ResultBytes)
        /\ Len(Append(<<>>, took)) = 1 /\ Append(<<>>, took)[1] = took
    BY <2>1
  <2>3. QED BY <2>1, <2>2 DEF took
<1>6. IsStorage(t)
  <2>1. t.received \in [DOMAIN t.requests -> Seq(ResultBytes)]
    BY <1>1, <1>2, <1>4, <1>5 DEF IsStorage, TookOne
  <2>2. s.requests \in [DOMAIN s.requests -> SomeRequest]
    BY <1>1 DEF IsStorage
  <2>3. t.requests \in [DOMAIN s.requests -> SomeRequest]
    BY <2>2, <1>3
  <2>4. QED BY <2>1, <2>3, <1>1, <1>4 DEF IsStorage, Became
<1>7. RequestsOK(t, table)
  <2> SUFFICES ASSUME NEW q \in DOMAIN s.requests
               PROVE  /\ Follows(q, table) /\ Took(t, q)
                      /\ t.requests[q].status = "Dispatched" <=> t.requests[q].resultHash = NoHash
    BY <1>4 DEF RequestsOK
  <2>1. CASE q = id
    <3>1. Follows(id, table)
      BY <1>1, <1>2 DEF RequestsOK
    <3>2. Took(t, id)
      BY <1>2, <1>3, <1>4, <1>5 DEF Took
    <3>3. t.requests[id].status # "Dispatched" /\ t.requests[id].resultHash # NoHash
      <4>1. s.requests[id].resultHash # NoHash
        BY <1>1, <1>2 DEF RequestsOK
      <4>2. QED BY <4>1, <1>3, <1>4
    <3>4. QED BY <2>1, <3>1, <3>2, <3>3
  <2>2. CASE q # id
    BY <2>2, <1>1, <1>4 DEF RequestsOK, Took
  <2>3. QED BY <2>1, <2>2
<1>8. \A q : IsCalled(gs, m, q) <=> IsCalled(fs, n, q) /\ q # id
  <2>1. n \in Nat /\ n = Len(fs) /\ n >= 1 /\ m = n - 1
    BY <1>13
  <2>2. \A q : IsCalled(fs, n - 1, q) <=> IsCalled(fs, n, q) /\ q # fs[n].request
    BY ONLY StackOK(fs, c, clock, table), fs[n].kind = "callback", <2>1, CalledOnTop
  <2>3. \A q : IsCalled(gs, m, q) <=> IsCalled(fs, n - 1, q)
    BY <1>13 DEF IsCalled
  <2>4. QED BY <2>2, <2>3
<1>9. LocksOK(t, gs, m)
  <2> SUFFICES ASSUME NEW q \in DOMAIN s.requests
               PROVE  t.requests[q].callbackLocked <=>
                        t.requests[q].status = "CallbackExecuted" \/ IsCalled(gs, m, q)
    BY <1>4 DEF LocksOK
  <2>1. CASE q = id
    <3>1. IsCalled(fs, n, id)
      BY <1>13 DEF IsCalled
    <3>2. s.requests[id].callbackLocked
      BY <3>1, <1>1, <1>2 DEF LocksOK
    <3>3. QED BY <2>1, <3>2, <1>3, <1>4
  <2>2. CASE q # id
    BY <2>2, <1>1, <1>4, <1>8 DEF LocksOK
  <2>3. QED BY <2>1, <2>2
<1>10. CallsOK(t, gs, m)
  <2> SUFFICES ASSUME NEW i \in 1 .. m, fs[i].kind = "callback"
               PROVE  /\ fs[i].request \in DOMAIN t.requests
                      /\ t.requests[fs[i].request].status = "CallbackPending"
                      /\ t.requests[fs[i].request].resultHash = HashOf(fs[i].result)
    BY <1>13 DEF CallsOK
  <2>1. fs[i].request # id /\ i \in 1 .. n
    BY <1>13 DEF StackOK
  <2>2. QED BY <2>1, <1>1, <1>4 DEF CallsOK
<1>11. SinceCommit(c, t, clock)
  <2>1. id \in DOMAIN c.requests
    BY <1>1, <1>2 DEF SinceCommit
  <2>2. \A q \in DOMAIN s.requests :
          /\ t.requests[q].resultHash = s.requests[q].resultHash
          /\ q # id => t.requests[q].status = s.requests[q].status
    BY <1>3, <1>4
  <2>3. DOMAIN c.requests \subseteq DOMAIN s.requests
    BY <1>1 DEF SinceCommit
  <2>4. ASSUME NEW q \in DOMAIN c.requests, c.requests[q].status = "CallbackExecuted"
        PROVE  t.requests[q].status = "CallbackExecuted"
    <3>1. q \in DOMAIN s.requests /\ s.requests[q].status = "CallbackExecuted"
      BY <2>3, <2>4, <1>1 DEF SinceCommit
    <3>2. QED BY <3>1, <2>2, <1>2
  <2>5. ASSUME NEW q \in DOMAIN s.requests \ DOMAIN c.requests
        PROVE  t.requests[q].status = "Dispatched" /\ clock < q.expiry
    BY <2>1, <2>2, <1>1 DEF SinceCommit
  <2>6. QED BY <2>2, <2>3, <2>4, <2>5, <1>1, <1>4 DEF SinceCommit
<1>12. QED BY <1>6, <1>7, <1>9, <1>10, <1>11 DEF Good

(* A callback on top fails: what it saved comes back, unlocked. *)
LEMMA FailKeepsGood ==
  ASSUME NEW s, NEW t, NEW fs, NEW n, NEW gs, NEW m, NEW c, NEW clock, NEW table,
         StackOK(fs, c, clock, table), Shortened(fs, n, gs, m),
         Good(s, fs, n, c, clock, table), fs[n].kind = "callback", NEW id, id = fs[n].request,
         Became(s, t, id, [s.requests[id] EXCEPT !.callbackLocked = FALSE]),
         t.received = s.received
  PROVE  Good(t, gs, m, c, clock, table)
<1>1. IsStorage(s) /\ RequestsOK(s, table) /\ LocksOK(s, fs, n) /\ CallsOK(s, fs, n)
      /\ SinceCommit(c, s, clock)
  BY DEF Good
<1>2. /\ id \in DOMAIN s.requests /\ s.requests[id].status = "CallbackPending"
      /\ s.requests[id] \in SomeRequest
  <2>1. n \in 1 .. n
    BY DEF Shortened
  <2>2. id \in DOMAIN s.requests /\ s.requests[id].status = "CallbackPending"
    BY <2>1, <1>1 DEF CallsOK
  <2>3. QED BY <2>2, <1>1 DEF IsStorage
<1>13. m \in Nat /\ n \in Nat /\ n = Len(fs) /\ n >= 1 /\ m = n - 1
       /\ \A i \in 1 .. m : gs[i] = fs[i]
  BY DEF Shortened
<1> DEFINE e == [s.requests[id] EXCEPT !.callbackLocked = FALSE]
<1>3. /\ e \in SomeRequest /\ e.status = "CallbackPending" /\ ~e.callbackLocked
      /\ e.resultHash = s.requests[id].resultHash
      /\ t.requests = [s.requests EXCEPT ![id] = e]
  BY <1>2 DEF SomeRequest, Became
<1> HIDE DEF e
<1>4. /\ DOMAIN t.requests = DOMAIN s.requests
      /\ t.requests[id] = e
      /\ \A q \in DOMAIN s.requests : q # id => t.requests[q] = s.requests[q]
  BY <1>1, <1>2, <1>3 DEF IsStorage
<1>5. IsStorage(t)
  <2>1. s.requests \in [DOMAIN s.requests -> SomeRequest]
    BY <1>1 DEF IsStorage
  <2>2. t.requests \in [DOMAIN s.requests -> SomeRequest]
    BY <2>1, <1>3
  <2>3. QED BY <2>2, <1>1, <1>4 DEF IsStorage, Became
<1>6. RequestsOK(t, table)
  <2> SUFFICES ASSUME NEW q \in DOMAIN s.requests
               PROVE  /\ Follows(q, table) /\ Took(t, q)
                      /\ t.requests[q].status = "Dispatched" <=> t.requests[q].resultHash = NoHash
    BY <1>4 DEF RequestsOK
  <2>1. /\ t.requests[q].resultHash = s.requests[q].resultHash
        /\ t.requests[q].status = s.requests[q].status
    BY <1>2, <1>3, <1>4
  <2>2. QED BY <2>1, <1>1 DEF RequestsOK, Took
<1>7. \A q : IsCalled(gs, m, q) <=> IsCalled(fs, n, q) /\ q # id
  <2>1. n \in Nat /\ n = Len(fs) /\ n >= 1 /\ m = n - 1
    BY <1>13
  <2>2. \A q : IsCalled(fs, n - 1, q) <=> IsCalled(fs, n, q) /\ q # fs[n].request
    BY ONLY StackOK(fs, c, clock, table), fs[n].kind = "callback", <2>1, CalledOnTop
  <2>3. \A q : IsCalled(gs, m, q) <=> IsCalled(fs, n - 1, q)
    BY <1>13 DEF IsCalled
  <2>4. QED BY <2>2, <2>3
<1>8. LocksOK(t, gs, m)
  <2> SUFFICES ASSUME NEW q \in DOMAIN s.requests
               PROVE  t.requests[q].callbackLocked <=>
                        t.requests[q].status = "CallbackExecuted" \/ IsCalled(gs, m, q)
    BY <1>4 DEF LocksOK
  <2>1. CASE q = id
    BY <2>1, <1>3, <1>4, <1>7
  <2>2. CASE q # id
    BY <2>2, <1>1, <1>4, <1>7 DEF LocksOK
  <2>3. QED BY <2>1, <2>2
<1>9. CallsOK(t, gs, m)
  <2> SUFFICES ASSUME NEW i \in 1 .. m, fs[i].kind = "callback"
               PROVE  /\ fs[i].request \in DOMAIN t.requests
                      /\ t.requests[fs[i].request].status = "CallbackPending"
                      /\ t.requests[fs[i].request].resultHash = HashOf(fs[i].result)
    BY <1>13 DEF CallsOK
  <2>1. fs[i].request # id /\ i \in 1 .. n
    BY <1>13 DEF StackOK
  <2>2. QED BY <2>1, <1>1, <1>4 DEF CallsOK
<1>10. SinceCommit(c, t, clock)
  <2>1. id \in DOMAIN c.requests
    BY <1>1, <1>2 DEF SinceCommit
  <2>2. c.requests[id].status # "CallbackExecuted"
    BY <2>1, <1>1, <1>2 DEF SinceCommit
  <2>3. \A q \in DOMAIN s.requests :
          /\ t.requests[q].resultHash = s.requests[q].resultHash
          /\ t.requests[q].status = s.requests[q].status
    BY <1>2, <1>3, <1>4
  <2>4. QED BY <2>1, <2>2, <2>3, <1>1, <1>4 DEF SinceCommit
<1>11. QED BY <1>5, <1>6, <1>8, <1>9, <1>10 DEF Good

-----------------------------------------------------------------------------
(***************************************************************************)
(* The steps.                                                              *)
(***************************************************************************)
LEMMA CommitSame ==
  ASSUME Commit
  PROVE  /\ calls' # <<>> => committed' = committed
         /\ calls' = <<>> => Same(Storage', committed')
BY DEF Commit, Same

(* The steps elsewhere leave the clock and the routes. *)
LEMMA ElsewhereSame == Elsewhere => now' = now /\ routes' = routes
BY DEF Elsewhere, registryVars

(* requestRoute *)
LEMMA RequestStep ==
  ASSUME V2Inv, NEW id \in RequestIds, NEW deliveryFee \in 0 .. RequestFee,
         RequestRoute(id, RequestFee, deliveryFee)
  PROVE  V2Inv' /\ RegisterStep
<1> DEFINE income == RequestFee - deliveryFee
           s == Storage
           t == Storage'
<1>1. /\ now \in Nat /\ Good(s, calls, Len(calls), committed, now, routes)
      /\ StackOK(calls, committed, now, routes)
  BY DEF V2Inv
<1>2. /\ calls' = calls /\ Elsewhere /\ Commit
      /\ id \notin DOMAIN s.requests /\ id.expiry > now /\ Follows(id, routes)
  BY StorageIs DEF RequestRoute, CanRequest, RouteIsOpen, Follows
<1>3. income \in Nat
  BY V2Constants
<1>4. id.expiry \in Nat
  BY V2Constants DEF RequestIds, Times
<1>5. now < id.expiry
  BY <1>1, <1>2, <1>4
<1>6. s.accruedFees \in Nat /\ s.balance \in Nat
  BY <1>1 DEF Good, IsStorage
<1>7. Asked(s, t, id, income)
  <2>1. /\ t.requests = [q \in DOMAIN s.requests \cup {id} |->
                           IF q = id THEN Fresh ELSE s.requests[q]]
        /\ t.received = [q \in DOMAIN s.received \cup {id} |->
                           IF q = id THEN <<>> ELSE s.received[q]]
        /\ t.latestNonce = [s.latestNonce EXCEPT ![id.requester] = id.nonce]
    BY StorageIs DEF RequestRoute, Fresh
  <2>2. t.accruedFees = s.accruedFees + income /\ t.balance = s.balance + income
    BY <1>6, StorageIs, V2Constants DEF RequestRoute
  <2>3. QED BY <2>1, <2>2 DEF Asked
<1> HIDE DEF s, t, income
<1>9. Good(t, calls, Len(calls), committed, now, routes)
  BY <1>1, <1>2, <1>3, <1>5, <1>7, AskKeepsGood
<1>10. QED BY <1>1, <1>2, <1>9, CommitSame, ElsewhereSame, GoesOn DEF t

(* _attemptCallback, up to the call, for a request of an earlier           *)
(* transaction: by handleResult with a new hash, by retryCallback with the *)
(* recorded one.                                                           *)
LEMMA AttemptStep ==
  ASSUME V2Inv, NEW id \in DOMAIN committed.requests, NEW r \in SomeRequest,
         NEW result \in ResultBytes, AttemptCallback(id, r, result),
         r.callbackLocked = requests[id].callbackLocked,
         r.resultHash = HashOf(result),
         \/ r.resultHash = requests[id].resultHash
         \/ requests[id].resultHash = NoHash /\ now <= id.expiry
  PROVE  V2Inv' /\ RegisterStep
<1> DEFINE e == [r EXCEPT !.callbackLocked = TRUE, !.status = "CallbackPending"]
           s == Storage
           t == Storage'
           f == [kind |-> "callback", request |-> id, result |-> result, saved |-> t]
           n == Len(calls)
<1>1. /\ now \in Nat /\ Good(s, calls, n, committed, now, routes)
      /\ StackOK(calls, committed, now, routes)
      /\ Good(committed, calls, 0, committed, now, routes)
  BY DEF V2Inv
<1>2. /\ calls' = Append(calls, f) /\ Elsewhere /\ Commit
      /\ ~s.requests[id].callbackLocked
  BY StorageIs DEF AttemptCallback, IsUnlocked
<1>3. Became(s, t, id, e) /\ t.received = s.received
  BY StorageIs DEF AttemptCallback, Became
<1>4. e \in SomeRequest /\ e.callbackLocked /\ e.status = "CallbackPending"
      /\ e.resultHash = HashOf(result)
  BY DEF SomeRequest
<1>5. e.resultHash # NoHash
  BY <1>4, V2Constants DEF ResultHashes
<1>6. \/ e.resultHash = s.requests[id].resultHash
      \/ s.requests[id].resultHash = NoHash /\ now <= id.expiry
  BY <1>4, StorageIs
<1>7. /\ f.kind = "callback" /\ f.request = id /\ f.result = result /\ f.saved = t
      /\ t = [requests |-> t.requests, latestNonce |-> t.latestNonce,
               accruedFees |-> t.accruedFees, balance |-> t.balance,
               received |-> t.received]
  BY DEF Storage
<1>8. id \in RequestIds /\ Locked(s, id, e, now)
  BY <1>1, <1>2, <1>4, <1>5, <1>6 DEF Good, IsStorage, Locked
<1>9. t \in SomeStorage => f \in SomeCall
  BY <1>8 DEF SomeCall
<1>10. /\ n \in Nat /\ Len(calls') = n + 1
       /\ \A i \in 1 .. n : calls'[i] = calls[i]
       /\ calls'[n + 1] = f
  BY <1>1, <1>2 DEF StackOK
<1> DEFINE m == n + 1
<1>15. Extended(calls, n, calls', m, f)
  BY <1>10 DEF Extended
<1>16. HashOf(f.result) = e.resultHash
  BY <1>4, <1>7
<1> HIDE DEF e, s, t, f, n, m
<1>11. /\ Good(t, calls', m, committed, now, routes)
       /\ ~IsCalled(calls, n, id)
  BY <1>1, <1>3, <1>7, <1>8, <1>15, <1>16, EnterKeepsGood
<1>12. f \in SomeCall
  BY <1>7, <1>9, <1>11, StorageIsTyped DEF Good
<1>13. StackOK(calls', committed, now, routes)
  <2>1. Good(f.saved, Append(calls, f), Len(calls) + 1, committed, now, routes)
    BY <1>2, <1>7, <1>11 DEF n, m
  <2>2. f.kind = "callback" => ~IsCalled(calls, Len(calls), f.request)
    BY <1>7, <1>11 DEF n
  <2>3. QED BY <1>1, <1>2, <1>12, <2>1, <2>2, PushOK
<1>14. QED BY <1>2, <1>10, <1>11, <1>13, CommitSame, ElsewhereSame, GoesOn DEF t, m

(* handleResult *)
LEMMA HandleStep ==
  ASSUME V2Inv, NEW id \in DOMAIN committed.requests, NEW sender, NEW txHash \in TxHashes,
         NEW result \in ResultBytes, HandleResult(sender, id, txHash, result)
  PROVE  V2Inv' /\ RegisterStep
<1> DEFINE r == [requests[id] EXCEPT !.resultTxHash = txHash, !.resultHash = HashOf(result),
                                     !.status = "Finalized"]
           u == [requests[id] EXCEPT !.resultTxHash = txHash, !.resultHash = HashOf(result)]
<1>1. Good(Storage, calls, Len(calls), committed, now, routes)
  BY DEF V2Inv
<1>2. id \in DOMAIN requests /\ requests[id].status = "Dispatched" /\ now <= id.expiry
      /\ AttemptCallback(id, r, result)
  BY DEF HandleResult, InTime
<1>3. requests[id] \in SomeRequest /\ requests[id].resultHash = NoHash
  BY <1>1, <1>2, StorageIs DEF Good, IsStorage, RequestsOK
<1>4. HashOf(result) \in ResultHashes
  BY DEF ResultHashes
<1>5. /\ u \in SomeRequest /\ u.callbackLocked = requests[id].callbackLocked
      /\ u.resultHash = HashOf(result)
  BY <1>3, <1>4 DEF SomeRequest
<1>6. AttemptCallback(id, u, result)
  BY <1>2, <1>3 DEF AttemptCallback, IsUnlocked, SomeRequest
<1> HIDE DEF u
<1>7. QED BY <1>2, <1>3, <1>5, <1>6, AttemptStep

(* retryCallback *)
LEMMA RetryStep ==
  ASSUME V2Inv, NEW id \in DOMAIN requests, NEW result \in ResultBytes,
         RetryCallback(id, result)
  PROVE  V2Inv' /\ RegisterStep
<1>1. Good(Storage, calls, Len(calls), committed, now, routes)
  BY DEF V2Inv
<1>2. /\ requests[id].status = "CallbackPending" /\ HashOf(result) = requests[id].resultHash
      /\ AttemptCallback(id, requests[id], result)
  BY DEF RetryCallback, IsTheResult
<1>3. requests[id] \in SomeRequest /\ id \in DOMAIN committed.requests
  BY <1>1, <1>2, StorageIs DEF Good, IsStorage, SinceCommit
<1>4. QED BY <1>2, <1>3, AttemptStep

(* _attemptCallback, after the call *)
LEMMA SucceedStep ==
  ASSUME V2Inv, CallbackSucceeds
  PROVE  V2Inv' /\ RegisterStep
<1> DEFINE s == Storage
           t == Storage'
           n == Len(calls)
           id == calls[n].request
<1>1. /\ Good(s, calls, n, committed, now, routes) /\ StackOK(calls, committed, now, routes)
  BY DEF V2Inv
<1>2. /\ calls # <<>> /\ Innermost.kind = "callback" /\ Leave /\ Elsewhere /\ Commit
  BY DEF CallbackSucceeds, InCallback, AtRest
<1>3. /\ StackOK(calls', committed, now, routes)
      /\ n \in Nat /\ n >= 1 /\ Len(calls') = n - 1
      /\ \A i \in 1 .. n - 1 : calls'[i] = calls[i]
      /\ Innermost = calls[n] /\ Innermost \in SomeCall
  BY <1>1, <1>2, PopOK
<1>4. calls[n].kind = "callback" /\ calls[n].result \in ResultBytes
  BY <1>2, <1>3 DEF SomeCall
<1>5. /\ Became(s, t, id, [s.requests[id] EXCEPT !.status = "CallbackExecuted"])
      /\ TookOne(s, t, id, calls[n].result)
  BY <1>3, StorageIs DEF CallbackSucceeds, Became, TookOne
<1> DEFINE m == n - 1
<1>6. Shortened(calls, n, calls', m) /\ id = calls[n].request
  BY <1>3 DEF Shortened
<1> HIDE DEF s, t, n, id, m
<1>7. Good(t, calls', m, committed, now, routes)
  BY <1>1, <1>4, <1>5, <1>6, SucceedKeepsGood
<1>8. QED BY <1>2, <1>3, <1>7, CommitSame, ElsewhereSame, GoesOn DEF t, m

(* _attemptCallback, when the callback reverts *)
LEMMA FailStep ==
  ASSUME V2Inv, CallbackFails
  PROVE  V2Inv' /\ RegisterStep
<1> DEFINE s == Innermost.saved
           t == Storage'
           n == Len(calls)
           id == Innermost.request
<1>1. /\ StackOK(calls, committed, now, routes)
  BY DEF V2Inv
<1>2. /\ calls # <<>> /\ Innermost.kind = "callback" /\ Leave /\ Elsewhere /\ Commit
  BY DEF CallbackFails, InCallback, AtRest
<1>3. /\ StackOK(calls', committed, now, routes)
      /\ n \in Nat /\ n >= 1 /\ Len(calls') = n - 1
      /\ \A i \in 1 .. n - 1 : calls'[i] = calls[i]
      /\ Innermost = calls[n] /\ Innermost \in SomeCall
      /\ Good(s, calls, n, committed, now, routes)
  BY <1>1, <1>2, PopOK
<1>4. calls[n].kind = "callback" /\ id = calls[n].request /\ s \in SomeStorage
  BY <1>2, <1>3 DEF SomeCall
<1>5. /\ t.requests = UnlockAfterFailure(s, id).requests
      /\ t.received = UnlockAfterFailure(s, id).received
      /\ t.latestNonce = UnlockAfterFailure(s, id).latestNonce
      /\ t.accruedFees = UnlockAfterFailure(s, id).accruedFees
      /\ t.balance = UnlockAfterFailure(s, id).balance
  BY StorageIs DEF CallbackFails, Restore
<1> HIDE DEF s, t, n, id
<1>6. /\ UnlockAfterFailure(s, id).requests =
           [s.requests EXCEPT ![id] = [s.requests[id] EXCEPT !.callbackLocked = FALSE]]
      /\ UnlockAfterFailure(s, id).received = s.received
      /\ UnlockAfterFailure(s, id).latestNonce = s.latestNonce
      /\ UnlockAfterFailure(s, id).accruedFees = s.accruedFees
      /\ UnlockAfterFailure(s, id).balance = s.balance
  BY <1>4 DEF UnlockAfterFailure, SomeStorage
<1>7. /\ Became(s, t, id, [s.requests[id] EXCEPT !.callbackLocked = FALSE])
      /\ t.received = s.received
  BY <1>5, <1>6 DEF Became
<1> DEFINE m == n - 1
<1>8. Shortened(calls, n, calls', m)
  BY <1>3 DEF Shortened, n
<1> HIDE DEF m
<1>9. Good(t, calls', m, committed, now, routes)
  BY <1>1, <1>3, <1>4, <1>7, <1>8, FailKeepsGood
<1>10. QED BY <1>2, <1>3, <1>9, CommitSame, ElsewhereSame, GoesOn DEF t, m

(* withdrawFees, up to the transfer: the fees and the wei go together. *)
LEMMA WithdrawStep ==
  ASSUME V2Inv, NEW caller, WithdrawFees(caller)
  PROVE  V2Inv' /\ RegisterStep
<1> DEFINE s == Storage
           t == Storage'
           f == [kind |-> "withdraw", saved |-> s]
<1>1. /\ Good(s, calls, Len(calls), committed, now, routes)
      /\ StackOK(calls, committed, now, routes)
  BY DEF V2Inv
<1>2. /\ calls = <<>> /\ Len(calls) = 0 /\ calls' = Append(calls, f) /\ Elsewhere /\ Commit
  BY DEF WithdrawFees, AtRest
<1>3. /\ t.requests = s.requests /\ t.latestNonce = s.latestNonce /\ t.received = s.received
      /\ t.accruedFees = 0 /\ t.balance = s.balance - s.accruedFees
  BY StorageIs DEF WithdrawFees, FeesAfterWithdrawal
<1>4. /\ f.kind = "withdraw" /\ f.saved = s
      /\ s = [requests |-> s.requests, latestNonce |-> s.latestNonce,
               accruedFees |-> s.accruedFees, balance |-> s.balance,
               received |-> s.received]
      /\ s \in SomeStorage => f \in SomeCall
  BY DEF Storage, SomeCall
<1> HIDE DEF s, t, f
<1>5. f \in SomeCall
  BY <1>1, <1>4, StorageIsTyped DEF Good
<1>6. Len(calls') = 1 /\ calls'[1] = f /\ Len(calls) \in Nat
  BY <1>2
<1>7. ASSUME NEW u, Good(u, calls, 0, committed, now, routes)
      PROVE  Good(u, calls', 1, committed, now, routes)
  <2>1. \A id : ~IsCalled(calls, 0, id) /\ ~IsCalled(calls', 1, id)
    BY <1>4, <1>6 DEF IsCalled
  <2>2. CallsOK(u, calls', 1)
    BY <1>4, <1>6 DEF CallsOK
  <2>3. QED BY <1>7, <2>1, <2>2 DEF Good, LocksOK
<1>8. Good(s, calls', 1, committed, now, routes)
  BY <1>1, <1>2, <1>7
<1>9. StackOK(calls', committed, now, routes)
  <2>1. Good(f.saved, Append(calls, f), Len(calls) + 1, committed, now, routes)
    BY <1>2, <1>4, <1>8
  <2>2. f.kind = "callback" => ~IsCalled(calls, Len(calls), f.request)
    BY <1>4
  <2>3. QED BY <1>1, <1>2, <1>5, <2>1, <2>2, PushOK
<1>10. t.accruedFees = 0 /\ t.balance = 0
  BY <1>1, <1>3 DEF Good, IsStorage
<1>11. Good(t, calls', 1, committed, now, routes)
  <2>1. IsStorage(t)
    BY <1>1, <1>3, <1>10 DEF Good, IsStorage
  <2>2. RequestsOK(t, routes) /\ LocksOK(t, calls', 1) /\ CallsOK(t, calls', 1)
        /\ SinceCommit(committed, t, now)
    BY <1>3, <1>8 DEF Good, RequestsOK, Took, LocksOK, CallsOK, SinceCommit
  <2>3. QED BY <2>1, <2>2 DEF Good
<1>12. QED BY <1>2, <1>6, <1>9, <1>11, CommitSame, ElsewhereSame, GoesOn DEF t

(* withdrawFees, when the transfer succeeds *)
LEMMA WithdrawSucceedsStep ==
  ASSUME V2Inv, WithdrawSucceeds
  PROVE  V2Inv' /\ RegisterStep
<1> DEFINE n == Len(calls)
<1>1. /\ Good(Storage, calls, n, committed, now, routes) /\ StackOK(calls, committed, now, routes)
  BY DEF V2Inv
<1>2. /\ calls # <<>> /\ Innermost.kind = "withdraw" /\ Leave /\ Elsewhere /\ Commit
      /\ UNCHANGED store
  BY DEF WithdrawSucceeds, AtRest
<1>3. /\ StackOK(calls', committed, now, routes)
      /\ n \in Nat /\ n >= 1 /\ Len(calls') = n - 1
      /\ \A i \in 1 .. n - 1 : calls'[i] = calls[i]
      /\ calls[n].kind # "callback"
  <2>1. /\ StackOK(calls', committed, now, routes)
        /\ n \in Nat /\ n >= 1 /\ Len(calls') = n - 1
        /\ \A i \in 1 .. n - 1 : calls'[i] = calls[i]
        /\ Innermost = calls[n]
    BY <1>1, <1>2, PopOK
  <2>2. calls[n].kind = "withdraw"
    BY <1>2, <2>1
  <2>3. QED BY <2>1, <2>2
<1>4. Same(Storage, Storage') /\ Same(committed, committed)
  BY <1>2, StorageIs DEF Same, store
<1> HIDE DEF n
<1>5. Good(Storage', calls, n, committed, now, routes)
  BY <1>1, <1>4, GoodSame
<1>6. Good(Storage', calls, n - 1, committed, now, routes)
  <2>1. \A id : IsCalled(calls, n - 1, id) <=> IsCalled(calls, n, id)
    BY <1>3, CalledBelow
  <2>2. LocksOK(Storage', calls, n - 1)
    BY <1>5, <2>1 DEF Good, LocksOK
  <2>3. CallsOK(Storage', calls, n - 1)
    BY <1>3, <1>5 DEF Good, CallsOK
  <2>4. QED BY <1>5, <2>2, <2>3 DEF Good
<1>7. Good(Storage', calls', n - 1, committed, now, routes)
  BY <1>3, <1>6, GoodPrefix
<1>8. QED BY <1>2, <1>3, <1>7, CommitSame, ElsewhereSame, GoesOn

(* A transaction that ends without effect. *)
LEMMA RevertStep ==
  ASSUME V2Inv, TransactionReverts
  PROVE  V2Inv' /\ RegisterStep
<1>1. Good(committed, calls, 0, committed, now, routes)
  BY DEF V2Inv
<1>2. /\ Same(committed, Storage') /\ Same(Storage', committed') /\ Same(committed, committed)
      /\ calls' = <<>> /\ Len(calls') = 0 /\ Elsewhere
  BY StorageIs DEF TransactionReverts, Restore, Same
<1>3. Good(committed, calls', 0, committed, now, routes)
  BY <1>1, GoodPrefix
<1>4. Good(Storage', calls', 0, committed, now, routes)
  BY <1>2, <1>3, GoodSame
<1>5. StackOK(calls', committed, now, routes)
  BY <1>2 DEF StackOK
<1>6. QED BY <1>2, <1>4, <1>5, ElsewhereSame, GoesOn

(* The setters, the registry and the clock work between transactions, and  *)
(* no route is taken away or bound again.                                  *)
LEMMA BetweenTransactions ==
  ASSUME V2Inv, AtRest, UNCHANGED <<store, calls, committed>>, now' \in Nat,
         \A id : Follows(id, routes) => Follows(id, routes')
  PROVE  V2Inv'
<1>1. /\ Same(committed, Storage) /\ Same(committed', Storage') /\ Same(committed, committed')
      /\ calls = <<>> /\ calls' = <<>> /\ Len(calls) = 0 /\ Len(calls') = 0
      /\ Good(committed, calls, 0, committed, now, routes)
  BY StorageIs DEF V2Inv, AtRest, Same, store
<1>2. Good(committed, calls', 0, committed, now', routes')
  <2>1. RequestsOK(committed, routes')
    BY <1>1 DEF Good, RequestsOK
  <2>2. LocksOK(committed, calls', 0) /\ CallsOK(committed, calls', 0)
    BY <1>1 DEF Good, LocksOK, CallsOK, IsCalled
  <2>3. SinceCommit(committed, committed, now')
    BY NothingSinceCommit DEF Same
  <2>4. QED BY <1>1, <2>1, <2>2, <2>3 DEF Good
<1>3. Good(committed', calls', 0, committed', now', routes')
  BY <1>1, <1>2, GoodSame
<1>4. Good(Storage', calls', 0, committed', now', routes')
  BY <1>1, <1>3, GoodSame DEF Same
<1>5. StackOK(calls', committed', now', routes')
  BY <1>1 DEF StackOK
<1>6. QED BY <1>1, <1>3, <1>4, <1>5 DEF V2Inv

(* The registry never changes the route of a known id. *)
LEMMA RegistryKeepsRoutes ==
  ASSUME RegistryNext
  PROVE  \A id : Follows(id, routes) => Follows(id, routes')
<1>1. ASSUME NEW caller, NEW r, NEW b, RegisterRoute(caller, r, b), NEW id, Follows(id, routes)
      PROVE  Follows(id, routes')
  BY <1>1 DEF RegisterRoute, IsNewRoute, Follows
<1>2. ASSUME NEW caller, NEW r, NEW active, SetRouteStatus(caller, r, active), NEW id,
             Follows(id, routes)
      PROVE  Follows(id, routes')
  BY <1>2 DEF SetRouteStatus, Follows
<1>3. ASSUME NEW caller, NEW o, TransferRegistry(caller, o), NEW id, Follows(id, routes)
      PROVE  Follows(id, routes')
  BY <1>3 DEF TransferRegistry
<1>4. QED BY <1>1, <1>2, <1>3 DEF RegistryNext

(* The setters, the registry and the clock. *)
LEMMA QuietStep ==
  ASSUME V2Inv, AtRest, UNCHANGED <<store, calls, committed>>,
         \/ now' = now
         \/ now' = now + 1,
         \/ routes' = routes
         \/ RegistryNext
  PROVE  V2Inv' /\ RegisterStep
<1>1. now \in Nat /\ now' \in Nat
  BY DEF V2Inv
<1>2. \A id : Follows(id, routes) => Follows(id, routes')
  BY RegistryKeepsRoutes
<1>3. V2Inv'
  BY <1>1, <1>2, BetweenTransactions
<1>4. CASE now' = now
  BY <1>3, <1>4 DEF RegisterStep, Register!registerVars
<1>5. CASE now' = now + 1
  <2>1. Register!Wait
    BY <1>1, <1>5 DEF Register!Wait
  <2>2. QED BY <1>3, <2>1 DEF RegisterStep, Register!RegisterNext
<1>6. QED BY <1>4, <1>5

(* A stutter, which may happen inside a transaction too. *)
LEMMA StutterStep ==
  ASSUME V2Inv, UNCHANGED v2Vars
  PROVE  V2Inv' /\ RegisterStep
<1>1. /\ Same(Storage, Storage') /\ Same(committed, committed)
      /\ calls' = calls /\ now' = now /\ routes' = routes /\ committed' = committed
  BY StorageIs DEF v2Vars, store, registryVars, Same
<1>2. V2Inv'
  <2>1. Good(Storage', calls, Len(calls), committed, now, routes)
    BY <1>1, GoodSame DEF V2Inv
  <2>2. AtRest' => Same(committed', Storage')
    BY <1>1 DEF V2Inv, AtRest, Same
  <2>3. QED BY <1>1, <2>1, <2>2 DEF V2Inv
<1>3. QED BY <1>1, <1>2 DEF RegisterStep, Register!registerVars

(* Every step keeps the invariant and is a step of the register, or none. *)
LEMMA V2NextInv == V2Inv /\ [V2Next]_v2Vars => V2Inv' /\ RegisterStep
<1> SUFFICES ASSUME V2Inv, [V2Next]_v2Vars PROVE V2Inv' /\ RegisterStep
  OBVIOUS
<1>1. CASE CallsV2
  BY <1>1, RequestStep, HandleStep, RetryStep DEF CallsV2
<1>2. CASE CallbackSucceeds
  BY <1>2, SucceedStep
<1>3. CASE CallbackFails
  BY <1>3, FailStep
<1>4. CASE WithdrawSucceeds
  BY <1>4, WithdrawSucceedsStep
<1>5. CASE TransactionReverts
  BY <1>5, RevertStep
<1>6. CASE OwnerActs
  <2>1. PICK caller \in Owners :
          \/ Administered
          \/ WithdrawFees(caller)
    BY <1>6 DEF OwnerActs, SetResultReceiver, SetTransport, TransferOwnership
  <2>2. Administered => AtRest /\ UNCHANGED <<store, calls, committed>> /\ now' = now
                          /\ routes' = routes
    BY DEF Administered, registryVars
  <2>3. QED BY <2>1, <2>2, QuietStep, WithdrawStep
<1>7. CASE RegistryActs
  BY <1>7, QuietStep DEF RegistryActs
<1>8. CASE Tick
  BY <1>8, QuietStep DEF Tick, registryVars
<1>9. CASE UNCHANGED v2Vars
  BY <1>9, StutterStep
<1>10. QED
  BY <1>1, <1>2, <1>3, <1>4, <1>5, <1>6, <1>7, <1>8, <1>9 DEF V2Next

(* Nothing was asked yet. *)
LEMMA V2InitInv == V2Init => V2Inv /\ Register!RegisterInit
<1> SUFFICES ASSUME V2Init PROVE V2Inv /\ Register!RegisterInit
  OBVIOUS
<1>1. /\ Same(committed, Storage) /\ Same(committed, committed)
      /\ calls = <<>> /\ Len(calls) = 0 /\ now = 0
      /\ DOMAIN Storage.requests = {} /\ Storage.received = [id \in {} |-> <<>>]
      /\ DOMAIN committed.requests = {} /\ DOMAIN committed.received = {}
  BY StorageIs DEF V2Init, Same
<1>2. IsStorage(Storage)
  <2>1. Storage.requests \in [{} -> SomeRequest] /\ Storage.received \in [{} -> Seq(ResultBytes)]
    BY StorageIs DEF V2Init
  <2>2. QED BY <1>1, <2>1, StorageIs DEF V2Init, IsStorage
<1>3. Good(Storage, calls, 0, committed, now, routes)
  BY <1>1, <1>2, NothingSinceCommit
  DEF Good, RequestsOK, LocksOK, CallsOK
<1>4. Good(committed, calls, 0, committed, now, routes)
  BY <1>1, <1>3, GoodSame DEF Same
<1>5. StackOK(calls, committed, now, routes)
  BY <1>1 DEF StackOK
<1>6. Register!RegisterInit
  <2>1. /\ [id \in DOMAIN committed.requests |-> VerdictOn(committed.requests[id])]
               = [q \in {} |-> "None"]
        /\ [id \in DOMAIN committed.received |-> Len(committed.received[id])]
               = [q \in {} |-> 0]
    BY <1>1
  <2>2. QED BY <1>1, <2>1 DEF Register!RegisterInit
<1>7. QED BY <1>1, <1>3, <1>4, <1>5, <1>6 DEF V2Inv

(* The invariant holds of every behaviour. *)
LEMMA V2Invariant == V2Spec => []V2Inv
<1>1. V2Init => V2Inv
  BY V2InitInv
<1>2. V2Inv /\ [V2Next]_v2Vars => V2Inv'
  BY V2NextInv
<1>3. QED BY <1>1, <1>2, PTL DEF V2Spec

-----------------------------------------------------------------------------
(* No pause, no new registration and no revert gives a request another     *)
(* contract, method or schema than the one its id is a hash of.            *)
THEOREM RequestsKeepTheirRoute == V2Spec => []RequestsFollowTheirRoute
<1>1. V2Inv => RequestsFollowTheirRoute
  BY StorageIs DEF V2Inv, Good, RequestsOK, Follows, RequestsFollowTheirRoute
<1>2. QED BY <1>1, V2Invariant, PTL

(* However callbacks nest and fail, and whoever retries them, a callback   *)
(* takes one result, the one whose hash the router recorded.               *)
THEOREM RecordedResultReceived == V2Spec => []ReceivesTheRecordedResult
<1>1. V2Inv => ReceivesTheRecordedResult
  BY StorageIs DEF V2Inv, Good, RequestsOK, Took, ReceivesTheRecordedResult
<1>2. QED BY <1>1, V2Invariant, PTL

(* The lock is held by the calls in progress and by what was delivered,    *)
(* and by nothing else: a failed callback can be retried, a delivered one  *)
(* cannot.                                                                 *)
THEOREM LockedIffCalledOrDelivered == V2Spec => []LockedWhileCalledOrDelivered
<1>1. V2Inv => LockedWhileCalledOrDelivered
  BY StorageIs DEF V2Inv, Good, LocksOK, IsCalled, LockedWhileCalledOrDelivered
<1>2. QED BY <1>1, V2Invariant, PTL

(* The fees on the books are the wei held, also after a revert inside a    *)
(* transaction and while a withdrawal is being paid.                       *)
THEOREM V2FeesHeld == V2Spec => []V2FeesAreHeld
<1>1. V2Inv => V2FeesAreHeld
  BY StorageIs DEF V2Inv, Good, IsStorage, V2FeesAreHeld
<1>2. QED BY <1>1, V2Invariant, PTL

(* The second router keeps the promise of VerdictRegister too: what one    *)
(* transaction changes is one step of the register.                        *)
THEOREM V2RefinesRegister == V2Spec => V2ImplementsVerdictRegister
<1>1. V2Init => Register!RegisterInit
  BY V2InitInv
<1>2. V2Inv /\ [V2Next]_v2Vars => RegisterStep
  BY V2NextInv
<1>3. QED
  BY <1>1, <1>2, V2Invariant, PTL
  DEF V2Spec, V2ImplementsVerdictRegister, RegisterStep, Register!RegisterSpec
=============================================================================
