--------------------------- MODULE PhaseGateProofs ---------------------------
(***************************************************************************)
(* Proofs about PhaseGate and the Registration inside it, for any number   *)
(* of works, runs, invocations of the handler and failures: a request is   *)
(* registered once and only if the relay can serve it (but for the two     *)
(* fields that are not compared), a failure of the acceptance test costs   *)
(* the trace of one job at most, and a report that passes counts different *)
(* works that the callback settled.                                        *)
(*                                                                         *)
(* The two insertions of a registration are not one step, so uniqueness of *)
(* the records rests on what holds between them (OneInsertion): whoever is *)
(* there alone has the nonce, and nobody has the record.                   *)
(*                                                                         *)
(* The bound on lost jobs is not inductive either, because a failure does  *)
(* not lose its job at once: an answer that is lost makes the script send  *)
(* again, and only the second answer ends it.  The failure is paid for in  *)
(* between (Spoiled), and FewLost counts such a debt like a lost job.      *)
(*                                                                         *)
(* That the works of a report differ comes from the script, which keeps    *)
(* what it prepared, has in hand and has left apart (WorksInv), and for    *)
(* the aggregate from the choice of the first entry (EntriesApart).        *)
(***************************************************************************)
EXTENDS PhaseGate, FiniteSetTheorems, SequenceTheorems, WellFoundedInduction, TLAPS

(* A body as a client or the script may send it: one field is wrong at most. *)
AnyBody == [request : Nat, spelled : Spellings, nonce : Nat,
            defects : {{}} \cup {{d} : d \in Defects}]

Inserting(h) == posts[h].pc = "record"

(* Nonces without a record that nobody is about to insert. *)
Orphaned == {r \in Requests : Taken(r) /\ RecordsOf(r) = {}} \ BeingInserted

(***************************************************************************)
(* The index: what is at work or recorded was verified, and the two        *)
(* insertions of a request exclude each other and all later ones.          *)
(***************************************************************************)
RegistrationTypes ==
  /\ nonces \subseteq {"lower"} \X Nat
  /\ records \subseteq AnyBody
  /\ posts \in [Handlers -> [pc : {"idle", "nonce", "record"} \cup Replies,
                             body : AnyBody]]
  /\ faults \in Nat

VerifiedOnly ==
  /\ \A h \in Handlers : Working(h) => Verified(posts[h].body)
  /\ \A record \in records : Verified(record)

OneInsertion ==
  /\ \A h \in Handlers : Inserting(h) =>
       Taken(posts[h].body.nonce) /\ RecordsOf(posts[h].body.nonce) = {}
  /\ \A h, k \in Handlers :
       Inserting(h) /\ Inserting(k) /\ posts[h].body.nonce = posts[k].body.nonce => h = k
  /\ \A record \in records : Taken(record.request)
  /\ \A r, q \in records : r.request = q.request => r = q

FewOrphans == Cardinality(Orphaned) <= faults

RegistrationInv == RegistrationTypes /\ VerifiedOnly /\ OneInsertion /\ FewOrphans

(***************************************************************************)
(* The escrow's jobs, and that only dispatched ones are ever registered.   *)
(***************************************************************************)
Pcs == {"off", "create", "evidence", "request", "register", "reply", "hub",
        "checkpoint", "poll"}

IsJob(job) ==
  /\ job = [work |-> job.work, status |-> job.status, decision |-> job.decision,
            executed |-> job.executed]
  /\ job.decision \in Decisions \cup {NoDecision}
  /\ job.status \in {"Released", "Undetermined"} => job.executed

JobsOK ==
  /\ \E S : jobs \in Seq(S)
  /\ \A j \in 1 .. Len(jobs) : IsJob(jobs[j])

DispatchedOnly ==
  /\ nonces \subseteq {"lower"} \X Dispatched
  /\ \A h \in Handlers : Working(h) => posts[h].body.nonce \in Dispatched

(***************************************************************************)
(* The script and its checkpoints.                                         *)
(***************************************************************************)
InHand == IF At("off") \/ At("create") \/ At("poll") THEN {} ELSE {script.job}

ScriptOK ==
  /\ script = [pc |-> script.pc, todo |-> script.todo, job |-> script.job,
               post |-> script.post, prepared |-> script.prepared]
  /\ script.pc \in Pcs
  /\ InHand \subseteq 1 .. Len(jobs)
  /\ At("register") \/ At("reply") => Requested(script.job)
  /\ At("reply") => script.post \in Handlers
  /\ script.prepared \in Seq(Nat)
  /\ At("checkpoint") => script.job \in Range(script.prepared)

FilesOK ==
  /\ runs \in Nat
  /\ files \in Seq(Seq(Nat)) /\ Len(files) = runs
  /\ ~At("off") => runs > 0 /\ Range(files[runs]) \subseteq Range(script.prepared)

(* What is in no checkpoint. *)
Kept == UNION {Range(files[i]) : i \in DOMAIN files}
Lost == (DOMAIN jobs \ Kept) \ InHand

(* The answer the script waits for will be 201, if nothing fails. *)
WillBeRegistered ==
  LET h == script.post
  IN \/ posts[h].pc \in {"201", "record"}
     \/ /\ posts[h].pc = "nonce" /\ ~Taken(posts[h].body.nonce)
        /\ \A k \in Handlers \ {h} :
             Working(k) => posts[k].body.nonce # posts[h].body.nonce

(* A failure was already paid for: the process is going to end. *)
Spoiled ==
  \/ At("evidence") /\ jobs[script.job].status # "Created"
  \/ At("request") /\ jobs[script.job].status # "EvidenceSubmitted"
  \/ At("register") /\ \/ Taken(script.job)
                       \/ \E h \in Handlers :
                            Working(h) /\ posts[h].body.nonce = script.job
  \/ At("reply") /\ ~WillBeRegistered

FewLost == Cardinality(Lost) + (IF Spoiled THEN 1 ELSE 0) <= faults

GateInv ==
  RegistrationInv /\ JobsOK /\ DispatchedOnly /\ ScriptOK /\ FilesOK /\ FewLost

(***************************************************************************)
(* A run pays for a work once: what it prepared, what it has in hand and   *)
(* what is left to do are different works.                                 *)
(***************************************************************************)
TodoOK ==
  /\ script.todo \subseteq 1 .. Len(Works)
  /\ ~At("off") /\ ~At("poll") => script.todo # {}
  /\ \A j \in InHand : jobs[j].work = Works[Upcoming]

(* The places of the works the run has not prepared. *)
Left == IF At("checkpoint") THEN script.todo \ {Upcoming} ELSE script.todo

PreparedApart ==
  /\ Range(script.prepared) \subseteq 1 .. Len(jobs)
  /\ \A j, k \in Range(script.prepared) : jobs[j].work = jobs[k].work => j = k
  /\ \A j \in Range(script.prepared), i \in Left : jobs[j].work # Works[i]

WorksInv == GateInv /\ TodoOK /\ PreparedApart

-----------------------------------------------------------------------------
(* A set that has one element more at most. *)
LEMMA OneMore ==
  ASSUME NEW S, NEW T, NEW x, IsFiniteSet(S), T \subseteq S \cup {x}
  PROVE  IsFiniteSet(T) /\ Cardinality(T) <= Cardinality(S) + 1
<1>0. Cardinality(S) \in Nat
  BY FS_CardinalityType
<1>1. IsFiniteSet(S \cup {x}) /\ Cardinality(S \cup {x}) <= Cardinality(S) + 1
  <2>1. /\ IsFiniteSet(S \cup {x})
        /\ \/ Cardinality(S \cup {x}) = Cardinality(S)
           \/ Cardinality(S \cup {x}) = Cardinality(S) + 1
    BY FS_AddElement, Zenon
  <2> QED
    BY <1>0, <2>1
<1>2. IsFiniteSet(T) /\ Cardinality(T) <= Cardinality(S \cup {x})
  BY <1>1, FS_Subset
<1> QED
  BY <1>1, <1>2, FS_CardinalityType

(* Only requests of the chain can be orphaned. *)
LEMMA OrphansFinite == IsFiniteSet(Orphaned)
<1>1. IsFiniteSet(Requests) /\ Orphaned \subseteq Requests
  BY FS_Interval, RegistrationConstants DEF Requests, Orphaned
<1> QED
  BY <1>1, FS_Subset

(* A step that orphans nothing. *)
LEMMA OrphansStay ==
  ASSUME FewOrphans, faults \in Nat, faults' \in Nat, faults <= faults',
         Orphaned' \subseteq Orphaned
  PROVE  FewOrphans'
<1>1. Cardinality(Orphaned) \in Nat /\ Cardinality(Orphaned') <= Cardinality(Orphaned)
      /\ Cardinality(Orphaned') \in Nat
  BY OrphansFinite, FS_Subset, FS_CardinalityType
<1> QED
  BY <1>1 DEF FewOrphans

(* A failure that orphans one nonce. *)
LEMMA OneMoreOrphan ==
  ASSUME NEW x, FewOrphans, faults \in Nat, faults' = faults + 1,
         Orphaned' \subseteq Orphaned \cup {x}
  PROVE  FewOrphans'
<1>1. Cardinality(Orphaned) \in Nat /\ Cardinality(Orphaned') <= Cardinality(Orphaned) + 1
      /\ Cardinality(Orphaned') \in Nat
  BY OrphansFinite, OneMore, FS_CardinalityType
<1> QED
  BY <1>1 DEF FewOrphans

-----------------------------------------------------------------------------
(* The states of an invocation, and what it changes about the others. *)
States == [pc : {"idle", "nonce", "record"} \cup Replies, body : AnyBody]

(* An answer is a state of an invocation. *)
LEMMA AnsweredIsState ==
  ASSUME NEW reply \in {"idle"} \cup Replies
  PROVE  Answered(reply) \in States /\ Answered(reply).pc = reply
<1>1. Body(0, "lower", 0, {}) \in AnyBody
  BY DEF Body, AnyBody, Spellings
<1> QED
  BY <1>1 DEF Answered, States

(* A step of one invocation leaves the others where they are. *)
LEMMA SetPointwise ==
  ASSUME RegistrationTypes, NEW h \in Handlers, NEW state \in States, Set(h, state)
  PROVE  /\ posts' \in [Handlers -> States]
         /\ posts'[h] = state
         /\ \A k \in Handlers : k # h => posts'[k] = posts[k]
  BY DEF RegistrationTypes, Set, States

(* An invocation that is not between its insertions starts, answers or idles. *)
LEMMA NothingInserted ==
  ASSUME RegistrationInv, NEW h \in Handlers, ~Inserting(h), NEW state \in States,
         Set(h, state), state.pc # "record",
         state.pc = "nonce" => Verified(state.body),
         UNCHANGED <<nonces, records>>, faults' \in Nat, faults <= faults'
  PROVE  RegistrationInv'
<1> USE DEF RegistrationInv
<1>1. /\ posts' \in [Handlers -> States]
      /\ posts'[h] = state
      /\ \A k \in Handlers : k # h => posts'[k] = posts[k]
  BY SetPointwise
<1>2. RegistrationTypes'
  BY <1>1 DEF RegistrationTypes, States
<1>3. VerifiedOnly'
  BY <1>1 DEF VerifiedOnly, Working, Verified
<1>4. \A k \in Handlers : Inserting(k)' => k # h /\ Inserting(k) /\ posts'[k] = posts[k]
  BY <1>1 DEF Inserting
<1>5. OneInsertion'
  BY <1>1, <1>4 DEF OneInsertion, Inserting, Taken, RecordsOf
<1>6. BeingInserted' = BeingInserted
  <2>1. \A k \in Handlers : posts'[k].pc = "record" <=> posts[k].pc = "record"
    BY <1>1 DEF Inserting
  <2>2. \A k \in Handlers : posts[k].pc = "record" => posts'[k] = posts[k]
    BY <1>1 DEF Inserting
  <2> QED
    BY <2>1, <2>2 DEF BeingInserted
<1>7. Orphaned' \subseteq Orphaned
  BY <1>6 DEF Orphaned, Taken, RecordsOf
<1>8. FewOrphans'
  BY <1>7, OrphansStay DEF RegistrationTypes
<1> QED
  BY <1>2, <1>3, <1>5, <1>8

(***************************************************************************)
(* The first insertion: the nonce was nobody's, so that from here on the   *)
(* invocation alone has it, or it is refused.                              *)
(***************************************************************************)
LEMMA NonceInserted ==
  ASSUME RegistrationInv, NEW h \in Handlers, InsertNonce(h)
  PROVE  RegistrationInv'
<1> USE DEF RegistrationInv
<1> DEFINE body == posts[h].body
<1>1. posts[h].pc = "nonce" /\ ~Inserting(h) /\ posts[h] \in States /\ body \in AnyBody
      /\ faults \in Nat /\ UNCHANGED <<records, faults>>
  BY DEF InsertNonce, RegistrationTypes, Inserting, States
<1>2. Verified(body) /\ body.nonce = body.request
  BY <1>1 DEF VerifiedOnly, Working, Verified
<1>3. CASE NonceKey(body) \in nonces
  <2>1. Set(h, Answered("409")) /\ UNCHANGED nonces
    BY <1>3 DEF InsertNonce
  <2>2. Answered("409") \in States /\ Answered("409").pc = "409"
    BY AnsweredIsState DEF Replies
  <2> QED
    BY <1>1, <2>1, <2>2, NothingInserted
<1>4. CASE NonceKey(body) \notin nonces
  <2> DEFINE state == [posts[h] EXCEPT !.pc = "record"]
  <2>1. /\ nonces' = nonces \cup {<<"lower", body.nonce>>}
        /\ Set(h, state)
    BY <1>4 DEF InsertNonce, NonceKey
  <2>2. state \in States /\ state.pc = "record" /\ state.body = body
    BY <1>1 DEF States
  <2> HIDE DEF state
  <2>3. /\ posts' \in [Handlers -> States]
        /\ posts'[h] = state
        /\ \A k \in Handlers : k # h => posts'[k] = posts[k]
    BY <2>1, <2>2, SetPointwise
  <2>4. ~Taken(body.nonce)
    BY <1>4 DEF NonceKey, Taken
  <2>5. RecordsOf(body.nonce) = {}
    BY <2>4 DEF OneInsertion, RecordsOf
  <2>6. \A r : Taken(r)' <=> Taken(r) \/ r = body.nonce
    BY <2>1 DEF Taken
  <2>7. \A r : RecordsOf(r)' = RecordsOf(r)
    BY <1>1 DEF RecordsOf
  <2>8. RegistrationTypes'
    BY <1>1, <2>1, <2>3 DEF RegistrationTypes, States, AnyBody
  <2>9. VerifiedOnly'
    BY <1>1, <1>2, <2>2, <2>3 DEF VerifiedOnly, Working, Verified
  <2>10. \A k \in Handlers : k # h /\ Inserting(k) => posts[k].body.nonce # body.nonce
    BY <2>4 DEF OneInsertion
  <2>11. \A k \in Handlers : k # h => (Inserting(k)' <=> Inserting(k)) /\ posts'[k] = posts[k]
    BY <2>3 DEF Inserting
  <2>12. OneInsertion'
    <3>1. (\A k \in Handlers : Inserting(k) =>
             Taken(posts[k].body.nonce) /\ RecordsOf(posts[k].body.nonce) = {})'
      <4> SUFFICES ASSUME NEW k \in Handlers, Inserting(k)'
                   PROVE  (Taken(posts[k].body.nonce) /\ RecordsOf(posts[k].body.nonce) = {})'
        OBVIOUS
      <4>1. PICK n : n = posts'[k].body.nonce
        OBVIOUS
      <4>2. Taken(n)' /\ RecordsOf(n)' = {}
        <5>1. CASE k = h
          BY <4>1, <5>1, <2>2, <2>3, <2>5, <2>6, <2>7
        <5>2. CASE k # h
          BY <4>1, <5>2, <2>11, <2>6, <2>7 DEF OneInsertion
        <5> QED
          BY <5>1, <5>2
      <4> QED
        BY <4>1, <4>2 DEF Taken, RecordsOf
    <3>2. (\A i, k \in Handlers :
             Inserting(i) /\ Inserting(k) /\ posts[i].body.nonce = posts[k].body.nonce => i = k)'
      BY <2>2, <2>3, <2>10, <2>11 DEF OneInsertion
    <3>3. (\A record \in records : Taken(record.request))'
      BY <1>1, <2>6 DEF OneInsertion
    <3>4. (\A r, q \in records : r.request = q.request => r = q)'
      BY <1>1 DEF OneInsertion
    <3> QED
      BY <3>1, <3>2, <3>3, <3>4 DEF OneInsertion
  <2>13. BeingInserted' = BeingInserted \cup {body.nonce}
    <3>1. \A k \in Handlers : k # h => (posts'[k].pc = "record" <=> posts[k].pc = "record")
      BY <2>3
    <3>2. posts'[h].pc = "record" /\ posts'[h].body = body
      BY <2>2, <2>3
    <3> QED
      BY <1>1, <2>3, <3>1, <3>2 DEF BeingInserted
  <2>14. Orphaned' \subseteq Orphaned
    BY <2>6, <2>7, <2>13 DEF Orphaned
  <2>15. FewOrphans'
    BY <1>1, <2>14, OrphansStay
  <2> QED
    BY <2>8, <2>9, <2>12, <2>15
<1> QED
  BY <1>3, <1>4

(* The second insertion, which never finds the place taken. *)
LEMMA RecordInserted ==
  ASSUME RegistrationInv, NEW h \in Handlers, InsertRecord(h)
  PROVE  /\ RegistrationInv'
         /\ records' = records \cup {posts[h].body}
         /\ Set(h, Answered("201"))
<1> USE DEF RegistrationInv
<1> DEFINE state == Answered("201")
<1>0. PICK body \in AnyBody : body = posts[h].body
  BY DEF RegistrationTypes
<1>1. posts[h].pc = "record" /\ Inserting(h) /\ faults \in Nat /\ UNCHANGED <<nonces, faults>>
  BY DEF InsertRecord, RegistrationTypes, Inserting
<1>2. Verified(body) /\ body.nonce = body.request
  BY <1>0, <1>1 DEF VerifiedOnly, Working, Verified
<1>3. RecordsOf(body.request) = {} /\ Taken(body.request)
  BY <1>0, <1>1, <1>2 DEF OneInsertion
<1>4. records' = records \cup {body} /\ Set(h, state)
  BY <1>0, <1>3 DEF InsertRecord, RecordsOf
<1>5. state \in States /\ state.pc = "201"
  BY AnsweredIsState DEF Replies
<1> HIDE DEF state
<1>6. /\ posts' \in [Handlers -> States]
      /\ posts'[h] = state
      /\ \A k \in Handlers : k # h => posts'[k] = posts[k]
  BY <1>4, <1>5, SetPointwise
<1>7. RegistrationTypes'
  BY <1>1, <1>4, <1>6 DEF RegistrationTypes, States
<1>8. VerifiedOnly'
  BY <1>2, <1>4, <1>5, <1>6 DEF VerifiedOnly, Working, Verified
<1>9. \A k \in Handlers : Inserting(k)' => k # h /\ Inserting(k) /\ posts'[k] = posts[k]
  BY <1>5, <1>6 DEF Inserting
<1>10. \A r : Taken(r)' <=> Taken(r)
  BY <1>1 DEF Taken
<1>11. \A r : r # body.request => RecordsOf(r)' = RecordsOf(r)
  BY <1>4 DEF RecordsOf
<1>12. OneInsertion'
  <2>1. (\A k \in Handlers : Inserting(k) =>
           Taken(posts[k].body.nonce) /\ RecordsOf(posts[k].body.nonce) = {})'
    <3> SUFFICES ASSUME NEW k \in Handlers, Inserting(k)'
                 PROVE  (Taken(posts[k].body.nonce) /\ RecordsOf(posts[k].body.nonce) = {})'
      OBVIOUS
    <3>1. PICK n : n = posts'[k].body.nonce
      OBVIOUS
    <3>2. n # body.nonce /\ Taken(n) /\ RecordsOf(n) = {}
      BY <1>0, <1>1, <1>9, <3>1 DEF OneInsertion
    <3>3. Taken(n)' /\ RecordsOf(n)' = {}
      BY <3>2, <1>2, <1>10, <1>11
    <3> QED
      BY <3>1, <3>3 DEF Taken, RecordsOf
  <2>2. (\A i, k \in Handlers :
           Inserting(i) /\ Inserting(k) /\ posts[i].body.nonce = posts[k].body.nonce => i = k)'
    BY <1>9 DEF OneInsertion
  <2>3. (\A record \in records : Taken(record.request))'
    BY <1>3, <1>4, <1>10 DEF OneInsertion
  <2>4. (\A r, q \in records : r.request = q.request => r = q)'
    BY <1>3, <1>4 DEF OneInsertion, RecordsOf
  <2> QED
    BY <2>1, <2>2, <2>3, <2>4 DEF OneInsertion
<1>13. \A r : RecordsOf(r)' = {} => RecordsOf(r) = {} /\ r # body.nonce
  <2>1. body \in RecordsOf(body.nonce)'
    BY <1>2, <1>4 DEF RecordsOf
  <2> QED
    BY <2>1, <1>2, <1>11
<1>14. BeingInserted \subseteq BeingInserted' \cup {body.nonce}
  BY <1>0, <1>6 DEF BeingInserted
<1>15. Orphaned' \subseteq Orphaned
  BY <1>10, <1>13, <1>14 DEF Orphaned
<1>16. FewOrphans'
  BY <1>1, <1>15, OrphansStay
<1> QED
  BY <1>0, <1>4, <1>7, <1>8, <1>12, <1>16 DEF state

(* A death between the insertions orphans a nonce, and is a failure. *)
LEMMA InvocationDies ==
  ASSUME RegistrationInv, NEW h \in Handlers, Die(h)
  PROVE  RegistrationInv'
<1> USE DEF RegistrationInv
<1> DEFINE state == Answered("500")
<1>0. PICK body : body = posts[h].body
  OBVIOUS
<1>1. faults \in Nat /\ faults' = faults + 1 /\ UNCHANGED <<nonces, records>> /\ Set(h, state)
  BY DEF Die, Fault, RegistrationTypes
<1>2. state \in States /\ state.pc = "500"
  BY AnsweredIsState DEF Replies
<1> HIDE DEF state
<1>3. /\ posts' \in [Handlers -> States]
      /\ posts'[h] = state
      /\ \A k \in Handlers : k # h => posts'[k] = posts[k]
  BY <1>1, <1>2, SetPointwise
<1>4. RegistrationTypes'
  BY <1>1, <1>3 DEF RegistrationTypes, States
<1>5. VerifiedOnly'
  BY <1>1, <1>2, <1>3 DEF VerifiedOnly, Working, Verified
<1>6. \A k \in Handlers : Inserting(k)' => k # h /\ Inserting(k) /\ posts'[k] = posts[k]
  BY <1>2, <1>3 DEF Inserting
<1>7. OneInsertion'
  BY <1>1, <1>3, <1>6 DEF OneInsertion, Inserting, Taken, RecordsOf
<1>8. BeingInserted \subseteq BeingInserted' \cup {body.nonce}
  BY <1>0, <1>3 DEF BeingInserted
<1>9. Orphaned' \subseteq Orphaned \cup {body.nonce}
  BY <1>1, <1>8 DEF Orphaned, Taken, RecordsOf
<1>10. FewOrphans'
  BY <1>1, <1>9, OneMoreOrphan
<1> QED
  BY <1>4, <1>5, <1>7, <1>10

(* What leaves the index alone. *)
LEMMA RegistrationUntouched ==
  ASSUME RegistrationInv, UNCHANGED registration, faults' \in Nat, faults <= faults'
  PROVE  RegistrationInv'
<1>1. UNCHANGED <<nonces, records, posts>>
  BY DEF registration
<1>2. RegistrationTypes' /\ VerifiedOnly' /\ OneInsertion'
  BY <1>1 DEF RegistrationInv, RegistrationTypes, VerifiedOnly, OneInsertion, Working,
              Verified, Inserting, Taken, RecordsOf
<1>3. Orphaned' = Orphaned
  BY <1>1 DEF Orphaned, Taken, RecordsOf, BeingInserted
<1>4. FewOrphans'
  BY <1>3, OrphansStay DEF RegistrationInv, RegistrationTypes
<1> QED
  BY <1>2, <1>4 DEF RegistrationInv

(* A body that is posted is at work if it was verified, and else refused. *)
LEMMA Posted ==
  ASSUME RegistrationInv, NEW h \in Handlers, NEW body \in AnyBody, Post(h, body),
         faults' \in Nat, faults <= faults'
  PROVE  /\ RegistrationInv'
         /\ \E state \in States :
              /\ Set(h, state)
              /\ IF Verified(body) THEN state = [pc |-> "nonce", body |-> body]
                                   ELSE state.pc = "422"
<1> DEFINE state == IF Verified(body) THEN [pc |-> "nonce", body |-> body]
                    ELSE Answered("422")
<1>1. Set(h, state) /\ UNCHANGED <<nonces, records>> /\ posts[h].pc = "idle"
  BY DEF Post, Idling
<1>2. Answered("422") \in States /\ Answered("422").pc = "422"
  BY AnsweredIsState DEF Replies
<1>3. state \in States /\ state.pc # "record"
      /\ (state.pc = "nonce" => Verified(state.body))
      /\ IF Verified(body) THEN state = [pc |-> "nonce", body |-> body]
                           ELSE state.pc = "422"
  <2>1. CASE Verified(body)
    BY <2>1 DEF States
  <2>2. CASE ~Verified(body)
    BY <1>2, <2>2
  <2> QED
    BY <2>1, <2>2
<1> HIDE DEF state
<1>4. RegistrationInv'
  BY <1>1, <1>3, NothingInserted DEF Inserting
<1> QED
  BY <1>1, <1>3, <1>4

(* An invocation whose answer was taken, or is no longer waited for. *)
LEMMA AnswerForgotten ==
  ASSUME RegistrationInv, NEW h \in Handlers, posts[h].pc \in Replies, Set(h, Idle),
         UNCHANGED <<nonces, records, faults>>
  PROVE  RegistrationInv'
<1>1. Answered("idle") \in States /\ Answered("idle").pc = "idle" /\ Idle = Answered("idle")
  BY AnsweredIsState DEF Idle
<1>2. ~Inserting(h) /\ faults \in Nat
  BY DEF Inserting, Replies, RegistrationInv, RegistrationTypes
<1> QED
  BY <1>1, <1>2, NothingInserted

-----------------------------------------------------------------------------
(* What clients and the script send are bodies with one error at most. *)
LEMMA BodiesAreBodies ==
  ASSUME JobsOK
  PROVE  /\ Dispatched \subseteq Nat
         /\ \A body \in Bodies(Dispatched) : body \in AnyBody /\ body.request \in Dispatched
<1>1. Dispatched \subseteq Nat
  BY LenProperties DEF JobsOK, Dispatched
<1>2. Requests \subseteq Nat
  BY DEF Requests
<1>3. \A r \in Nat, s \in Spellings, n \in Nat, d \in {{}} \cup {{e} : e \in Defects} :
        Body(r, s, n, d) \in AnyBody /\ Body(r, s, n, d).request = r
  BY DEF Body, AnyBody
<1>4. "lower" \in Spellings /\ {} \in {{}} \cup {{e} : e \in Defects}
      /\ \A d \in Defects : {d} \in {{}} \cup {{e} : e \in Defects}
  BY DEF Spellings
<1>5. ASSUME NEW body \in Bodies(Dispatched)
      PROVE  body \in AnyBody /\ body.request \in Dispatched
  <2>1. CASE \E r \in Dispatched, s \in Spellings : body = Body(r, s, r, {})
    BY <2>1, <1>1, <1>3, <1>4
  <2>2. CASE \E r \in Dispatched, n \in Requests : body = Body(r, "lower", n, {})
    BY <2>2, <1>1, <1>2, <1>3, <1>4
  <2>3. CASE \E r \in Dispatched, d \in Defects : body = Body(r, "lower", r, {d})
    BY <2>3, <1>1, <1>3, <1>4
  <2> QED
    BY <2>1, <2>2, <2>3 DEF Bodies
<1> QED
  BY <1>1, <1>5

(* The index stays in order in every step of the system. *)
LEMMA RegistrationStep ==
  ASSUME GateInv, [Next]_vars
  PROVE  RegistrationInv' /\ faults' \in Nat /\ faults <= faults'
<1> USE DEF GateInv
<1>0. faults \in Nat
  BY DEF RegistrationInv, RegistrationTypes
<1>1. CASE UNCHANGED <<registration, faults>>
  BY <1>0, <1>1, RegistrationUntouched
<1>2. CASE UNCHANGED registration /\ Fault
  <2>1. faults' = faults + 1
    BY <1>2 DEF Fault
  <2> QED
    BY <1>0, <1>2, <2>1, RegistrationUntouched
<1>3. CASE \E h \in Handlers : Register(h)
  <2>1. PICK h \in Handlers : Register(h)
    BY <1>3
  <2> DEFINE body == Body(script.job, "lower", script.job, {})
  <2>2. script.job \in Nat
    BY <2>1, LenProperties DEF Register, At, ScriptOK, InHand, JobsOK
  <2>3. body \in AnyBody
    BY <2>2 DEF Body, AnyBody, Spellings
  <2> HIDE DEF body
  <2> QED
    BY <1>0, <2>1, <2>3, Posted DEF Register, body
<1>4. CASE Reply
  <2>1. script.post \in Handlers /\ posts[script.post].pc \in Replies
        /\ Set(script.post, Idle) /\ UNCHANGED <<nonces, records, faults>>
    BY <1>4 DEF Reply, ScriptOK
  <2> QED
    BY <1>0, <2>1, AnswerForgotten
<1>5. CASE \E h \in Handlers : InsertNonce(h)
  BY <1>0, <1>5, NonceInserted DEF InsertNonce
<1>6. CASE \E h \in Handlers : InsertRecord(h)
  BY <1>0, <1>6, RecordInserted DEF InsertRecord
<1>7. CASE \E h \in Handlers : Die(h)
  BY <1>0, <1>7, InvocationDies DEF Die, Fault
<1>8. CASE \E h \in Handlers : PostByAnybody(h, Dispatched)
  <2>1. PICK h \in Handlers : PostByAnybody(h, Dispatched)
    BY <1>8
  <2>2. PICK body \in Bodies(Dispatched) : Post(h, body)
    BY <2>1 DEF PostByAnybody
  <2>3. body \in AnyBody /\ faults' = faults + 1
    BY <2>1, <2>2, BodiesAreBodies DEF PostByAnybody, Fault
  <2> QED
    BY <1>0, <2>2, <2>3, Posted
<1>9. CASE \E h \in Handlers : Forget(h)
  BY <1>0, <1>9, AnswerForgotten DEF Forget
<1>10. CASE Run
  <2>1. CASE CreateJob \/ SubmitEvidence \/ RequestVerification
    BY <2>1, <1>1, <1>2 DEF CreateJob, SubmitEvidence, RequestVerification, Answer
  <2>2. CASE NoReply \/ ScriptDies
    BY <2>2, <1>2 DEF NoReply, ScriptDies
  <2>3. CASE \/ \E skip \in SUBSET Range(Works) : Start(skip)
             \/ SecondSendReverts \/ EnsureHubDelivery \/ WriteCheckpoint \/ Finish
    BY <2>3, <1>1 DEF Start, SecondSendReverts, EnsureHubDelivery, WriteCheckpoint, Finish
  <2> QED
    BY <1>3, <1>4, <1>10, <2>1, <2>2, <2>3 DEF Run
<1>11. CASE Api
  BY <1>5, <1>6, <1>7, <1>8, <1>9, <1>11 DEF Api
<1>12. CASE Chains
  BY <1>1, <1>12 DEF Chains, Adjudicate, Deliver, RefundLate, Quiet
<1>13. CASE UNCHANGED vars
  BY <1>1, <1>13 DEF vars
<1> QED
  BY <1>10, <1>11, <1>12, <1>13 DEF Next

-----------------------------------------------------------------------------
(* Jobs are numbered from one. *)
LEMMA JobsInOrder ==
  ASSUME JobsOK
  PROVE  Len(jobs) \in Nat /\ DOMAIN jobs = 1 .. Len(jobs)
  BY LenProperties DEF JobsOK

(* What a job that is written may not do: forget that it was dispatched, or *)
(* for which work.                                                         *)
Onward(old, new) ==
  /\ IsJob(new)
  /\ new.work = old.work
  /\ old.status \notin {"Created", "EvidenceSubmitted"} =>
       new.status \notin {"Created", "EvidenceSubmitted"}

(* In this step no job changes its work. *)
SameWorks == \A k \in 1 .. Len(jobs) : jobs'[k].work = jobs[k].work

(* A job is overwritten: the others stay, and none is undispatched. *)
LEMMA JobWritten ==
  ASSUME JobsOK, NEW j \in 1 .. Len(jobs), NEW job, Onward(jobs[j], job),
         jobs' = [jobs EXCEPT ![j] = job]
  PROVE  /\ JobsOK' /\ Len(jobs') = Len(jobs)
         /\ \A k \in 1 .. Len(jobs) : jobs'[k] = IF k = j THEN job ELSE jobs[k]
         /\ Dispatched \subseteq Dispatched' /\ SameWorks
<1>1. PICK S : jobs \in Seq(S)
  BY DEF JobsOK
<1>2. PICK T : T = S \cup {job}
  OBVIOUS
<1>3. jobs \in Seq(T) /\ job \in T
  BY <1>1, <1>2, SeqMonotonic
<1>4. /\ jobs' \in Seq(T) /\ Len(jobs') = Len(jobs)
      /\ \A k \in 1 .. Len(jobs) : jobs'[k] = IF k = j THEN job ELSE jobs[k]
  BY <1>3, ExceptSeq
<1>5. JobsOK'
  BY <1>4 DEF JobsOK, Onward
<1>6. DOMAIN jobs = 1 .. Len(jobs) /\ DOMAIN jobs' = 1 .. Len(jobs)
  BY <1>3, <1>4, LenProperties
<1>7. Dispatched \subseteq Dispatched'
  BY <1>4, <1>6 DEF Dispatched, Requested, Onward
<1>8. SameWorks
  BY <1>4 DEF SameWorks, Onward
<1> QED
  BY <1>4, <1>5, <1>7, <1>8

(* createJob appends a job that is not dispatched yet. *)
LEMMA JobAdded ==
  ASSUME JobsOK, CreateJob
  PROVE  /\ JobsOK' /\ Len(jobs') = Len(jobs) + 1
         /\ \A k \in 1 .. Len(jobs) : jobs'[k] = jobs[k]
         /\ jobs'[Len(jobs) + 1].status = "Created"
         /\ jobs'[Len(jobs) + 1].work = Works[Upcoming]
         /\ Dispatched \subseteq Dispatched' /\ SameWorks
<1>1. PICK S : jobs \in Seq(S)
  BY DEF JobsOK
<1>2. PICK job : job = Created(Works[Upcoming])
  OBVIOUS
<1>3. PICK T : T = S \cup {job}
  OBVIOUS
<1>4. jobs \in Seq(T) /\ job \in T /\ Len(jobs) \in Nat
  BY <1>1, <1>3, SeqMonotonic, LenProperties
<1>5. /\ jobs' \in Seq(T) /\ Len(jobs') = Len(jobs) + 1
      /\ \A k \in 1 .. Len(jobs) : jobs'[k] = jobs[k]
      /\ jobs'[Len(jobs) + 1] = job
  BY <1>2, <1>4, AppendProperties DEF CreateJob
<1>6. IsJob(job) /\ job.status = "Created" /\ job.work = Works[Upcoming]
  BY <1>2 DEF Created, IsJob
<1>7. JobsOK'
  BY <1>4, <1>5, <1>6 DEF JobsOK
<1>8. DOMAIN jobs = 1 .. Len(jobs) /\ DOMAIN jobs' = 1 .. Len(jobs) + 1
  BY <1>4, <1>5, LenProperties
<1>9. Dispatched \subseteq Dispatched'
  BY <1>4, <1>5, <1>8 DEF Dispatched, Requested
<1> QED
  BY <1>5, <1>6, <1>7, <1>9 DEF SameWorks

(* A job's status is overwritten. *)
LEMMA StatusWritten ==
  ASSUME JobsOK, NEW j \in 1 .. Len(jobs), NEW status, SetStatus(j, status),
         Requested(j) => status \notin {"Created", "EvidenceSubmitted"},
         status \notin {"Released", "Undetermined"}
  PROVE  /\ JobsOK' /\ Len(jobs') = Len(jobs)
         /\ \A k \in 1 .. Len(jobs) :
              jobs'[k].status = IF k = j THEN status ELSE jobs[k].status
         /\ Dispatched \subseteq Dispatched' /\ SameWorks
<1> DEFINE job == [jobs[j] EXCEPT !.status = status]
<1>1. IsJob(jobs[j])
  BY DEF JobsOK
<1>2. IsJob(job) /\ job.status = status /\ job.work = jobs[j].work
  BY <1>1 DEF IsJob
<1>3. jobs' = [jobs EXCEPT ![j] = job]
  BY DEF SetStatus
<1>4. Onward(jobs[j], job)
  BY <1>2 DEF Onward, Requested
<1> HIDE DEF job
<1>5. /\ JobsOK' /\ Len(jobs') = Len(jobs) /\ Dispatched \subseteq Dispatched' /\ SameWorks
      /\ \A k \in 1 .. Len(jobs) : jobs'[k] = IF k = j THEN job ELSE jobs[k]
  BY <1>3, <1>4, JobWritten
<1> QED
  BY <1>2, <1>5

(* What the chains do to a job that was not dispatched: nothing. *)
LEMMA ChainsStep ==
  ASSUME JobsOK, Chains
  PROVE  /\ JobsOK' /\ Len(jobs') = Len(jobs) /\ Dispatched \subseteq Dispatched'
         /\ SameWorks
         /\ \A k \in 1 .. Len(jobs) : ~Requested(k) => jobs'[k].status = jobs[k].status
         /\ UNCHANGED <<registration, faults, script, files, runs>>
<1>1. PICK j \in 1 .. Len(jobs) : Adjudicate(j) \/ Deliver(j) \/ RefundLate(j)
  BY JobsInOrder DEF Chains
<1>2. IsJob(jobs[j])
  BY DEF JobsOK
<1>3. UNCHANGED <<registration, faults, script, files, runs>>
  BY <1>1 DEF Adjudicate, Deliver, RefundLate, Quiet
<1>4. CASE Adjudicate(j)
  <2>1. PICK decision \in Decisions : jobs' = [jobs EXCEPT ![j].decision = decision]
    BY <1>4 DEF Adjudicate
  <2> DEFINE job == [jobs[j] EXCEPT !.decision = decision]
  <2>2. jobs' = [jobs EXCEPT ![j] = job]
    BY <2>1
  <2>3. Onward(jobs[j], job)
    BY <1>2 DEF Onward, IsJob
  <2>4. job.status = jobs[j].status
    BY <1>2 DEF IsJob
  <2> HIDE DEF job
  <2>5. /\ JobsOK' /\ Len(jobs') = Len(jobs) /\ Dispatched \subseteq Dispatched'
        /\ SameWorks
        /\ \A k \in 1 .. Len(jobs) : jobs'[k] = IF k = j THEN job ELSE jobs[k]
    BY <2>2, <2>3, JobWritten
  <2> QED
    BY <1>3, <2>4, <2>5
<1>5. CASE Deliver(j)
  <2> DEFINE status == SettledAs[jobs[j].decision]
             job == [jobs[j] EXCEPT !.status = status, !.executed = TRUE]
  <2>1. jobs' = [jobs EXCEPT ![j] = job]
    BY <1>5 DEF Deliver
  <2>2. jobs[j].decision \in Decisions /\ Requested(j)
    BY <1>2, <1>5 DEF Deliver, IsJob, Requested
  <2>3. status \in {"Released", "Refunded", "Undetermined"}
    BY <2>2 DEF SettledAs, Decisions
  <2> HIDE DEF status
  <2>4. job = [work |-> jobs[j].work, status |-> status,
               decision |-> jobs[j].decision, executed |-> TRUE]
    <3>1. PICK settled : settled = [jobs[j] EXCEPT !.status = status]
      OBVIOUS
    <3>2. settled = [work |-> jobs[j].work, status |-> status,
                     decision |-> jobs[j].decision, executed |-> jobs[j].executed]
      BY <1>2, <3>1 DEF IsJob
    <3>3. job = [settled EXCEPT !.executed = TRUE]
      BY <3>1
    <3> HIDE DEF job
    <3> QED
      BY <3>2, <3>3
  <2>5. Onward(jobs[j], job)
    BY <1>2, <2>3, <2>4 DEF Onward, IsJob
  <2> HIDE DEF job
  <2>6. /\ JobsOK' /\ Len(jobs') = Len(jobs) /\ Dispatched \subseteq Dispatched'
        /\ SameWorks
        /\ \A k \in 1 .. Len(jobs) : jobs'[k] = IF k = j THEN job ELSE jobs[k]
    BY <2>1, <2>5, JobWritten
  <2> QED
    BY <1>3, <2>2, <2>6
<1>6. CASE RefundLate(j)
  <2>1. SetStatus(j, "Refunded") /\ Requested(j)
    BY <1>6 DEF RefundLate, Requested
  <2> QED
    BY <1>3, <2>1, StatusWritten
<1> QED
  BY <1>1, <1>4, <1>5, <1>6

(* submitEvidence, in the escrow. *)
LEMMA SubmitEvidenceStep ==
  ASSUME JobsOK, ScriptOK, SubmitEvidence
  PROVE  /\ JobsOK' /\ Len(jobs') = Len(jobs) /\ Dispatched \subseteq Dispatched'
         /\ SameWorks /\ script.job \in 1 .. Len(jobs)
         /\ jobs'[script.job].status = "EvidenceSubmitted"
<1>1. script.job \in 1 .. Len(jobs) /\ ~Requested(script.job)
  BY DEF SubmitEvidence, At, ScriptOK, InHand, Requested
<1> QED
  BY <1>1, StatusWritten DEF SubmitEvidence

(***************************************************************************)
(* requestVerification, in the escrow: only now can the job's request be   *)
(* registered by anybody.                                                  *)
(***************************************************************************)
LEMMA RequestVerificationStep ==
  ASSUME JobsOK, ScriptOK, RequestVerification
  PROVE  /\ JobsOK' /\ Len(jobs') = Len(jobs) /\ Dispatched \subseteq Dispatched'
         /\ SameWorks /\ script.job \in 1 .. Len(jobs) /\ script.job \notin Dispatched
         /\ jobs'[script.job].status = "VerificationPending"
<1>1. script.job \in 1 .. Len(jobs) /\ ~Requested(script.job)
  BY DEF RequestVerification, At, ScriptOK, InHand, Requested
<1>2. /\ JobsOK' /\ Len(jobs') = Len(jobs) /\ Dispatched \subseteq Dispatched' /\ SameWorks
      /\ jobs'[script.job].status = "VerificationPending"
  BY <1>1, StatusWritten DEF RequestVerification
<1> QED
  BY <1>1, <1>2 DEF Dispatched

(* No step takes a job away, or makes it undispatched. *)
LEMMA JobsStep ==
  ASSUME GateInv, [Next]_vars
  PROVE  JobsOK' /\ Len(jobs) <= Len(jobs') /\ Dispatched \subseteq Dispatched' /\ SameWorks
<1> USE DEF GateInv
<1>0. Len(jobs) \in Nat
  BY JobsInOrder
<1>1. CASE UNCHANGED jobs
  BY <1>0, <1>1 DEF JobsOK, Dispatched, Requested, SameWorks
<1>2. CASE CreateJob
  BY <1>0, <1>2, JobAdded
<1>3. CASE SubmitEvidence
  BY <1>0, <1>3, SubmitEvidenceStep
<1>4. CASE RequestVerification
  BY <1>0, <1>4, RequestVerificationStep
<1>5. CASE Chains
  BY <1>0, <1>5, ChainsStep
<1>6. CASE Run
  <2>1. CASE \/ \E skip \in SUBSET Range(Works) : Start(skip)
             \/ SecondSendReverts \/ \E h \in Handlers : Register(h)
             \/ Reply \/ NoReply \/ EnsureHubDelivery \/ WriteCheckpoint \/ Finish
             \/ ScriptDies
    BY <1>1, <2>1 DEF Start, SecondSendReverts, Register, Reply, NoReply,
                      EnsureHubDelivery, WriteCheckpoint, Finish, ScriptDies
  <2> QED
    BY <1>2, <1>3, <1>4, <1>6, <2>1 DEF Run
<1>7. CASE Api
  BY <1>1, <1>7 DEF Api
<1>8. CASE UNCHANGED vars
  BY <1>1, <1>8 DEF vars
<1> QED
  BY <1>5, <1>6, <1>7, <1>8 DEF Next

-----------------------------------------------------------------------------
(* Whoever posts, posts for a job that was dispatched. *)
LEMMA PostedForDispatched ==
  ASSUME GateInv, NEW h \in Handlers, NEW body \in AnyBody, Post(h, body),
         body.request \in Dispatched, UNCHANGED jobs,
         faults' \in Nat, faults <= faults'
  PROVE  DispatchedOnly'
<1>1. PICK state \in States :
        /\ Set(h, state)
        /\ IF Verified(body) THEN state = [pc |-> "nonce", body |-> body]
                             ELSE state.pc = "422"
  BY Posted DEF GateInv
<1>2. /\ posts'[h] = state
      /\ \A k \in Handlers : k # h => posts'[k] = posts[k]
  BY <1>1, SetPointwise DEF GateInv, RegistrationInv
<1>3. UNCHANGED nonces /\ Dispatched' = Dispatched
  BY DEF Post, Dispatched, Requested
<1>4. Verified(body) => body.nonce \in Dispatched
  BY DEF Verified
<1> QED
  BY <1>1, <1>2, <1>3, <1>4 DEF GateInv, DispatchedOnly, Working

(* The body the script posts is verified, whatever happens meanwhile. *)
LEMMA ScriptPosts ==
  ASSUME GateInv, NEW h \in Handlers, Register(h)
  PROVE  LET body == Body(script.job, "lower", script.job, {})
         IN /\ script.job \in 1 .. Len(jobs) /\ script.job \in Dispatched
            /\ body \in AnyBody /\ Verified(body) /\ Post(h, body)
            /\ body.request = script.job /\ body.nonce = script.job
<1>1. script.job \in 1 .. Len(jobs) /\ Requested(script.job)
  BY DEF Register, At, GateInv, ScriptOK, InHand
<1>2. script.job \in Dispatched /\ script.job \in Nat
  BY <1>1, JobsInOrder DEF GateInv, Dispatched
<1> QED
  BY <1>1, <1>2 DEF Body, AnyBody, Spellings, Verified, Register

(* Working invocations are the same or fewer, and no nonce is added. *)
LEMMA NobodyElsePosts ==
  ASSUME DispatchedOnly, Dispatched \subseteq Dispatched', UNCHANGED nonces,
         \A k \in Handlers : Working(k)' =>
           Working(k) /\ posts'[k].body.nonce = posts[k].body.nonce
  PROVE  DispatchedOnly'
  BY DEF DispatchedOnly

(* Nonces and bodies at work stay those of dispatched jobs. *)
LEMMA DispatchedStep ==
  ASSUME GateInv, [Next]_vars
  PROVE  DispatchedOnly'
<1>0. /\ JobsOK /\ RegistrationTypes /\ DispatchedOnly /\ ScriptOK
      /\ Dispatched \subseteq Dispatched' /\ faults' \in Nat /\ faults <= faults'
  BY JobsStep, RegistrationStep DEF GateInv, RegistrationInv
<1>1. CASE UNCHANGED registration
  BY <1>0, <1>1, NobodyElsePosts DEF registration, Working
<1>2. CASE \E h \in Handlers : Register(h)
  <2>1. PICK h \in Handlers : Register(h)
    BY <1>2
  <2>2. PICK body : body = Body(script.job, "lower", script.job, {})
    OBVIOUS
  <2>3. body \in AnyBody /\ Post(h, body) /\ body.request \in Dispatched
    BY <2>1, <2>2, ScriptPosts
  <2> QED
    BY <1>0, <2>1, <2>3, PostedForDispatched DEF Register
<1>3. CASE \E h \in Handlers : PostByAnybody(h, Dispatched) /\ UNCHANGED jobs
  <2>1. PICK h \in Handlers, body \in Bodies(Dispatched) : Post(h, body) /\ UNCHANGED jobs
    BY <1>3 DEF PostByAnybody
  <2>2. body \in AnyBody /\ body.request \in Dispatched
    BY <1>0, BodiesAreBodies
  <2> QED
    BY <1>0, <2>1, <2>2, PostedForDispatched
<1>4. ASSUME NEW h \in Handlers, NEW reply \in {"idle"} \cup Replies,
             Set(h, Answered(reply)), UNCHANGED nonces
      PROVE  DispatchedOnly'
  <2>1. Answered(reply) \in States /\ Answered(reply).pc = reply
    BY AnsweredIsState
  <2>2. /\ posts'[h].pc = reply
        /\ \A k \in Handlers : k # h => posts'[k] = posts[k]
    BY <1>0, <1>4, <2>1, SetPointwise
  <2>3. \A k \in Handlers : Working(k)' =>
          Working(k) /\ posts'[k].body.nonce = posts[k].body.nonce
    BY <2>2 DEF Working, Replies
  <2> QED
    BY <1>0, <1>4, <2>3, NobodyElsePosts
<1>5. CASE Reply
  BY <1>0, <1>5, <1>4 DEF Reply, ScriptOK, Idle
<1>6. CASE \E h \in Handlers : InsertNonce(h) /\ UNCHANGED jobs
  <2>1. PICK h \in Handlers : InsertNonce(h) /\ UNCHANGED jobs
    BY <1>6
  <2>2. CASE NonceKey(posts[h].body) \in nonces
    BY <1>4, <2>1, <2>2 DEF InsertNonce, Replies
  <2>3. CASE NonceKey(posts[h].body) \notin nonces
    <3> DEFINE state == [posts[h] EXCEPT !.pc = "record"]
    <3>1. /\ nonces' = nonces \cup {<<"lower", posts[h].body.nonce>>}
          /\ Set(h, state) /\ posts[h].pc = "nonce"
      BY <2>1, <2>3 DEF InsertNonce, NonceKey
    <3>2. posts[h].body.nonce \in Dispatched
      BY <1>0, <3>1 DEF DispatchedOnly, Working
    <3>3. state \in States /\ state.body = posts[h].body
      BY <1>0 DEF RegistrationTypes, States
    <3> HIDE DEF state
    <3>4. /\ posts'[h] = state
          /\ \A k \in Handlers : k # h => posts'[k] = posts[k]
      BY <1>0, <3>1, <3>3, SetPointwise
    <3>5. nonces' \subseteq {"lower"} \X Dispatched'
      BY <1>0, <3>1, <3>2 DEF DispatchedOnly
    <3>6. \A k \in Handlers : Working(k)' => posts'[k].body.nonce \in Dispatched'
      BY <1>0, <3>2, <3>3, <3>4 DEF DispatchedOnly, Working
    <3> QED
      BY <3>5, <3>6 DEF DispatchedOnly
  <2> QED
    BY <2>2, <2>3
<1>7. CASE \E h \in Handlers : InsertRecord(h)
  BY <1>4, <1>7, RecordInserted DEF InsertRecord, Replies, GateInv
<1>8. CASE \E h \in Handlers : Die(h)
  BY <1>4, <1>8 DEF Die, Replies
<1>9. CASE \E h \in Handlers : Forget(h)
  BY <1>4, <1>9 DEF Forget, Idle
<1>10. CASE Run
  BY <1>1, <1>2, <1>5, <1>10
     DEF Run, Start, CreateJob, SubmitEvidence, RequestVerification, SecondSendReverts,
         NoReply, EnsureHubDelivery, WriteCheckpoint, Finish, ScriptDies
<1>11. CASE Api
  BY <1>3, <1>6, <1>7, <1>8, <1>9, <1>11 DEF Api
<1>12. CASE Chains
  BY <1>0, <1>1, <1>12, ChainsStep
<1>13. CASE UNCHANGED vars
  BY <1>1, <1>13 DEF vars
<1> QED
  BY <1>10, <1>11, <1>12, <1>13 DEF Next

-----------------------------------------------------------------------------
(* The script may rest while jobs are written by others. *)
LEMMA ScriptStays ==
  ASSUME GateInv, UNCHANGED script, JobsOK', Len(jobs) <= Len(jobs'),
         Dispatched \subseteq Dispatched'
  PROVE  ScriptOK'
<1>1. Len(jobs) \in Nat /\ DOMAIN jobs = 1 .. Len(jobs)
      /\ Len(jobs') \in Nat /\ DOMAIN jobs' = 1 .. Len(jobs')
  <2>1. Len(jobs) \in Nat /\ DOMAIN jobs = 1 .. Len(jobs)
    BY JobsInOrder DEF GateInv
  <2>2. (Len(jobs) \in Nat /\ DOMAIN jobs = 1 .. Len(jobs))'
    BY LenProperties DEF JobsOK
  <2> QED
    BY <2>1, <2>2
<1>2. InHand' \subseteq 1 .. Len(jobs')
  BY <1>1 DEF GateInv, ScriptOK, InHand, At
<1>3. (At("register") \/ At("reply") => Requested(script.job))'
  <2>1. CASE At("register") \/ At("reply")
    <3>1. script.job \in Dispatched
      BY <2>1, <1>1 DEF GateInv, ScriptOK, InHand, At, Dispatched
    <3> QED
      BY <3>1 DEF Dispatched, Requested
  <2>2. CASE ~(At("register") \/ At("reply"))
    BY <2>2 DEF At
  <2> QED
    BY <2>1, <2>2
<1> QED
  BY <1>2, <1>3 DEF GateInv, ScriptOK, At

(* The process ends: nothing is in hand any more. *)
LEMMA ScriptEnds ==
  ASSUME End
  PROVE  ScriptOK' /\ At("off")' /\ InHand' = {}
<1>1. script' = Off /\ Off.pc = "off" /\ Off.prepared = <<>>
      /\ Off = [pc |-> Off.pc, todo |-> Off.todo, job |-> Off.job,
                post |-> Off.post, prepared |-> Off.prepared]
  BY DEF End, Off
<1>2. <<>> \in Seq(Nat)
  BY EmptySeq
<1>3. At("off")' /\ InHand' = {}
  BY <1>1 DEF At, InHand
<1> QED
  BY <1>1, <1>2, <1>3 DEF ScriptOK, At, Pcs

(* To a place where the job in hand is an old one. *)
LEMMA ScriptGoesOn ==
  ASSUME GateInv, NEW pc \in {"evidence", "request", "register", "hub"}, GoTo(pc),
         InHand # {}, Len(jobs) <= Len(jobs'), Len(jobs') \in Nat,
         pc = "register" => Requested(script.job)'
  PROVE  ScriptOK' /\ At(pc)' /\ InHand' = InHand /\ script'.job = script.job
         /\ script'.prepared = script.prepared
<1>1. /\ script' = [pc |-> pc, todo |-> script.todo, job |-> script.job,
                    post |-> Nobody, prepared |-> script.prepared]
      /\ script.prepared \in Seq(Nat)
  BY DEF GoTo, GateInv, ScriptOK
<1>2. InHand = {script.job} /\ script.job \in 1 .. Len(jobs) /\ Len(jobs) \in Nat
  BY JobsInOrder DEF InHand, GateInv, ScriptOK
<1>3. /\ script'.pc = pc /\ script'.job = script.job /\ script'.prepared = script.prepared
      /\ script' = [pc |-> script'.pc, todo |-> script'.todo, job |-> script'.job,
                    post |-> script'.post, prepared |-> script'.prepared]
  BY <1>1
<1>4. InHand' = {script.job}
  BY <1>3 DEF InHand, At
<1>5. script.job \in 1 .. Len(jobs')
  BY <1>2
<1> QED
  BY <1>1, <1>2, <1>3, <1>4, <1>5 DEF ScriptOK, At, Pcs

(* Checkpoints that nobody writes. *)
LEMMA FilesStay ==
  ASSUME GateInv, UNCHANGED <<files, runs>>,
         \/ At("off")'
         \/ ~At("off") /\ script'.prepared = script.prepared
  PROVE  FilesOK'
  BY DEF GateInv, FilesOK, At

(* The step of the script that changes more than its place. *)
LEMMA StartStep ==
  ASSUME GateInv, NEW skip, Start(skip)
  PROVE  ScriptOK' /\ FilesOK' /\ At("create")' /\ InHand' = {} /\ Kept \subseteq Kept'
<1>1. PICK todo : script' = [Off EXCEPT !.pc = "create", !.todo = todo]
  BY DEF Start
<1>2. script' = [pc |-> "create", todo |-> todo, job |-> 0, post |-> Nobody,
                 prepared |-> <<>>]
  BY <1>1 DEF Off
<1>3. /\ script'.pc = "create" /\ script'.prepared = <<>>
      /\ script' = [pc |-> script'.pc, todo |-> script'.todo, job |-> script'.job,
                    post |-> script'.post, prepared |-> script'.prepared]
  BY <1>2
<1>4. At("create")' /\ InHand' = {}
  BY <1>3 DEF At, InHand
<1>5. <<>> \in Seq(Nat)
  BY EmptySeq
<1>6. ScriptOK'
  BY <1>3, <1>4, <1>5 DEF ScriptOK, At, Pcs
<1>7. files \in Seq(Seq(Nat)) /\ Len(files) = runs /\ runs \in Nat
      /\ files' = Append(files, <<>>) /\ runs' = runs + 1
  BY DEF GateInv, FilesOK, Start
<1>8. /\ files' \in Seq(Seq(Nat)) /\ Len(files') = runs'
      /\ \A i \in 1 .. runs : files'[i] = files[i]
      /\ files'[runs'] = <<>>
  BY <1>5, <1>7, AppendProperties
<1>9. DOMAIN files = 1 .. runs /\ DOMAIN files' = 1 .. runs'
  BY <1>7, <1>8, LenProperties
<1>10. Range(files'[runs']) = {}
  BY <1>8 DEF Range
<1>11. FilesOK'
  BY <1>7, <1>8, <1>10 DEF FilesOK
<1>12. 1 .. runs \subseteq DOMAIN files'
  BY <1>7, <1>9
<1>13. \A i \in 1 .. runs : Range(files[i]) \subseteq Kept'
  BY <1>8, <1>12 DEF Kept
<1>14. Kept \subseteq Kept'
  BY <1>9, <1>13 DEF Kept
<1> QED
  BY <1>4, <1>6, <1>11, <1>14

(* prepared.push: the job in hand is written down, but only in memory. *)
LEMMA EnsureHubDeliveryStep ==
  ASSUME GateInv, EnsureHubDelivery
  PROVE  ScriptOK' /\ FilesOK' /\ At("checkpoint")' /\ InHand' = InHand /\ Kept' = Kept
<1> DEFINE prepared == Append(script.prepared, script.job)
<1>1. /\ script' = [pc |-> "checkpoint", todo |-> script.todo, job |-> script.job,
                    post |-> script.post, prepared |-> prepared]
      /\ script.pc = "hub" /\ UNCHANGED <<jobs, files, runs>>
  BY DEF EnsureHubDelivery, GateInv, ScriptOK, At
<1>2. InHand = {script.job} /\ script.job \in 1 .. Len(jobs) /\ script.job \in Nat
      /\ script.prepared \in Seq(Nat)
  BY <1>1, JobsInOrder DEF InHand, At, GateInv, ScriptOK
<1>3. /\ prepared \in Seq(Nat) /\ Len(prepared) = Len(script.prepared) + 1
      /\ \A i \in 1 .. Len(script.prepared) : prepared[i] = script.prepared[i]
      /\ prepared[Len(script.prepared) + 1] = script.job
  BY <1>2, AppendProperties
<1>4. /\ Len(script.prepared) \in Nat /\ DOMAIN script.prepared = 1 .. Len(script.prepared)
      /\ DOMAIN prepared = 1 .. Len(script.prepared) + 1
  BY <1>2, <1>3, LenProperties
<1> HIDE DEF prepared
<1>5. Range(script.prepared) \subseteq Range(prepared) /\ script.job \in Range(prepared)
  <2>1. /\ Len(script.prepared) + 1 \in DOMAIN prepared
        /\ \A i \in DOMAIN script.prepared :
             i \in DOMAIN prepared /\ prepared[i] = script.prepared[i]
    BY <1>3, <1>4
  <2>2. \A x \in Range(script.prepared) : \E i \in DOMAIN script.prepared :
          x = script.prepared[i]
    BY DEF Range
  <2>3. \A i \in DOMAIN prepared : prepared[i] \in Range(prepared)
    BY DEF Range
  <2> QED
    BY <1>3, <2>1, <2>2, <2>3
<1>6. /\ script'.pc = "checkpoint" /\ script'.job = script.job /\ script'.prepared = prepared
      /\ script' = [pc |-> script'.pc, todo |-> script'.todo, job |-> script'.job,
                    post |-> script'.post, prepared |-> script'.prepared]
  BY <1>1
<1>7. At("checkpoint")' /\ InHand' = {script.job}
  BY <1>6 DEF InHand, At
<1>8. ScriptOK'
  BY <1>1, <1>2, <1>3, <1>5, <1>6, <1>7 DEF ScriptOK, At, Pcs
<1>9. FilesOK'
  BY <1>1, <1>5, <1>6 DEF GateInv, FilesOK, At
<1> QED
  BY <1>1, <1>2, <1>7, <1>8, <1>9 DEF Kept

(***************************************************************************)
(* writeFile: the checkpoint has the job in hand, and whatever it had      *)
(* before.                                                                 *)
(***************************************************************************)
LEMMA WriteCheckpointStep ==
  ASSUME GateInv, WriteCheckpoint
  PROVE  /\ ScriptOK' /\ FilesOK' /\ InHand' = {} /\ script.job \in Kept'
         /\ Kept \subseteq Kept' /\ ~Spoiled'
<1>1. /\ script.pc = "checkpoint" /\ UNCHANGED <<jobs, runs>>
      /\ files' = [files EXCEPT ![runs] = script.prepared]
  BY DEF WriteCheckpoint, Written, At
<1>2. PICK todo, pc :
        /\ pc \in {"create", "poll"}
        /\ script' = [script EXCEPT !.todo = todo, !.pc = pc]
  <2> DEFINE next == IF script.todo = {Upcoming} THEN "poll" ELSE "create"
  <2>1. script' = [script EXCEPT !.todo = script.todo \ {Upcoming}, !.pc = next]
    BY DEF WriteCheckpoint
  <2>2. next \in {"create", "poll"}
    OBVIOUS
  <2> QED
    BY <2>1, <2>2
<1>3. script' = [pc |-> pc, todo |-> todo, job |-> script.job, post |-> script.post,
                 prepared |-> script.prepared]
  BY <1>2 DEF GateInv, ScriptOK
<1>4. /\ script'.pc = pc /\ script'.prepared = script.prepared
      /\ script' = [pc |-> script'.pc, todo |-> script'.todo, job |-> script'.job,
                    post |-> script'.post, prepared |-> script'.prepared]
  BY <1>3
<1>5. InHand' = {} /\ ~Spoiled'
  BY <1>2, <1>4 DEF InHand, At, Spoiled
<1>6. script.prepared \in Seq(Nat) /\ script.job \in Range(script.prepared)
  BY <1>1 DEF GateInv, ScriptOK, At
<1>7. ScriptOK'
  BY <1>2, <1>4, <1>5, <1>6 DEF ScriptOK, At, Pcs
<1>8. /\ files \in Seq(Seq(Nat)) /\ Len(files) = runs /\ runs \in Nat /\ runs > 0
      /\ Range(files[runs]) \subseteq Range(script.prepared)
  BY <1>1 DEF GateInv, FilesOK, At
<1>9. runs \in 1 .. Len(files)
  BY <1>8
<1>10. /\ files' \in Seq(Seq(Nat)) /\ Len(files') = runs
       /\ \A i \in 1 .. runs : files'[i] = IF i = runs THEN script.prepared ELSE files[i]
  BY <1>1, <1>6, <1>8, <1>9, ExceptSeq
<1>11. DOMAIN files = 1 .. runs /\ DOMAIN files' = 1 .. runs
  BY <1>8, <1>10, LenProperties
<1>12. FilesOK'
  BY <1>1, <1>4, <1>8, <1>9, <1>10 DEF FilesOK
<1>13. Range(script.prepared) \subseteq Kept'
  BY <1>8, <1>9, <1>10, <1>11 DEF Kept
<1>14. \A i \in 1 .. runs : Range(files[i]) \subseteq Kept'
  <2> SUFFICES ASSUME NEW i \in 1 .. runs
               PROVE  Range(files[i]) \subseteq Kept'
    OBVIOUS
  <2>1. CASE i = runs
    BY <2>1, <1>8, <1>13
  <2>2. CASE i # runs
    BY <2>2, <1>10, <1>11 DEF Kept
  <2> QED
    BY <2>1, <2>2
<1>15. Kept \subseteq Kept'
  BY <1>11, <1>14 DEF Kept
<1> QED
  BY <1>5, <1>6, <1>7, <1>12, <1>13, <1>15

-----------------------------------------------------------------------------
(* Lost jobs are jobs. *)
LEMMA LostFinite ==
  ASSUME JobsOK
  PROVE  IsFiniteSet(Lost)
<1>1. IsFiniteSet(1 .. Len(jobs))
  BY JobsInOrder, FS_Interval
<1>2. Lost \subseteq 1 .. Len(jobs)
  BY JobsInOrder DEF Lost
<1> QED
  BY <1>1, <1>2, FS_Subset

(* The three ways in which a step keeps FewLost. *)
LEMMA NoNewLoss ==
  ASSUME GateInv, JobsOK', Lost' \subseteq Lost, Spoiled' => Spoiled,
         faults' \in Nat, faults <= faults'
  PROVE  FewLost'
<1>1. Cardinality(Lost) \in Nat /\ Cardinality(Lost') <= Cardinality(Lost)
      /\ Cardinality(Lost') \in Nat
  BY LostFinite, FS_Subset, FS_CardinalityType DEF GateInv
<1>2. faults \in Nat
  BY DEF GateInv, RegistrationInv, RegistrationTypes
<1>3. Cardinality(Lost) + (IF Spoiled THEN 1 ELSE 0) <= faults
  BY DEF GateInv, FewLost
<1>4. CASE Spoiled
  BY <1>1, <1>2, <1>3, <1>4 DEF FewLost
<1>5. CASE ~Spoiled
  BY <1>1, <1>2, <1>3, <1>5 DEF FewLost
<1> QED
  BY <1>4, <1>5

(* A failure may spoil the job in hand. *)
LEMMA FaultSpoils ==
  ASSUME GateInv, Lost' \subseteq Lost, faults' = faults + 1
  PROVE  FewLost'
<1>1. Cardinality(Lost) \in Nat /\ Cardinality(Lost') <= Cardinality(Lost)
      /\ Cardinality(Lost') \in Nat
  BY LostFinite, FS_Subset, FS_CardinalityType DEF GateInv
<1>2. faults \in Nat
  BY DEF GateInv, RegistrationInv, RegistrationTypes
<1>3. Cardinality(Lost) <= faults
  <2>1. Cardinality(Lost) + (IF Spoiled THEN 1 ELSE 0) <= faults
    BY DEF GateInv, FewLost
  <2>2. CASE Spoiled
    BY <1>1, <1>2, <2>1, <2>2
  <2>3. CASE ~Spoiled
    BY <1>1, <1>2, <2>1, <2>3
  <2> QED
    BY <2>2, <2>3
<1> QED
  BY <1>1, <1>2, <1>3 DEF FewLost

(* A job is lost that was already paid for, or to a failure. *)
LEMMA OneJobLost ==
  ASSUME GateInv, NEW x, Lost' \subseteq Lost \cup {x}, ~Spoiled',
         \/ Spoiled /\ UNCHANGED faults
         \/ faults' = faults + 1
  PROVE  FewLost'
<1>1. Cardinality(Lost) \in Nat /\ Cardinality(Lost') <= Cardinality(Lost) + 1
      /\ Cardinality(Lost') \in Nat
  BY LostFinite, OneMore, FS_CardinalityType DEF GateInv
<1>2. faults \in Nat
  BY DEF GateInv, RegistrationInv, RegistrationTypes
<1>3. Cardinality(Lost) + (IF Spoiled THEN 1 ELSE 0) <= faults
  BY DEF GateInv, FewLost
<1>4. CASE Spoiled
  BY <1>1, <1>2, <1>3, <1>4 DEF FewLost
<1>5. CASE ~Spoiled
  BY <1>1, <1>2, <1>3, <1>5 DEF FewLost
<1> QED
  BY <1>4, <1>5

(* The process ends: what it had in hand is lost. *)
LEMMA EndLoses ==
  ASSUME GateInv, End, UNCHANGED <<jobs, files, runs>>,
         \/ Spoiled /\ UNCHANGED faults
         \/ faults' = faults + 1
  PROVE  ScriptOK' /\ FilesOK' /\ FewLost'
<1>1. ScriptOK' /\ At("off")' /\ InHand' = {}
  BY ScriptEnds
<1>2. FilesOK'
  BY <1>1, FilesStay
<1>3. ~Spoiled'
  BY <1>1 DEF At, Spoiled
<1>4. Lost' \subseteq Lost \cup {script.job}
  BY <1>1 DEF Lost, Kept, InHand
<1> QED
  BY <1>1, <1>2, <1>3, <1>4, OneJobLost

-----------------------------------------------------------------------------
(* What the script does, call by call. *)
LEMMA CreateJobKeeps ==
  ASSUME GateInv, CreateJob
  PROVE  ScriptOK' /\ FilesOK' /\ FewLost'
<1>1. /\ JobsOK' /\ Len(jobs') = Len(jobs) + 1 /\ Dispatched \subseteq Dispatched'
      /\ jobs'[Len(jobs) + 1].status = "Created"
  BY JobAdded DEF GateInv
<1>2. /\ Len(jobs) \in Nat /\ DOMAIN jobs = 1 .. Len(jobs)
      /\ DOMAIN jobs' = 1 .. Len(jobs) + 1
  <2>1. Len(jobs) \in Nat /\ DOMAIN jobs = 1 .. Len(jobs)
    BY JobsInOrder DEF GateInv
  <2>2. (DOMAIN jobs = 1 .. Len(jobs))'
    BY <1>1, LenProperties DEF JobsOK
  <2> QED
    BY <1>1, <2>1, <2>2
<1>3. script.pc = "create" /\ InHand = {} /\ UNCHANGED <<files, runs>> /\ Kept' = Kept
  BY DEF CreateJob, At, InHand, Kept
<1>4. faults \in Nat
  BY DEF GateInv, RegistrationInv, RegistrationTypes
<1>5. CASE script' = [script EXCEPT !.pc = "evidence", !.job = Len(jobs) + 1]
           /\ UNCHANGED faults
  <2>1. script' = [pc |-> "evidence", todo |-> script.todo, job |-> Len(jobs) + 1,
                   post |-> script.post, prepared |-> script.prepared]
    BY <1>5 DEF GateInv, ScriptOK
  <2>2. /\ script'.pc = "evidence" /\ script'.job = Len(jobs) + 1
        /\ script'.prepared = script.prepared
        /\ script' = [pc |-> script'.pc, todo |-> script'.todo, job |-> script'.job,
                      post |-> script'.post, prepared |-> script'.prepared]
    BY <2>1
  <2>3. InHand' = {Len(jobs) + 1}
    BY <2>2 DEF InHand, At
  <2>4. Len(jobs) + 1 \in 1 .. Len(jobs')
    BY <1>1, <1>2
  <2>5. ScriptOK'
    BY <2>2, <2>3, <2>4 DEF GateInv, ScriptOK, At, Pcs
  <2>6. FilesOK'
    BY <1>3, <2>2, FilesStay DEF At
  <2>7. ~Spoiled'
    BY <1>1, <2>2 DEF At, Spoiled
  <2>8. Lost' \subseteq Lost
    BY <1>2, <1>3, <2>3 DEF Lost
  <2> QED
    BY <1>1, <1>4, <1>5, <2>5, <2>6, <2>7, <2>8, NoNewLoss
<1>6. CASE Fault /\ UNCHANGED script
  <2>1. ScriptOK'
    BY <1>1, <1>2, <1>6, ScriptStays
  <2>2. FilesOK'
    BY <1>3, <1>6, FilesStay DEF At
  <2>3. ~Spoiled' /\ InHand' = {}
    BY <1>3, <1>6 DEF At, Spoiled, InHand
  <2>4. Lost' \subseteq Lost \cup {Len(jobs) + 1}
    BY <1>2, <1>3, <2>3 DEF Lost
  <2>5. faults' = faults + 1
    BY <1>6 DEF Fault
  <2> QED
    BY <2>1, <2>2, <2>3, <2>4, <2>5, OneJobLost
<1> QED
  BY <1>5, <1>6 DEF CreateJob

(* Jobs, checkpoints and what is in hand stay what they are. *)
LEMMA NothingLost ==
  ASSUME JobsOK, JobsOK', Len(jobs') = Len(jobs), Kept \subseteq Kept',
         InHand' = InHand \/ InHand = {}
  PROVE  Lost' \subseteq Lost
<1>1. DOMAIN jobs = 1 .. Len(jobs)
  BY JobsInOrder
<1>2. (DOMAIN jobs = 1 .. Len(jobs))'
  BY LenProperties DEF JobsOK
<1> QED
  BY <1>1, <1>2 DEF Lost

(* submitEvidence: if its answer is lost, the second will revert. *)
LEMMA SubmitEvidenceKeeps ==
  ASSUME GateInv, SubmitEvidence
  PROVE  ScriptOK' /\ FilesOK' /\ FewLost'
<1>1. /\ JobsOK' /\ Len(jobs') = Len(jobs) /\ Dispatched \subseteq Dispatched'
      /\ script.job \in 1 .. Len(jobs)
      /\ jobs'[script.job].status = "EvidenceSubmitted"
  BY SubmitEvidenceStep DEF GateInv
<1>2. /\ script.pc = "evidence" /\ InHand = {script.job} /\ UNCHANGED <<files, runs>>
      /\ Kept' = Kept /\ Len(jobs) \in Nat
  BY JobsInOrder DEF SubmitEvidence, At, InHand, Kept, GateInv
<1>3. faults \in Nat /\ JobsOK
  BY DEF GateInv, RegistrationInv, RegistrationTypes
<1>4. CASE GoTo("request") /\ UNCHANGED faults
  <2>1. ScriptOK' /\ At("request")' /\ InHand' = InHand /\ script'.job = script.job
        /\ script'.prepared = script.prepared
    BY <1>1, <1>2, <1>4, ScriptGoesOn
  <2>2. FilesOK'
    BY <1>2, <2>1, FilesStay DEF At
  <2>3. ~Spoiled'
    BY <1>1, <2>1 DEF At, Spoiled
  <2>4. Lost' \subseteq Lost
    BY <1>1, <1>2, <1>3, <2>1, NothingLost
  <2> QED
    BY <1>1, <1>3, <1>4, <2>1, <2>2, <2>3, <2>4, NoNewLoss
<1>5. CASE Fault /\ UNCHANGED script
  <2>1. ScriptOK'
    BY <1>1, <1>2, <1>5, ScriptStays
  <2>2. FilesOK' /\ InHand' = InHand
    BY <1>2, <1>5, FilesStay DEF At, InHand
  <2>3. Lost' \subseteq Lost
    BY <1>1, <1>2, <1>3, <2>2, NothingLost
  <2>4. faults' = faults + 1
    BY <1>5 DEF Fault
  <2> QED
    BY <2>1, <2>2, <2>3, <2>4, FaultSpoils
<1> QED
  BY <1>4, <1>5 DEF SubmitEvidence, Answer

(***************************************************************************)
(* requestVerification, likewise; before it nobody can have registered the *)
(* job's request.                                                          *)
(***************************************************************************)
LEMMA RequestVerificationKeeps ==
  ASSUME GateInv, RequestVerification
  PROVE  ScriptOK' /\ FilesOK' /\ FewLost'
<1>1. /\ JobsOK' /\ Len(jobs') = Len(jobs) /\ Dispatched \subseteq Dispatched'
      /\ script.job \in 1 .. Len(jobs) /\ script.job \notin Dispatched
      /\ jobs'[script.job].status = "VerificationPending"
  BY RequestVerificationStep DEF GateInv
<1>2. /\ script.pc = "request" /\ InHand = {script.job} /\ UNCHANGED <<files, runs>>
      /\ Kept' = Kept /\ Len(jobs) \in Nat /\ UNCHANGED <<nonces, posts>>
  BY JobsInOrder DEF RequestVerification, At, InHand, Kept, GateInv, registration
<1>3. faults \in Nat /\ JobsOK /\ DispatchedOnly
  BY DEF GateInv, RegistrationInv, RegistrationTypes
<1>4. CASE GoTo("register") /\ UNCHANGED faults
  <2>0. script'.job = script.job
    BY <1>4 DEF GoTo, GateInv, ScriptOK
  <2>1. ScriptOK' /\ At("register")' /\ InHand' = InHand
        /\ script'.prepared = script.prepared
    <3>1. Requested(script.job)'
      BY <1>1, <2>0 DEF Requested
    <3> QED
      BY <1>1, <1>2, <1>4, <3>1, ScriptGoesOn
  <2>2. FilesOK'
    BY <1>2, <2>1, FilesStay DEF At
  <2>3. ~Spoiled'
    <3>1. <<"lower", script.job>> \notin nonces
      BY <1>1, <1>3 DEF DispatchedOnly
    <3>2. \A h \in Handlers : Working(h) => posts[h].body.nonce # script.job
      BY <1>1, <1>3 DEF DispatchedOnly
    <3> QED
      BY <1>2, <2>0, <2>1, <3>1, <3>2 DEF At, Spoiled, Taken, Working
  <2>4. Lost' \subseteq Lost
    BY <1>1, <1>2, <1>3, <2>1, NothingLost
  <2> QED
    BY <1>1, <1>3, <1>4, <2>1, <2>2, <2>3, <2>4, NoNewLoss
<1>5. CASE Fault /\ UNCHANGED script
  <2>1. ScriptOK'
    BY <1>1, <1>2, <1>5, ScriptStays
  <2>2. FilesOK' /\ InHand' = InHand
    BY <1>2, <1>5, FilesStay DEF At, InHand
  <2>3. Lost' \subseteq Lost
    BY <1>1, <1>2, <1>3, <2>2, NothingLost
  <2>4. faults' = faults + 1
    BY <1>5 DEF Fault
  <2> QED
    BY <2>1, <2>2, <2>3, <2>4, FaultSpoils
<1> QED
  BY <1>4, <1>5 DEF RequestVerification, Answer

(***************************************************************************)
(* The second transaction reverts, and the process ends: this was paid for.*)
(***************************************************************************)
LEMMA SecondSendRevertsKeeps ==
  ASSUME GateInv, SecondSendReverts
  PROVE  ScriptOK' /\ FilesOK' /\ FewLost'
<1>1. Spoiled
  BY DEF SecondSendReverts, Spoiled
<1> QED
  BY <1>1, EndLoses DEF SecondSendReverts

(* The post of a request that nobody registered will be answered with 201. *)
LEMMA RegisterKeeps ==
  ASSUME GateInv, NEW h \in Handlers, Register(h)
  PROVE  ScriptOK' /\ FilesOK' /\ FewLost'
<1>1. PICK body : body = Body(script.job, "lower", script.job, {})
  OBVIOUS
<1>2. /\ script.job \in 1 .. Len(jobs) /\ script.job \in Dispatched
      /\ body \in AnyBody /\ Verified(body) /\ Post(h, body)
      /\ body.nonce = script.job
  BY <1>1, ScriptPosts
<1>3. /\ script.pc = "register" /\ UNCHANGED <<nonces, faults, jobs, files, runs>>
      /\ faults \in Nat /\ JobsOK /\ JobsOK' /\ InHand = {script.job} /\ Kept' = Kept
  BY <1>2 DEF Register, At, GateInv, RegistrationInv, RegistrationTypes, JobsOK, InHand,
              Kept, Post
<1>4. script' = [pc |-> "reply", todo |-> script.todo, job |-> script.job,
                 post |-> h, prepared |-> script.prepared]
  BY DEF Register, GateInv, ScriptOK
<1>5. /\ script'.pc = "reply" /\ script'.job = script.job /\ script'.post = h
      /\ script'.prepared = script.prepared
      /\ script' = [pc |-> script'.pc, todo |-> script'.todo, job |-> script'.job,
                    post |-> script'.post, prepared |-> script'.prepared]
  BY <1>4
<1>6. InHand' = InHand
  BY <1>3, <1>5 DEF InHand, At
<1>7. Requested(script.job)'
  BY <1>2, <1>3, <1>5 DEF Dispatched, Requested
<1>8. ScriptOK'
  BY <1>2, <1>3, <1>5, <1>6, <1>7 DEF GateInv, ScriptOK, At, Pcs
<1>9. FilesOK'
  BY <1>3, <1>5, FilesStay DEF At
<1>10. Lost' \subseteq Lost
  BY <1>3, <1>6, NothingLost
<1>11. /\ posts'[h] = [pc |-> "nonce", body |-> body]
       /\ \A k \in Handlers : k # h => posts'[k] = posts[k]
  <2>1. PICK state \in States :
          Set(h, state) /\ state = [pc |-> "nonce", body |-> body]
    BY <1>2, <1>3, Posted DEF GateInv
  <2> QED
    BY <2>1, SetPointwise DEF GateInv, RegistrationInv
<1>12. Spoiled' => Spoiled
  <2>1. SUFFICES ASSUME ~Spoiled
                 PROVE  ~Spoiled'
    OBVIOUS
  <2>2. ~Taken(script.job)
        /\ \A k \in Handlers : Working(k) => posts[k].body.nonce # script.job
    BY <1>3, <2>1 DEF Spoiled, At
  <2>3. WillBeRegistered'
    <3>1. posts'[h].pc = "nonce" /\ posts'[h].body.nonce = script.job
      BY <1>2, <1>11
    <3>2. <<"lower", script.job>> \notin nonces'
      BY <1>3, <2>2 DEF Taken
    <3>3. \A k \in Handlers \ {h} : Working(k)' => posts'[k].body.nonce # script.job
      BY <1>11, <2>2 DEF Working
    <3> QED
      BY <1>5, <3>1, <3>2, <3>3 DEF WillBeRegistered, Taken, Working
  <2> QED
    BY <1>5, <2>3 DEF Spoiled, At
<1> QED
  BY <1>3, <1>8, <1>9, <1>10, <1>12, NoNewLoss

(***************************************************************************)
(* The answer: 201 goes on, 5xx posts again, and a refusal - which was paid*)
(* for - ends the process.                                                 *)
(***************************************************************************)
LEMMA ReplyKeeps ==
  ASSUME GateInv, Reply
  PROVE  ScriptOK' /\ FilesOK' /\ FewLost'
<1>1. PICK reply \in Replies :
        /\ posts[script.post].pc = reply
        /\ \/ reply = "201" /\ GoTo("hub")
           \/ reply = "500" /\ GoTo("register")
           \/ reply \in {"409", "422"} /\ End
  BY DEF Reply
<1>2. /\ script.pc = "reply" /\ UNCHANGED <<nonces, faults, jobs, files, runs>>
      /\ faults \in Nat /\ JobsOK /\ JobsOK' /\ InHand = {script.job} /\ Kept' = Kept
      /\ Len(jobs) \in Nat
  BY JobsInOrder DEF Reply, At, GateInv, RegistrationInv, RegistrationTypes, JobsOK,
                     InHand, Kept
<1>3. CASE reply = "201" /\ GoTo("hub")
  <2>1. ScriptOK' /\ At("hub")' /\ InHand' = InHand /\ script'.prepared = script.prepared
    BY <1>2, <1>3, ScriptGoesOn
  <2>2. FilesOK' /\ ~Spoiled'
    BY <1>2, <2>1, FilesStay DEF At, Spoiled
  <2>3. Lost' \subseteq Lost
    BY <1>2, <2>1, NothingLost
  <2> QED
    BY <1>2, <2>1, <2>2, <2>3, NoNewLoss
<1>4. CASE reply = "500" /\ GoTo("register")
  <2>1. script'.job = script.job
    BY <1>4 DEF GoTo, GateInv, ScriptOK
  <2>2. Requested(script.job)'
    BY <1>2, <2>1 DEF GateInv, ScriptOK, At, Requested
  <2>3. ScriptOK' /\ At("register")' /\ InHand' = InHand
        /\ script'.prepared = script.prepared
    BY <1>2, <1>4, <2>2, ScriptGoesOn
  <2>4. FilesOK'
    BY <1>2, <2>3, FilesStay DEF At
  <2>5. Spoiled
    BY <1>1, <1>2, <1>4 DEF Spoiled, At, WillBeRegistered
  <2>6. Lost' \subseteq Lost
    BY <1>2, <2>3, NothingLost
  <2> QED
    BY <1>2, <2>3, <2>4, <2>5, <2>6, NoNewLoss
<1>5. CASE reply \in {"409", "422"} /\ End
  <2>1. Spoiled
    BY <1>1, <1>2, <1>5 DEF Spoiled, At, WillBeRegistered
  <2> QED
    BY <1>2, <1>5, <2>1, EndLoses
<1> QED
  BY <1>1, <1>3, <1>4, <1>5

(***************************************************************************)
(* An answer that is lost may spoil the registration: the second post races*)
(* the first.                                                              *)
(***************************************************************************)
LEMMA NoReplyKeeps ==
  ASSUME GateInv, NoReply
  PROVE  ScriptOK' /\ FilesOK' /\ FewLost'
<1>1. /\ script.pc = "reply" /\ GoTo("register") /\ UNCHANGED <<jobs, files, runs>>
      /\ JobsOK /\ JobsOK' /\ InHand = {script.job} /\ Kept' = Kept /\ Len(jobs) \in Nat
      /\ faults' = faults + 1
  BY JobsInOrder DEF NoReply, Fault, At, GateInv, JobsOK, InHand, Kept
<1>2. script'.job = script.job
  BY <1>1 DEF GoTo, GateInv, ScriptOK
<1>3. Requested(script.job)'
  BY <1>1, <1>2 DEF GateInv, ScriptOK, At, Requested
<1>4. ScriptOK' /\ At("register")' /\ InHand' = InHand /\ script'.prepared = script.prepared
  BY <1>1, <1>3, ScriptGoesOn
<1>5. FilesOK'
  BY <1>1, <1>4, FilesStay DEF At
<1>6. Lost' \subseteq Lost
  BY <1>1, <1>4, NothingLost
<1> QED
  BY <1>1, <1>4, <1>5, <1>6, FaultSpoils

(* The steps that write down, and those that begin and end a run. *)
LEMMA CheckpointKeeps ==
  ASSUME GateInv, EnsureHubDelivery \/ WriteCheckpoint
  PROVE  ScriptOK' /\ FilesOK' /\ FewLost'
<1>0. /\ JobsOK /\ JobsOK' /\ UNCHANGED <<jobs, faults>> /\ faults \in Nat
  BY DEF GateInv, RegistrationInv, RegistrationTypes, EnsureHubDelivery, WriteCheckpoint,
         JobsOK
<1>1. CASE EnsureHubDelivery
  <2>1. ScriptOK' /\ FilesOK' /\ At("checkpoint")' /\ InHand' = InHand /\ Kept' = Kept
    BY <1>1, EnsureHubDeliveryStep
  <2>2. ~Spoiled'
    BY <2>1 DEF At, Spoiled
  <2>3. Lost' \subseteq Lost
    BY <1>0, <2>1, NothingLost
  <2> QED
    BY <1>0, <2>1, <2>2, <2>3, NoNewLoss
<1>2. CASE WriteCheckpoint
  <2>1. /\ ScriptOK' /\ FilesOK' /\ InHand' = {} /\ script.job \in Kept'
        /\ Kept \subseteq Kept' /\ ~Spoiled'
    BY <1>2, WriteCheckpointStep
  <2>2. InHand = {script.job}
    BY <1>2 DEF WriteCheckpoint, At, InHand
  <2>3. Lost' \subseteq Lost
    BY <1>0, <2>1, <2>2 DEF Lost
  <2> QED
    BY <1>0, <2>1, <2>3, NoNewLoss
<1> QED
  BY <1>1, <1>2

LEMMA RunBeginsAndEnds ==
  ASSUME GateInv,
         \/ \E skip \in SUBSET Range(Works) : Start(skip)
         \/ Finish \/ ScriptDies
  PROVE  ScriptOK' /\ FilesOK' /\ FewLost'
<1>0. JobsOK /\ faults \in Nat
  BY DEF GateInv, RegistrationInv, RegistrationTypes
<1>1. CASE \E skip \in SUBSET Range(Works) : Start(skip)
  <2>1. PICK skip : Start(skip)
    BY <1>1
  <2>2. ScriptOK' /\ FilesOK' /\ At("create")' /\ InHand' = {} /\ Kept \subseteq Kept'
    BY <2>1, StartStep
  <2>3. /\ UNCHANGED <<jobs, faults>> /\ InHand = {} /\ JobsOK'
    BY <1>0, <2>1 DEF Start, At, InHand, JobsOK
  <2>4. ~Spoiled'
    BY <2>2 DEF At, Spoiled
  <2>5. Lost' \subseteq Lost
    BY <1>0, <2>2, <2>3, NothingLost
  <2> QED
    BY <1>0, <2>2, <2>3, <2>4, <2>5, NoNewLoss
<1>2. CASE Finish
  <2>1. End /\ InHand = {} /\ UNCHANGED <<faults, jobs, files, runs>> /\ Kept' = Kept
        /\ JobsOK'
    BY <1>0, <1>2 DEF Finish, At, InHand, Kept, JobsOK
  <2>2. ScriptOK' /\ At("off")' /\ InHand' = {}
    BY <2>1, ScriptEnds
  <2>3. FilesOK' /\ ~Spoiled'
    BY <2>1, <2>2, FilesStay DEF At, Spoiled
  <2>4. Lost' \subseteq Lost
    BY <1>0, <2>1, NothingLost
  <2> QED
    BY <1>0, <2>1, <2>2, <2>3, <2>4, NoNewLoss
<1>3. CASE ScriptDies
  BY <1>3, EndLoses DEF ScriptDies, Fault
<1> QED
  BY <1>1, <1>2, <1>3

(* Every step of the script. *)
LEMMA RunKeeps ==
  ASSUME GateInv, Run
  PROVE  ScriptOK' /\ FilesOK' /\ FewLost'
  BY CreateJobKeeps, SubmitEvidenceKeeps, RequestVerificationKeeps, SecondSendRevertsKeeps,
     RegisterKeeps, ReplyKeeps, NoReplyKeeps, CheckpointKeeps, RunBeginsAndEnds DEF Run

-----------------------------------------------------------------------------
(* What other invocations do cannot spoil a registration, unless it is a   *)
(* failure or a registration by somebody else.                             *)
LEMMA AnswersSpoilNothing ==
  ASSUME GateInv, UNCHANGED <<script, jobs, nonces>>, NEW h \in Handlers,
         NEW reply \in {"idle"} \cup Replies, Set(h, Answered(reply)),
         At("reply") /\ script.post = h => reply = "201" \/ ~WillBeRegistered
  PROVE  Spoiled' => Spoiled
<1>1. Answered(reply) \in States /\ Answered(reply).pc = reply
  BY AnsweredIsState
<1>2. /\ posts'[h].pc = reply
      /\ \A k \in Handlers : k # h => posts'[k] = posts[k]
  BY <1>1, SetPointwise DEF GateInv, RegistrationInv
<1>3. \A k \in Handlers : Working(k)' => Working(k) /\ posts'[k] = posts[k]
  BY <1>2 DEF Working, Replies
<1>4. SUFFICES ASSUME ~Spoiled
               PROVE  ~Spoiled'
  OBVIOUS
<1>5. CASE At("reply")
  <2>1. WillBeRegistered /\ script.post \in Handlers
    BY <1>4, <1>5 DEF Spoiled, GateInv, ScriptOK
  <2>2. WillBeRegistered'
    <3>1. CASE script.post = h
      BY <1>2, <1>5, <2>1, <3>1 DEF WillBeRegistered
    <3>2. CASE script.post # h
      BY <1>2, <1>3, <2>1, <3>2 DEF WillBeRegistered, Taken, Working
    <3> QED
      BY <3>1, <3>2
  <2> QED
    BY <1>5, <2>2 DEF Spoiled, At
<1>6. CASE ~At("reply")
  BY <1>3, <1>4, <1>6 DEF Spoiled, At, Taken
<1> QED
  BY <1>5, <1>6

(***************************************************************************)
(* The first insertion of another invocation takes no nonce from the       *)
(* script's post, unless that was spoiled before.                          *)
(***************************************************************************)
LEMMA NonceSpoilsNothing ==
  ASSUME GateInv, UNCHANGED <<script, jobs>>, NEW h \in Handlers, InsertNonce(h)
  PROVE  Spoiled' => Spoiled
<1>1. posts[h].pc = "nonce" /\ Working(h)
  BY DEF InsertNonce, Working
<1>2. CASE NonceKey(posts[h].body) \in nonces
  <2>1. Set(h, Answered("409")) /\ UNCHANGED nonces
    BY <1>2 DEF InsertNonce
  <2>2. At("reply") /\ script.post = h => ~WillBeRegistered
    BY <1>1, <1>2 DEF WillBeRegistered, Taken, NonceKey
  <2> QED
    BY <2>1, <2>2, AnswersSpoilNothing DEF Replies
<1>3. CASE NonceKey(posts[h].body) \notin nonces
  <2> DEFINE state == [posts[h] EXCEPT !.pc = "record"]
  <2>1. /\ nonces' = nonces \cup {<<"lower", posts[h].body.nonce>>}
        /\ Set(h, state)
    BY <1>3 DEF InsertNonce, NonceKey
  <2>2. state \in States /\ state.pc = "record" /\ state.body = posts[h].body
    BY DEF GateInv, RegistrationInv, RegistrationTypes, States
  <2> HIDE DEF state
  <2>3. /\ posts'[h].pc = "record" /\ posts'[h].body = posts[h].body
        /\ \A k \in Handlers : k # h => posts'[k] = posts[k]
    BY <2>1, <2>2, SetPointwise DEF GateInv, RegistrationInv
  <2>4. \A k \in Handlers : Working(k)' => Working(k) /\ posts'[k].body = posts[k].body
    BY <1>1, <2>3 DEF Working
  <2>5. SUFFICES ASSUME ~Spoiled
                 PROVE  ~Spoiled'
    OBVIOUS
  <2>6. CASE At("register")
    <3>1. ~Taken(script.job)
          /\ \A k \in Handlers : Working(k) => posts[k].body.nonce # script.job
      BY <2>5, <2>6 DEF Spoiled
    <3>2. <<"lower", script.job>> \notin nonces'
      BY <1>1, <2>1, <3>1 DEF Taken
    <3>3. \A k \in Handlers : Working(k)' => posts'[k].body.nonce # script.job
      BY <2>4, <3>1
    <3> QED
      BY <2>6, <3>2, <3>3 DEF Spoiled, At, Taken, Working
  <2>7. CASE At("reply")
    <3>1. WillBeRegistered /\ script.post \in Handlers
      BY <2>5, <2>7 DEF Spoiled, GateInv, ScriptOK
    <3>2. WillBeRegistered'
      <4>1. CASE script.post = h
        BY <2>3, <4>1 DEF WillBeRegistered
      <4>2. CASE script.post # h /\ posts[script.post].pc \in {"201", "record"}
        BY <2>3, <3>1, <4>2 DEF WillBeRegistered
      <4>3. CASE script.post # h /\ posts[script.post].pc \notin {"201", "record"}
        <5>1. PICK n : n = posts[script.post].body.nonce
          OBVIOUS
        <5>2. /\ posts[script.post].pc = "nonce" /\ ~Taken(n) /\ n # posts[h].body.nonce
              /\ \A k \in Handlers \ {script.post} : Working(k) => posts[k].body.nonce # n
          BY <1>1, <3>1, <4>3, <5>1 DEF WillBeRegistered
        <5>3. posts'[script.post] = posts[script.post] /\ <<"lower", n>> \notin nonces'
          BY <2>1, <2>3, <3>1, <4>3, <5>2 DEF Taken
        <5>4. \A k \in Handlers \ {script.post} : Working(k)' => posts'[k].body.nonce # n
          BY <2>4, <5>2
        <5> QED
          BY <5>1, <5>2, <5>3, <5>4 DEF WillBeRegistered, Taken, Working
      <4> QED
        BY <4>1, <4>2, <4>3
    <3> QED
      BY <2>7, <3>2 DEF Spoiled, At
  <2>8. CASE ~At("register") /\ ~At("reply")
    BY <2>5, <2>8 DEF Spoiled, At
  <2> QED
    BY <2>6, <2>7, <2>8
<1> QED
  BY <1>2, <1>3

(* What the handler does for the script and for others. *)
LEMMA ApiKeeps ==
  ASSUME GateInv, Api, JobsOK', RegistrationInv'
  PROVE  ScriptOK' /\ FilesOK' /\ FewLost'
<1>1. /\ UNCHANGED <<jobs, script, files, runs>> /\ JobsOK /\ faults \in Nat
      /\ Len(jobs) \in Nat /\ Dispatched' = Dispatched /\ Kept' = Kept /\ InHand' = InHand
  BY JobsInOrder DEF Api, GateInv, RegistrationInv, RegistrationTypes, Dispatched,
                     Requested, Kept, InHand, At
<1>2. ScriptOK'
  BY <1>1, ScriptStays
<1>3. FilesOK'
  BY <1>1, FilesStay DEF At
<1>4. Lost' \subseteq Lost
  BY <1>1, NothingLost
<1>5. PICK h \in Handlers :
        \/ InsertNonce(h) \/ InsertRecord(h) \/ Die(h)
        \/ PostByAnybody(h, Dispatched)
        \/ ~(At("reply") /\ script.post = h) /\ Forget(h)
  BY DEF Api
<1>6. CASE Die(h) \/ PostByAnybody(h, Dispatched)
  <2>1. faults' = faults + 1
    BY <1>6 DEF Die, PostByAnybody, Fault
  <2> QED
    BY <1>2, <1>3, <1>4, <2>1, FaultSpoils
<1>7. ASSUME UNCHANGED faults, Spoiled' => Spoiled
      PROVE  FewLost'
  BY <1>1, <1>4, <1>7, NoNewLoss
<1>8. CASE InsertNonce(h)
  BY <1>1, <1>2, <1>3, <1>7, <1>8, NonceSpoilsNothing DEF InsertNonce
<1>9. CASE InsertRecord(h)
  <2>1. Set(h, Answered("201")) /\ UNCHANGED <<nonces, faults>>
    BY <1>9, RecordInserted DEF InsertRecord, GateInv
  <2>2. Spoiled' => Spoiled
    BY <1>1, <2>1, AnswersSpoilNothing DEF Replies
  <2> QED
    BY <1>2, <1>3, <1>7, <2>1, <2>2
<1>10. CASE ~(At("reply") /\ script.post = h) /\ Forget(h)
  <2>1. Set(h, Answered("idle")) /\ UNCHANGED <<nonces, faults>>
    BY <1>10 DEF Forget, Idle
  <2>2. Spoiled' => Spoiled
    BY <1>1, <1>10, <2>1, AnswersSpoilNothing
  <2> QED
    BY <1>2, <1>3, <1>7, <2>1, <2>2
<1> QED
  BY <1>5, <1>6, <1>8, <1>9, <1>10

(***************************************************************************)
(* What the index and the escrow do meanwhile touches no job that the      *)
(* script still has to dispatch.                                           *)
(***************************************************************************)
LEMMA ChainsKeep ==
  ASSUME GateInv, Chains
  PROVE  ScriptOK' /\ FilesOK' /\ FewLost'
<1>1. /\ JobsOK' /\ Len(jobs') = Len(jobs) /\ Dispatched \subseteq Dispatched'
      /\ \A k \in 1 .. Len(jobs) : ~Requested(k) => jobs'[k].status = jobs[k].status
      /\ UNCHANGED <<registration, faults, script, files, runs>>
  BY ChainsStep DEF GateInv
<1>2. /\ JobsOK /\ faults \in Nat /\ Len(jobs) \in Nat /\ Kept' = Kept
      /\ InHand' = InHand /\ UNCHANGED <<nonces, posts>>
  BY <1>1, JobsInOrder DEF GateInv, RegistrationInv, RegistrationTypes, Kept, InHand, At,
                           registration
<1>3. ScriptOK'
  BY <1>1, <1>2, ScriptStays
<1>4. FilesOK'
  BY <1>1, FilesStay DEF At
<1>5. Lost' \subseteq Lost
  BY <1>1, <1>2, NothingLost
<1>6. Spoiled' => Spoiled
  <2>1. WillBeRegistered' <=> WillBeRegistered
    BY <1>1, <1>2 DEF WillBeRegistered, Taken, Working
  <2>2. SUFFICES ASSUME ~Spoiled
                 PROVE  ~Spoiled'
    OBVIOUS
  <2>3. CASE At("evidence") \/ At("request")
    <3>1. script.job \in 1 .. Len(jobs) /\ ~Requested(script.job)
      BY <2>2, <2>3 DEF Spoiled, At, GateInv, ScriptOK, InHand, Requested
    <3>2. jobs'[script.job].status = jobs[script.job].status
      BY <1>1, <3>1
    <3> QED
      BY <1>1, <2>2, <2>3, <3>2 DEF Spoiled, At
  <2>4. CASE ~(At("evidence") \/ At("request"))
    BY <1>1, <1>2, <2>1, <2>2, <2>4 DEF Spoiled, At, Taken, Working
  <2> QED
    BY <2>3, <2>4
<1> QED
  BY <1>1, <1>2, <1>3, <1>4, <1>5, <1>6, NoNewLoss

-----------------------------------------------------------------------------
(* Nothing has happened yet. *)
LEMMA GateInit == Init => GateInv
<1> SUFFICES ASSUME Init
             PROVE  GateInv
  OBVIOUS
<1>1. /\ nonces = {} /\ records = {} /\ faults = 0 /\ jobs = <<>> /\ files = <<>>
      /\ runs = 0 /\ script = Off /\ posts = [h \in Handlers |-> Idle]
  BY DEF Init, RegistrationInit
<1>2. Answered("idle") \in States /\ Answered("idle").pc = "idle" /\ Idle = Answered("idle")
  BY AnsweredIsState DEF Idle
<1>3. posts \in [Handlers -> States] /\ \A h \in Handlers : posts[h].pc = "idle"
  BY <1>1, <1>2
<1>4. Orphaned = {}
  BY <1>1 DEF Orphaned, Taken
<1>5. FewOrphans
  BY <1>1, <1>4, FS_EmptySet DEF FewOrphans
<1>6. RegistrationInv
  BY <1>1, <1>3, <1>5 DEF RegistrationInv, RegistrationTypes, VerifiedOnly, OneInsertion,
                          Working, Inserting, States
<1>7. /\ jobs \in Seq({}) /\ Len(jobs) = 0 /\ files \in Seq(Seq(Nat)) /\ Len(files) = 0
      /\ <<>> \in Seq(Nat)
  BY <1>1, EmptySeq
<1>8. JobsOK
  BY <1>7 DEF JobsOK
<1>9. DispatchedOnly
  BY <1>1, <1>3 DEF DispatchedOnly, Working
<1>10. /\ script.pc = "off" /\ script.prepared = <<>>
       /\ script = [pc |-> script.pc, todo |-> script.todo, job |-> script.job,
                   post |-> script.post, prepared |-> script.prepared]
  BY <1>1 DEF Off
<1>11. InHand = {}
  BY <1>10 DEF InHand, At
<1>12. ScriptOK
  BY <1>7, <1>10, <1>11 DEF ScriptOK, At, Pcs
<1>13. FilesOK
  BY <1>1, <1>7, <1>10 DEF FilesOK, At
<1>14. Lost = {} /\ ~Spoiled
  BY <1>7, <1>8, <1>10, JobsInOrder DEF Lost, Spoiled, At
<1>15. FewLost
  BY <1>1, <1>14, FS_EmptySet DEF FewLost
<1> QED
  BY <1>6, <1>8, <1>9, <1>12, <1>13, <1>15 DEF GateInv

(* Every step keeps the invariant. *)
LEMMA GateStep == GateInv /\ [Next]_vars => GateInv'
<1> SUFFICES ASSUME GateInv, [Next]_vars
             PROVE  GateInv'
  OBVIOUS
<1>1. RegistrationInv' /\ JobsOK' /\ DispatchedOnly'
  BY RegistrationStep, JobsStep, DispatchedStep
<1>2. ScriptOK' /\ FilesOK' /\ FewLost'
  <2>1. CASE Run
    BY <2>1, RunKeeps
  <2>2. CASE Api
    BY <1>1, <2>2, ApiKeeps
  <2>3. CASE Chains
    BY <2>3, ChainsKeep
  <2>4. CASE UNCHANGED vars
    BY <2>4 DEF vars, registration, GateInv, ScriptOK, FilesOK, FewLost, InHand, At,
                Requested, Lost, Kept, Spoiled, WillBeRegistered, Taken, Working
  <2> QED
    BY <2>1, <2>2, <2>3, <2>4 DEF Next
<1> QED
  BY <1>1, <1>2 DEF GateInv

(***************************************************************************)
(* The index is in order, only dispatched jobs are registered, and every   *)
(* failure was charged for one job at most, which is lost or will be.      *)
(***************************************************************************)
THEOREM GateInvariant == Spec => []GateInv
  BY GateInit, GateStep, PTL DEF Spec

-----------------------------------------------------------------------------
(* The next place is one of those that are left. *)
LEMMA UpcomingIsLeft ==
  ASSUME script.todo \subseteq 1 .. Len(Works), script.todo # {}
  PROVE  Upcoming \in script.todo /\ Len(Works) \in Nat /\ DOMAIN Works = 1 .. Len(Works)
<1> DEFINE R == OpToRel(<, Nat)
<1>1. Len(Works) \in Nat /\ DOMAIN Works = 1 .. Len(Works)
  BY PhaseGateConstants, LenProperties
<1>2. script.todo \subseteq Nat
  OBVIOUS
<1>3. PICK m \in script.todo : \A k \in script.todo : ~(<<k, m>> \in R)
  BY <1>2, NatLessThanWellFounded, WFMin
<1>4. ASSUME NEW k \in script.todo
      PROVE  m <= k
  <2>1. k \in Nat /\ m \in Nat
    BY <1>2
  <2>2. k < m => <<k, m>> \in R
    BY <2>1 DEF OpToRel
  <2>3. ~(k < m)
    BY <1>3, <2>2, Zenon
  <2> HIDE DEF R
  <2> QED
    BY <2>1, <2>3
<1>5. \E i \in script.todo : \A k \in script.todo : i <= k
  BY <1>4
<1> QED
  BY <1>1, <1>5 DEF Upcoming, Min

(* A step that leaves the works of the run where they are. *)
LEMMA WorksStay ==
  ASSUME WorksInv, SameWorks, Len(jobs) <= Len(jobs'), Len(jobs') \in Nat,
         script'.todo = script.todo, script'.prepared = script.prepared,
         InHand' = InHand, At("checkpoint")' <=> At("checkpoint"),
         At("off") \/ At("poll") => At("off")' \/ At("poll")',
         At("off")' \/ At("poll")' => At("off") \/ At("poll")
  PROVE  TodoOK' /\ PreparedApart'
<1>1. Len(jobs) \in Nat /\ InHand \subseteq 1 .. Len(jobs)
  BY JobsInOrder DEF WorksInv, GateInv, ScriptOK
<1>2. Upcoming' = Upcoming /\ Left' = Left
  BY DEF Upcoming, Left
<1>3. TodoOK'
  BY <1>1, <1>2 DEF WorksInv, TodoOK, SameWorks
<1>4. 1 .. Len(jobs) \subseteq 1 .. Len(jobs')
  BY <1>1
<1>5. PreparedApart'
  BY <1>2, <1>4 DEF WorksInv, PreparedApart, SameWorks
<1> QED
  BY <1>3, <1>5

(* A run that is over has paid for nothing. *)
LEMMA WorksEnd ==
  ASSUME End
  PROVE  TodoOK' /\ PreparedApart'
<1>1. script'.pc = "off" /\ script'.todo = {} /\ script'.prepared = <<>>
  BY DEF End, Off
<1>2. InHand' = {} /\ Left' = {} /\ Range(script'.prepared) = {}
  BY <1>1 DEF InHand, Left, At, Range
<1> QED
  BY <1>1, <1>2 DEF TodoOK, PreparedApart, At

(* A run starts with the works the operator wants, and nothing prepared. *)
LEMMA WorksStart ==
  ASSUME NEW skip, Start(skip)
  PROVE  TodoOK' /\ PreparedApart'
<1>1. PICK todo :
        /\ todo \subseteq DOMAIN Works /\ todo # {}
        /\ script' = [Off EXCEPT !.pc = "create", !.todo = todo]
  BY DEF Start
<1>2. script' = [pc |-> "create", todo |-> todo, job |-> 0, post |-> Nobody,
                 prepared |-> <<>>]
  BY <1>1 DEF Off
<1>3. script'.pc = "create" /\ script'.todo = todo /\ script'.prepared = <<>>
  BY <1>2
<1>4. InHand' = {} /\ Range(script'.prepared) = {}
  BY <1>3 DEF InHand, At, Range
<1>5. DOMAIN Works = 1 .. Len(Works)
  BY PhaseGateConstants, LenProperties
<1> QED
  BY <1>1, <1>3, <1>4, <1>5 DEF TodoOK, PreparedApart, At

(* createJob pays for the work that is next. *)
LEMMA WorksCreate ==
  ASSUME WorksInv, CreateJob
  PROVE  TodoOK' /\ PreparedApart'
<1>1. /\ JobsOK' /\ Len(jobs') = Len(jobs) + 1 /\ SameWorks
      /\ jobs'[Len(jobs) + 1].work = Works[Upcoming]
      /\ Len(jobs) \in Nat /\ Len(jobs') \in Nat /\ Len(jobs) <= Len(jobs')
  <2>1. /\ JobsOK' /\ Len(jobs') = Len(jobs) + 1 /\ SameWorks
        /\ jobs'[Len(jobs) + 1].work = Works[Upcoming]
    BY JobAdded DEF WorksInv, GateInv
  <2>2. Len(jobs) \in Nat
    BY JobsInOrder DEF WorksInv, GateInv
  <2> QED
    BY <2>1, <2>2
<1>2. script.pc = "create" /\ InHand = {}
  BY DEF CreateJob, At, InHand
<1>3. CASE script' = [script EXCEPT !.pc = "evidence", !.job = Len(jobs) + 1]
  <2>1. script' = [pc |-> "evidence", todo |-> script.todo, job |-> Len(jobs) + 1,
                   post |-> script.post, prepared |-> script.prepared]
    BY <1>3 DEF WorksInv, GateInv, ScriptOK
  <2>2. /\ script'.pc = "evidence" /\ script'.job = Len(jobs) + 1
        /\ script'.todo = script.todo /\ script'.prepared = script.prepared
    BY <2>1
  <2>3. InHand' = {Len(jobs) + 1} /\ Left' = Left /\ Upcoming' = Upcoming
    BY <1>2, <2>2 DEF InHand, Left, At, Upcoming
  <2>4. TodoOK'
    BY <1>1, <1>2, <2>2, <2>3 DEF WorksInv, TodoOK, At
  <2>5. 1 .. Len(jobs) \subseteq 1 .. Len(jobs')
    BY <1>1
  <2>6. PreparedApart'
    BY <1>1, <2>2, <2>3, <2>5 DEF WorksInv, PreparedApart, SameWorks
  <2> QED
    BY <2>4, <2>6
<1>4. CASE UNCHANGED script
  BY <1>1, <1>4, WorksStay DEF InHand, At
<1> QED
  BY <1>3, <1>4 DEF CreateJob

(* prepared.push: the job in hand is for a work of its own. *)
LEMMA WorksPrepared ==
  ASSUME WorksInv, EnsureHubDelivery
  PROVE  TodoOK' /\ PreparedApart'
<1> DEFINE prepared == Append(script.prepared, script.job)
<1>1. /\ script' = [pc |-> "checkpoint", todo |-> script.todo, job |-> script.job,
                    post |-> script.post, prepared |-> prepared]
      /\ script.pc = "hub" /\ UNCHANGED jobs
  BY DEF EnsureHubDelivery, WorksInv, GateInv, ScriptOK, At
<1>2. InHand = {script.job} /\ script.job \in 1 .. Len(jobs) /\ script.job \in Nat
      /\ script.prepared \in Seq(Nat)
  BY <1>1, JobsInOrder DEF InHand, At, WorksInv, GateInv, ScriptOK
<1>3. /\ prepared \in Seq(Nat) /\ Len(prepared) = Len(script.prepared) + 1
      /\ \A i \in 1 .. Len(script.prepared) : prepared[i] = script.prepared[i]
      /\ prepared[Len(script.prepared) + 1] = script.job
      /\ Len(script.prepared) \in Nat
      /\ DOMAIN script.prepared = 1 .. Len(script.prepared)
  BY <1>2, AppendProperties, LenProperties
<1>4. DOMAIN prepared = 1 .. Len(script.prepared) + 1
  BY <1>3, LenProperties
<1> HIDE DEF prepared
<1>5. Range(prepared) \subseteq Range(script.prepared) \cup {script.job}
  <2>1. \A i \in DOMAIN prepared :
          i \in DOMAIN script.prepared \/ i = Len(script.prepared) + 1
    BY <1>3, <1>4
  <2> QED
    BY <1>3, <2>1 DEF Range
<1>6. /\ script'.pc = "checkpoint" /\ script'.job = script.job
      /\ script'.todo = script.todo /\ script'.prepared = prepared
  BY <1>1
<1>7. /\ InHand' = InHand /\ Upcoming' = Upcoming /\ Left = script.todo
      /\ Left' = script.todo \ {Upcoming}
  BY <1>1, <1>2, <1>6 DEF InHand, Left, At, Upcoming
<1>8. Upcoming \in script.todo /\ script.todo \subseteq DOMAIN Works
      /\ jobs[script.job].work = Works[Upcoming]
  BY <1>1, <1>2, UpcomingIsLeft DEF WorksInv, TodoOK, At
<1>9. TodoOK'
  BY <1>1, <1>6, <1>7 DEF WorksInv, TodoOK, At
<1>10. \A i \in script.todo \ {Upcoming} : Works[i] # Works[Upcoming]
  BY <1>8, PhaseGateConstants DEF IsInjective
<1>11. \A j \in Range(script.prepared) :
         j \in 1 .. Len(jobs) /\ jobs[j].work # jobs[script.job].work
  BY <1>7, <1>8 DEF WorksInv, PreparedApart
<1>12. PreparedApart'
  <2>1. (Range(script.prepared) \subseteq 1 .. Len(jobs))'
    BY <1>1, <1>2, <1>5, <1>6, <1>11
  <2>2. (\A j, k \in Range(script.prepared) : jobs[j].work = jobs[k].work => j = k)'
    BY <1>1, <1>5, <1>6, <1>11 DEF WorksInv, PreparedApart
  <2>3. (\A j \in Range(script.prepared), i \in Left : jobs[j].work # Works[i])'
    BY <1>1, <1>5, <1>6, <1>7, <1>8, <1>10 DEF WorksInv, PreparedApart
  <2> QED
    BY <2>1, <2>2, <2>3 DEF PreparedApart
<1> QED
  BY <1>9, <1>12

(* The checkpoint is written, and the work is done. *)
LEMMA WorksWritten ==
  ASSUME WorksInv, WriteCheckpoint
  PROVE  TodoOK' /\ PreparedApart'
<1> DEFINE next == IF script.todo = {Upcoming} THEN "poll" ELSE "create"
<1>1. /\ script' = [pc |-> next, todo |-> script.todo \ {Upcoming}, job |-> script.job,
                    post |-> script.post, prepared |-> script.prepared]
      /\ script.pc = "checkpoint" /\ UNCHANGED jobs
  BY DEF WriteCheckpoint, WorksInv, GateInv, ScriptOK, At
<1>2. /\ script'.pc = next /\ script'.todo = script.todo \ {Upcoming}
      /\ script'.prepared = script.prepared
  BY <1>1
<1>3. InHand' = {} /\ Left' = Left
  BY <1>1, <1>2 DEF InHand, Left, At
<1>4. TodoOK'
  BY <1>1, <1>2, <1>3 DEF WorksInv, TodoOK, At
<1>5. PreparedApart'
  BY <1>1, <1>2, <1>3 DEF WorksInv, PreparedApart
<1> QED
  BY <1>4, <1>5

(* The works of a run stay apart in every step. *)
LEMMA WorksStep == WorksInv /\ [Next]_vars => WorksInv'
<1> SUFFICES ASSUME WorksInv, [Next]_vars
             PROVE  TodoOK' /\ PreparedApart'
  BY GateStep DEF WorksInv
<1>1. GateInv'
  BY GateStep DEF WorksInv
<1>2. SameWorks /\ Len(jobs) <= Len(jobs') /\ Len(jobs') \in Nat
  <2>1. SameWorks /\ Len(jobs) <= Len(jobs')
    BY JobsStep DEF WorksInv
  <2>2. (Len(jobs) \in Nat)'
    BY <1>1, LenProperties DEF GateInv, JobsOK
  <2> QED
    BY <2>1, <2>2
<1>3. CASE UNCHANGED script
  BY <1>2, <1>3, WorksStay DEF InHand, At
<1>4. ASSUME NEW pc \in {"request", "register", "reply", "hub"}, NEW post,
             script' = [script EXCEPT !.pc = pc, !.post = post],
             script.pc \in {"evidence", "request", "register", "reply"}
      PROVE  TodoOK' /\ PreparedApart'
  <2>2. script' = [pc |-> pc, todo |-> script.todo, job |-> script.job, post |-> post,
                   prepared |-> script.prepared]
    BY <1>4 DEF WorksInv, GateInv, ScriptOK
  <2>3. /\ script'.pc = pc /\ script'.todo = script.todo /\ script'.job = script.job
        /\ script'.prepared = script.prepared
    BY <2>2
  <2>4. InHand' = InHand
    BY <1>4, <2>3 DEF InHand, At
  <2> QED
    BY <1>2, <1>4, <2>3, <2>4, WorksStay DEF At
<1>5. CASE Run
  <2>1. CASE \E skip \in SUBSET Range(Works) : Start(skip)
    BY <2>1, WorksStart
  <2>2. CASE CreateJob
    BY <2>2, WorksCreate
  <2>3. CASE SubmitEvidence \/ RequestVerification \/ NoReply
             \/ \E h \in Handlers : Register(h)
    BY <2>3, <1>3, <1>4 DEF SubmitEvidence, RequestVerification, NoReply, Register, Answer,
                            GoTo, At
  <2>4. CASE Reply
    BY <2>4, <1>4, WorksEnd DEF Reply, GoTo, At
  <2>5. CASE SecondSendReverts \/ Finish \/ ScriptDies
    BY <2>5, WorksEnd DEF SecondSendReverts, Finish, ScriptDies
  <2>6. CASE EnsureHubDelivery
    BY <2>6, WorksPrepared
  <2>7. CASE WriteCheckpoint
    BY <2>7, WorksWritten
  <2> QED
    BY <1>5, <2>1, <2>2, <2>3, <2>4, <2>5, <2>6, <2>7 DEF Run
<1>6. CASE Api \/ Chains \/ UNCHANGED vars
  BY <1>3, <1>6 DEF Api, Chains, Adjudicate, Deliver, RefundLate, Quiet, vars
<1> QED
  BY <1>5, <1>6 DEF Next

(* Nothing is prepared yet. *)
LEMMA WorksInit == Init => WorksInv
<1> SUFFICES ASSUME Init
             PROVE  WorksInv
  OBVIOUS
<1>1. script.pc = "off" /\ script.todo = {} /\ script.prepared = <<>>
  BY DEF Init, Off
<1>2. InHand = {} /\ Left = {} /\ Range(script.prepared) = {}
  BY <1>1 DEF InHand, Left, At, Range
<1> QED
  BY <1>1, <1>2, GateInit DEF TodoOK, PreparedApart, At, WorksInv

(* One record for a request, and an orphan for a failure. *)
LEMMA IdempotentFromInv ==
  ASSUME GateInv
  PROVE  RegistrationIsIdempotent
<1>1. ASSUME NEW r \in Requests
      PROVE  Cardinality(RecordsOf(r)) <= 1
  <2>1. CASE RecordsOf(r) = {}
    BY <2>1, FS_EmptySet
  <2>2. CASE RecordsOf(r) # {}
    <3>1. PICK record : record \in RecordsOf(r)
      BY <2>2
    <3>2. RecordsOf(r) = {record}
      BY <3>1 DEF RecordsOf, GateInv, RegistrationInv, OneInsertion
    <3> QED
      BY <3>2, FS_Singleton
  <2> QED
    BY <2>1, <2>2
<1>2. Cardinality({r \in Requests : Taken(r) /\ RecordsOf(r) = {}} \ BeingInserted) <= faults
  BY DEF GateInv, RegistrationInv, FewOrphans, Orphaned
<1> QED
  BY <1>1, <1>2 DEF RegistrationIsIdempotent

(***************************************************************************)
(* What was verified differs from the chain in the URI or the spelling     *)
(* only.                                                                   *)
(***************************************************************************)
LEMMA ServedFromInv ==
  ASSUME GateInv
  PROVE  RegisteredCanBeServed
<1> SUFFICES ASSUME NEW record \in records
             PROVE  \/ Served(record)
                    \/ RelayAccepts([record EXCEPT !.defects = @ \ {"uri"}])
                         /\ (record.defects = {"uri"} \/ record.spelled = "mixed")
  BY DEF RegisteredCanBeServed
<1>1. record \in AnyBody /\ Verified(record)
  BY DEF GateInv, RegistrationInv, RegistrationTypes, VerifiedOnly
<1>2. record.nonce = record.request /\ record.spelled \in {"lower", "mixed"}
  BY <1>1 DEF AnyBody, Verified, Spellings
<1>3. record.defects \cap ComparedByTheRelay \subseteq {"uri"}
  BY <1>1 DEF Verified, RefusedByTheForm, ComparedWithTheChain, ComparedByTheRelay
<1>4. record.defects = {} \/ \E d \in Defects : record.defects = {d}
  BY <1>1 DEF AnyBody
<1>5. RelayAccepts([record EXCEPT !.defects = @ \ {"uri"}])
  <2>1. PICK other : other = [record EXCEPT !.defects = record.defects \ {"uri"}]
    OBVIOUS
  <2>2. other.defects = record.defects \ {"uri"} /\ other.nonce = other.request
    BY <1>1, <1>2, <2>1 DEF AnyBody
  <2>3. RelayAccepts(other)
    BY <1>3, <2>2 DEF RelayAccepts
  <2> QED
    BY <2>1, <2>3
<1>6. CASE record.defects = {"uri"} \/ record.spelled = "mixed"
  BY <1>5, <1>6
<1>7. CASE record.defects # {"uri"} /\ record.spelled = "lower"
  <2>1. record.defects \cap ComparedByTheRelay = {}
    BY <1>3, <1>4, <1>7
  <2> QED
    BY <1>2, <1>7, <2>1 DEF Served, RelayAccepts, ResultIsFound
<1> QED
  BY <1>2, <1>6, <1>7

(* The job in hand is at most one more. *)
LEMMA LossFromInv ==
  ASSUME GateInv
  PROVE  EveryFailureLosesOneJob
<1> DEFINE inHand == IF At("off") \/ At("create") \/ At("poll") THEN 0 ELSE 1
<1>1. IsFiniteSet(Lost) /\ Cardinality(Lost) \in Nat /\ faults \in Nat
  BY LostFinite, FS_CardinalityType DEF GateInv, RegistrationInv, RegistrationTypes
<1>2. Cardinality(Lost) <= faults
  <2>1. Cardinality(Lost) + (IF Spoiled THEN 1 ELSE 0) <= faults
    BY DEF GateInv, FewLost
  <2>2. CASE Spoiled
    BY <1>1, <2>1, <2>2
  <2>3. CASE ~Spoiled
    BY <1>1, <2>1, <2>3
  <2> QED
    BY <2>2, <2>3
<1>3. CASE At("off") \/ At("create") \/ At("poll")
  <2>1. Lost = DOMAIN jobs \ Kept /\ inHand = 0
    BY <1>3 DEF Lost, InHand
  <2> QED
    BY <1>1, <1>2, <2>1 DEF EveryFailureLosesOneJob, Kept
<1>4. CASE ~(At("off") \/ At("create") \/ At("poll"))
  <2>1. DOMAIN jobs \ Kept \subseteq Lost \cup {script.job} /\ inHand = 1
    BY <1>4 DEF Lost, InHand
  <2>2. Cardinality(DOMAIN jobs \ Kept) <= Cardinality(Lost) + 1
        /\ Cardinality(DOMAIN jobs \ Kept) \in Nat
    BY <1>1, <2>1, OneMore, FS_CardinalityType
  <2>3. Cardinality(DOMAIN jobs \ Kept) <= faults + inHand
    BY <1>1, <1>2, <2>1, <2>2
  <2> QED
    BY <1>4, <2>3 DEF EveryFailureLosesOneJob, Kept
<1> QED
  BY <1>3, <1>4

-----------------------------------------------------------------------------
(* What PassedReportIsBacked says of one report. *)
IsBacked(report) ==
  report.passed =>
    /\ Cardinality({jobs[j].work : j \in report.correct}) >= report.required
    /\ \A j \in report.correct :
         \/ jobs[j].executed
         \/ report.kind = "aggregate" /\ jobs[j].decision = "FAIL"

(* Jobs of different works. *)
Apart(seen) == \A j, k \in seen : jobs[j].work = jobs[k].work => j = k

(* Only dispatched jobs have a record. *)
LEMMA FoundIsJob ==
  ASSUME GateInv, NEW j, Found(j)
  PROVE  j \in 1 .. Len(jobs)
<1>1. Taken(j)
  BY DEF Found, GateInv, RegistrationInv, OneInsertion
<1>2. j \in Dispatched
  BY <1>1 DEF Taken, GateInv, DispatchedOnly
<1> QED
  BY <1>2, JobsInOrder DEF Dispatched, GateInv

(* As many works as jobs. *)
LEMMA AsManyWorks ==
  ASSUME Len(jobs) \in Nat, NEW seen, seen \subseteq 1 .. Len(jobs), Apart(seen)
  PROVE  Cardinality({jobs[j].work : j \in seen}) = Cardinality(seen)
         /\ Cardinality(seen) \in Nat
<1> DEFINE works == {jobs[j].work : j \in seen}
           f == [j \in seen |-> jobs[j].work]
<1>1. IsFiniteSet(seen)
  <2>1. IsFiniteSet(1 .. Len(jobs))
    BY FS_Interval
  <2> QED
    BY <2>1, FS_Subset
<1>2. f \in Surjection(seen, works)
  BY DEF Surjection
<1>3. f \in Injection(seen, works)
  BY DEF Injection, IsInjective, Apart
<1>4. Cardinality(works) = Cardinality(seen)
  BY <1>1, <1>2, <1>3, FS_Surjection
<1> QED
  BY <1>1, <1>4, FS_CardinalityType

(***************************************************************************)
(* A job that has the status its decision calls for got it with the        *)
(* callback - unless it is the one that a deadline gives as well.          *)
(***************************************************************************)
LEMMA SettledByTheCallback ==
  ASSUME JobsOK, NEW j \in 1 .. Len(jobs), jobs[j].decision # NoDecision,
         SettledCorrectly(j)
  PROVE  jobs[j].executed \/ jobs[j].decision = "FAIL"
<1>1. jobs[j].decision \in Decisions
      /\ (jobs[j].status \in {"Released", "Undetermined"} => jobs[j].executed)
  BY DEF JobsOK, IsJob
<1>2. jobs[j].decision = "PASS" => jobs[j].status = "Released"
  BY DEF SettledCorrectly, SettledAs
<1>3. jobs[j].decision = "UNDETERMINED" => jobs[j].status = "Undetermined"
  BY DEF SettledCorrectly, SettledAs
<1> QED
  BY <1>1, <1>2, <1>3 DEF Decisions

(* What all reports have in common. *)
LEMMA ReportIsBacked ==
  ASSUME GateInv, NEW kind, NEW seen, NEW correct, NEW required \in Nat,
         correct \subseteq seen,
         \A j \in seen : Found(j) /\ jobs[j].decision # NoDecision,
         \A j \in correct : SettledCorrectly(j),
         \/ \A j \in seen : jobs[j].executed
         \/ kind = "aggregate",
         Apart(seen)
  PROVE  IsBacked(Report(kind, seen, correct, required))
<1>1. PICK report : report = Report(kind, seen, correct, required)
  OBVIOUS
<1>2. /\ report.kind = kind /\ report.correct = correct /\ report.required = required
      /\ report.passed => Cardinality(correct) >= required
  BY <1>1 DEF Report
<1>3. correct \subseteq 1 .. Len(jobs) /\ Apart(correct)
  BY FoundIsJob DEF Apart
<1>4. Len(jobs) \in Nat /\ JobsOK
  BY JobsInOrder DEF GateInv
<1>5. Cardinality({jobs[j].work : j \in correct}) = Cardinality(correct)
      /\ Cardinality(correct) \in Nat
  BY <1>3, <1>4, AsManyWorks
<1>6. ASSUME NEW j \in correct
      PROVE  jobs[j].executed \/ (kind = "aggregate" /\ jobs[j].decision = "FAIL")
  <2>1. j \in 1 .. Len(jobs) /\ jobs[j].decision # NoDecision /\ SettledCorrectly(j)
    BY <1>3
  <2>2. jobs[j].executed \/ jobs[j].decision = "FAIL"
    BY <1>4, <2>1, SettledByTheCallback
  <2>3. jobs[j].executed \/ kind = "aggregate"
    OBVIOUS
  <2> QED
    BY <2>2, <2>3, Zenon
<1>7. report.passed => Cardinality({jobs[j].work : j \in correct}) >= required
  BY <1>2, <1>5
<1>8. IsBacked(report)
  BY <1>2, <1>6, <1>7 DEF IsBacked
<1> QED
  BY <1>1, <1>8

(* The first entry of a work is one, whatever the order of the files. *)
LEMMA EntriesApart ==
  ASSUME NEW order \in Seq(Seq(Nat))
  PROVE  Apart(Entries(order))
<1> DEFINE entry(p) == order[p[1]][p[2]]
           First(q) == \A r \in Places(order) :
                         Before(r, q) => jobs[entry(r)].work # jobs[entry(q)].work
<1>1. \A p \in Places(order) : p = <<p[1], p[2]>> /\ p[1] \in Nat /\ p[2] \in Nat
  <2>1. DOMAIN order \subseteq Nat
    BY LenProperties
  <2>2. \A f \in DOMAIN order : DOMAIN order[f] \subseteq Nat
    <3>1. \A f \in DOMAIN order : order[f] \in Seq(Nat)
      BY ElementOfSeq, LenProperties
    <3> QED
      BY <3>1, LenProperties
  <2> QED
    BY <2>1, <2>2 DEF Places
<1>2. \A p, q \in Places(order) : p # q => Before(p, q) \/ Before(q, p)
  BY <1>1 DEF Before
<1>3. \A j \in Entries(order) : \E p \in Places(order) : First(p) /\ j = entry(p)
  BY DEF Entries
<1> SUFFICES ASSUME NEW j \in Entries(order), NEW k \in Entries(order),
                    jobs[j].work = jobs[k].work
             PROVE  j = k
  BY DEF Apart
<1>4. PICK p \in Places(order) : First(p) /\ j = entry(p)
  BY <1>3
<1>5. PICK q \in Places(order) : First(q) /\ k = entry(q)
  BY <1>3
<1>6. ~Before(p, q) /\ ~Before(q, p)
  BY <1>4, <1>5
<1>7. p = q
  BY <1>2, <1>6
<1> QED
  BY <1>4, <1>5, <1>7

(* The files in the other order are files. *)
LEMMA ReversedFiles ==
  ASSUME NEW S, NEW s \in Seq(S)
  PROVE  Reverse(s) \in Seq(S)
<1>1. Len(s) \in Nat /\ \A i \in 1 .. Len(s) : s[i] \in S
  BY LenProperties, ElementOfSeq
<1>2. \A i \in 1 .. Len(s) : (Len(s) - i) + 1 \in 1 .. Len(s)
  BY <1>1
<1> QED
  BY <1>1, <1>2 DEF Reverse

(***************************************************************************)
(* A run's report counts only what it prepared and saw completed, the      *)
(* aggregate only the first entry of a work.                               *)
(***************************************************************************)
LEMMA BackedFromInv ==
  ASSUME WorksInv
  PROVE  PassedReportIsBacked
<1>0. GateInv /\ Required \in Nat /\ 1 \in Nat
  BY PhaseGateConstants DEF WorksInv
<1>1. ASSUME NEW report \in RunReport
      PROVE  IsBacked(report)
  <2> DEFINE required == IF Len(script.prepared) = 1 THEN 1 ELSE Required
             prepared == {j \in Range(script.prepared) : Complete(j)}
  <2>1. PICK seen \in SUBSET prepared :
          report = Report("run", seen, Correct(seen), required)
    BY <1>1 DEF RunReport
  <2>2. required \in Nat
    BY <1>0
  <2>3. Apart(seen)
    BY DEF WorksInv, PreparedApart, Apart
  <2>4. /\ \A j \in seen : Found(j) /\ jobs[j].decision # NoDecision /\ jobs[j].executed
        /\ Correct(seen) \subseteq seen
        /\ \A j \in Correct(seen) : SettledCorrectly(j)
    BY DEF Complete, Correct
  <2> HIDE DEF required
  <2> QED
    BY <1>0, <2>1, <2>2, <2>3, <2>4, ReportIsBacked
<1>2. ASSUME NEW report \in AggregateReport
      PROVE  IsBacked(report)
  <2>1. PICK order \in {files, Reverse(files)} :
          \E seen \in SUBSET {j \in Entries(order) : jobs[j].decision # NoDecision} :
            /\ \A j \in Entries(order) : Found(j)
            /\ report = Report("aggregate", seen, Correct(seen), Required)
    BY <1>2 DEF AggregateReport
  <2>2. PICK seen \in SUBSET {j \in Entries(order) : jobs[j].decision # NoDecision} :
            /\ \A j \in Entries(order) : Found(j)
            /\ report = Report("aggregate", seen, Correct(seen), Required)
    BY <2>1
  <2>3. order \in Seq(Seq(Nat))
    BY <1>0, ReversedFiles DEF GateInv, FilesOK
  <2>4. Apart(seen)
    BY <2>3, EntriesApart DEF Apart
  <2>5. /\ \A j \in seen : Found(j) /\ jobs[j].decision # NoDecision
        /\ Correct(seen) \subseteq seen
        /\ \A j \in Correct(seen) : SettledCorrectly(j)
    BY <2>2 DEF Correct
  <2> QED
    BY <1>0, <2>2, <2>4, <2>5, ReportIsBacked
<1>3. ASSUME NEW report \in ResumeReport
      PROVE  IsBacked(report)
  <2>1. PICK j \in {k \in DOMAIN jobs : Complete(k)} :
          report = Report("resume", {j}, {k \in {j} : SettledCorrectly(k)}, 1)
    BY <1>3 DEF ResumeReport
  <2>2. Found(j) /\ jobs[j].decision # NoDecision /\ jobs[j].executed
    BY DEF Complete
  <2>3. Apart({j})
    BY DEF Apart
  <2> QED
    BY <1>0, <2>1, <2>2, <2>3, ReportIsBacked
<1> QED
  BY <1>1, <1>2, <1>3 DEF PassedReportIsBacked, IsBacked

(***************************************************************************)
(* However many registrations race, in whatever spelling, a request has one*)
(* record at most; and a nonce without a record was left by an invocation  *)
(* that failed between its two insertions.                                 *)
(***************************************************************************)
THEOREM RegistersOnce == Spec => []RegistrationIsIdempotent
  BY GateInvariant, IdempotentFromInv, PTL

(***************************************************************************)
(* What POST accepts the relay can serve, unless the evidence's URI or the *)
(* spelling of the id differs from the chain's, which                      *)
(* verifyOnchainRegistration does not compare - for any set of fields that *)
(* can be wrong.                                                           *)
(***************************************************************************)
THEOREM RegistersWhatIsServed == Spec => []RegisteredCanBeServed
  BY GateInvariant, ServedFromInv, PTL

(***************************************************************************)
(* However long the data set and however often the acceptance test is      *)
(* started again, no more jobs that were paid for are missing from its     *)
(* checkpoints than there were failures and registrations by others, but   *)
(* for the one in hand.                                                    *)
(***************************************************************************)
THEOREM LosesOneJobPerFailure == Spec => []EveryFailureLosesOneJob
  BY GateInvariant, LossFromInv, PTL

(***************************************************************************)
(* Whatever the works, the checkpoints and the failures between them, a    *)
(* report that passes counts as many different works as it takes, and what *)
(* it counts was settled by its callback - the aggregate's FAIL excepted,  *)
(* which a deadline gives as well.  The invariant adds that a run pays for *)
(* a work once (PreparedApart).                                            *)
(***************************************************************************)
THEOREM PassedReportsAreBacked == Spec => []PassedReportIsBacked
  BY WorksInit, WorksStep, BackedFromInv, PTL DEF Spec
=============================================================================
