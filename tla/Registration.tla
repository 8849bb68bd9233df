----------------------------- MODULE Registration -----------------------------
(***************************************************************************)
(* Registration of a paid request with the index: the handler of           *)
(* POST /api/v1/requests (apps/web/app/api/v1/requests/route.ts), what it   *)
(* compares with the chain (lib/protocol/router.ts) and the unique indexes  *)
(* it relies on (lib/db/mongodb.ts).                                        *)
(*                                                                         *)
(* Every request of the chain belongs to one requester, so its nonce is as  *)
(* good as its id: a body names the request its `requestId' stands for and  *)
(* the request whose nonce it gives.  Of every other field only matters     *)
(* whether it agrees with the chain; `defects' are the fields that do not.  *)
(***************************************************************************)
EXTENDS Naturals, FiniteSets

CONSTANTS
  Handlers,         \* invocations of the handler in progress at once
  Defects,          \* what can be wrong with a body
  MaxJobs,          \* bound: requests there can be on the chain
  MaxFaults         \* bound: failures, and registrations by somebody else

ASSUME RegistrationConstants ==
  /\ IsFiniteSet(Handlers) /\ Handlers # {}
  /\ {MaxJobs, MaxFaults} \subseteq Nat

VARIABLES
  nonces,           \* unique index { requester, nonce } of `nonces'
  records,          \* collection `requests'
  posts,            \* [Handlers -> how far an invocation is]
  faults            \* failures, and registrations by somebody else

registration == <<nonces, records, posts>>

Requests == 1 .. MaxJobs
Spellings == {"lower", "mixed"}
Replies == {"201", "409", "422", "500"}

(* `spelled': the case of the digits of the id and the requester. *)
Body(request, spelled, nonce, defects) ==
  [request |-> request, spelled |-> spelled, nonce |-> nonce, defects |-> defects]

Answered(reply) == [pc |-> reply, body |-> Body(0, "lower", 0, {})]
Idle == Answered("idle")

RegistrationInit ==
  /\ nonces = {}
  /\ records = {}
  /\ posts = [h \in Handlers |-> Idle]
  /\ faults = 0

-----------------------------------------------------------------------------
(***************************************************************************)
(* What is compared with what.                                             *)
(***************************************************************************)

(* CreateRequestSchema, the expiry, the route and the signature. *)
RefusedByTheForm == {"schema", "expired", "route", "signature"}

(* verifyOnchainRegistration. *)
ComparedWithTheChain ==
  {"transactionHash", "requester", "originContract", "callback", "question",
   "policy", "digest", "items", "expiry"}

Verified_WithoutNonce(body) ==
  body.defects \cap (RefusedByTheForm \cup ComparedWithTheChain) = {}
Verified(body) ==
  /\ body.defects \cap (RefusedByTheForm \cup ComparedWithTheChain) = {}
  /\ body.nonce = body.request

(* decodeAndValidateHubRequest and parseAndValidateGenLayerResult, before  *)
(* anything is submitted and before anything is returned.                  *)
ComparedByTheRelay ==
  {"requester", "callback", "expiry", "question", "policy", "uri", "digest",
   "items"}

RelayAccepts(record) ==
  record.defects \cap ComparedByTheRelay = {} /\ record.nonce = record.request

(* The adjudicator keeps results under the id as the hub's message spells  *)
(* it, and is asked for them under the id the record has.                  *)
ResultIsFound(record) == record.spelled = "lower"

Served(record) == RelayAccepts(record) /\ ResultIsFound(record)

(* getRequestRecord, with the id as the chain's events spell it. *)
Found(request) ==
  \E record \in records : record.request = request /\ record.spelled = "lower"

-----------------------------------------------------------------------------
(***************************************************************************)
(* One invocation of POST.                                                 *)
(***************************************************************************)
Set(h, state) == posts' = [posts EXCEPT ![h] = state]
Idling(h) == posts[h].pc = "idle"
Working(h) == posts[h].pc \in {"nonce", "record"}

Post(h, body) ==
  /\ Idling(h)
  /\ Set(h, IF Verified(body) THEN [pc |-> "nonce", body |-> body]
            ELSE Answered("422"))
  /\ UNCHANGED <<nonces, records>>

(* The key of `nonces' has the requester in lower case. *)
NonceKey_AsSpelled(body) == <<body.spelled, body.nonce>>
NonceKey(body) == <<"lower", body.nonce>>

InsertNonce(h) ==
  /\ posts[h].pc = "nonce"
  /\ IF NonceKey(posts[h].body) \in nonces
     THEN Set(h, Answered("409")) /\ UNCHANGED nonces
     ELSE /\ nonces' = nonces \cup {NonceKey(posts[h].body)}
          /\ Set(h, [posts[h] EXCEPT !.pc = "record"])
  /\ UNCHANGED <<records, faults>>

(* createRequestRecord: requestId and idempotencyKey are unique, both as   *)
(* they are spelled.                                                       *)
InsertRecord(h) ==
  LET body == posts[h].body
  IN /\ posts[h].pc = "record"
     /\ IF \E record \in records : /\ record.request = body.request
                                   /\ record.spelled = body.spelled
        THEN Set(h, Answered("409")) /\ UNCHANGED records
        ELSE records' = records \cup {body} /\ Set(h, Answered("201"))
     /\ UNCHANGED <<nonces, faults>>

(* The invocation dies, or MongoDB refuses for another reason. *)
Fault == faults < MaxFaults /\ faults' = faults + 1

Die(h) ==
  /\ Working(h)
  /\ Fault
  /\ Set(h, Answered("500"))
  /\ UNCHANGED <<nonces, records>>

(* Nobody waits for the answer any more. *)
Forget(h) ==
  /\ posts[h].pc \in Replies
  /\ Set(h, Idle)
  /\ UNCHANGED <<nonces, records, faults>>

(* Anybody may register a request of the chain: as it is, in another       *)
(* spelling, with another nonce, or with a field that is wrong.  *)
Bodies(dispatched) ==
  {Body(r, s, r, {}) : r \in dispatched, s \in Spellings}
    \cup {Body(r, "lower", n, {}) : r \in dispatched, n \in Requests}
    \cup {Body(r, "lower", r, {d}) : r \in dispatched, d \in Defects}

PostByAnybody(h, dispatched) ==
  /\ Fault
  /\ \E body \in Bodies(dispatched) : Post(h, body)

-----------------------------------------------------------------------------
Taken(r) == <<"lower", r>> \in nonces
RecordsOf(r) == {record \in records : record.request = r}
BeingInserted == {posts[h].body.nonce : h \in {k \in Handlers : posts[k].pc = "record"}}

(***************************************************************************)
(* However many registrations race and however they spell the requester    *)
(* and the id, a request has one record (the unique indexes of             *)
(* ensureIndexes; README.md:243), and a nonce without its record was left   *)
(* behind by an invocation that died between the two insertions - from      *)
(* then on nobody can register that request.                               *)
(***************************************************************************)
RegistrationIsIdempotent ==
  /\ \A r \in Requests : Cardinality(RecordsOf(r)) <= 1
  /\ LET orphaned == {r \in Requests : Taken(r) /\ RecordsOf(r) = {}}
     IN Cardinality(orphaned \ BeingInserted) <= faults

(***************************************************************************)
(* What registration lets in, the relay can serve - unless it was given    *)
(* another URI of the evidence or another spelling of the id, which         *)
(* verifyOnchainRegistration does not compare and the relay does: such a    *)
(* record waits for ever, and its nonce keeps the right one out.            *)
(***************************************************************************)
RegisteredCanBeServed ==
  \A record \in records :
    \/ Served(record)
    \/ RelayAccepts([record EXCEPT !.defects = @ \ {"uri"}])
         /\ (record.defects = {"uri"} \/ record.spelled = "mixed")
=============================================================================
