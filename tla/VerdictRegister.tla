--------------------------- MODULE VerdictRegister ---------------------------
(***************************************************************************)
(* What the gateway promises an application on Base, with no router, no    *)
(* bridge and no call stack in sight: a request that was accepted receives *)
(* at most one verdict, never after its expiry; the verdict, once visible, *)
(* never changes; and the callback takes effect at most once, with that    *)
(* verdict.  GatewayRouter.tla implements it: a step here is one           *)
(* transaction of the chain, which may settle several requests, because a  *)
(* callback that runs inside a transaction may trigger others.             *)
(***************************************************************************)
EXTENDS Naturals

CONSTANT Verdicts           \* what a verdict may say

VARIABLES asked,            \* the accepted requests, records with an expiry
          verdict,          \* [asked -> Verdicts \cup {"None"}]
          delivered,        \* [asked -> number of effective callbacks]
          clock             \* block time

registerVars == <<asked, verdict, delivered, clock>>

RegisterInit ==
  /\ asked = {}
  /\ verdict = [q \in {} |-> "None"]
  /\ delivered = [q \in {} |-> 0]
  /\ clock \in Nat

(***************************************************************************)
(* What one transaction may do to a request that was already accepted.     *)
(***************************************************************************)
KeepsPromise(q) ==
  /\ verdict'[q] # verdict[q] =>
        /\ verdict[q] = "None"
        /\ verdict'[q] \in Verdicts
        /\ clock <= q.expiry
  /\ delivered'[q] # delivered[q] =>
        /\ delivered[q] = 0
        /\ delivered'[q] = 1
        /\ verdict'[q] # "None"

(***************************************************************************)
(* A request is accepted without a verdict; the callback of a request      *)
(* accepted by this very transaction cannot have run yet.                  *)
(***************************************************************************)
AcceptedFresh(q) ==
  /\ verdict'[q] = "None"
  /\ delivered'[q] = 0
  /\ clock < q.expiry

Transact ==
  /\ asked \subseteq asked'
  /\ \A q \in asked : KeepsPromise(q)
  /\ \A q \in asked' \ asked : AcceptedFresh(q)
  /\ UNCHANGED clock

Wait ==
  /\ clock' > clock
  /\ UNCHANGED <<asked, verdict, delivered>>

RegisterNext == Transact \/ Wait

RegisterSpec == RegisterInit /\ [][RegisterNext]_registerVars
=============================================================================
