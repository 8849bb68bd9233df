------------------------------ MODULE Settlement ------------------------------
(***************************************************************************)
(* What the escrow promises its clients and workers, with the gateway, the *)
(* nonces and the call stack left out: a bounty is held until it is paid,  *)
(* once; the worker is paid only on the verdict PASS; the client gets it   *)
(* back on FAIL, or once the deadline has passed without PASS and without  *)
(* FAIL; and after the client got it back for lack of a verdict, none      *)
(* comes.  AgentEscrow.tla implements it, one transaction a step.          *)
(***************************************************************************)
EXTENDS Naturals

VARIABLES jobsPosted,       \* the jobs, records with a deadline
          custody,          \* job -> "Held", "Worker" or "Client"
          verdict,          \* job -> "None", "Pass", "Fail" or "Undetermined"
          clock

settlementVars == <<jobsPosted, custody, verdict, clock>>

SettlementInit ==
  /\ jobsPosted = <<>>
  /\ custody = <<>>
  /\ verdict = <<>>
  /\ clock \in Nat

MayPayWorker(j) == verdict'[j] = "Pass"

MayPayClient(j) ==
  \/ verdict'[j] = "Fail"
  \/ verdict'[j] \in {"None", "Undetermined"} /\ clock > jobsPosted[j].deadline

KeepsJob(j) ==
  /\ jobsPosted'[j] = jobsPosted[j]
  /\ verdict'[j] # verdict[j] =>
        /\ verdict[j] = "None"
        /\ custody[j] = "Held"
        /\ clock <= jobsPosted[j].deadline
  /\ custody'[j] # custody[j] =>
        /\ custody[j] = "Held"
        /\ \/ custody'[j] = "Worker" /\ MayPayWorker(j)
           \/ custody'[j] = "Client" /\ MayPayClient(j)

PostsJob(j) ==
  /\ custody'[j] = "Held"
  /\ verdict'[j] = "None"
  /\ jobsPosted'[j].deadline > clock

Transact ==
  /\ \A j \in DOMAIN jobsPosted : j \in DOMAIN jobsPosted' /\ KeepsJob(j)
  /\ \A j \in DOMAIN jobsPosted' \ DOMAIN jobsPosted : PostsJob(j)
  /\ UNCHANGED clock

Wait ==
  /\ clock' > clock
  /\ UNCHANGED <<jobsPosted, custody, verdict>>

SettlementSpec == SettlementInit /\ [][Transact \/ Wait]_settlementVars
=============================================================================
