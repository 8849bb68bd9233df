----------------------------- MODULE Adjudicator -----------------------------
(***************************************************************************)
(* src/genlayer/contracts/gateway_adjudicator.py, and what it needs of     *)
(* GenLayer's consensus, which is external: transactions of one contract   *)
(* run one after the other; a leader executes the contract's               *)
(* non-deterministic block, the other validators compare its result with   *)
(* what they get themselves, later, and a majority accepts the result or   *)
(* the leader changes.  Validators differ in nothing and are counted.      *)
(*                                                                         *)
(* Every evaluation fetches the evidence anew, and the server may answer   *)
(* each with the committed bytes, with other bytes, or with nothing that   *)
(* can be used (an error status or too many bytes).  The language model    *)
(* may judge the committed bytes differently each time.                    *)
(***************************************************************************)
EXTENDS Naturals, FiniteSets

CONSTANTS
  Submitters,       \* accounts on GenLayer that may be authorized to submit
  AdjudicatorOwners,
  NumValidators,    \* GenLayer's validators of a transaction, with the leader: 1 or more
  OtherBodies       \* contents other than the committed ones

Decisions == {"Pass", "Fail", "Undetermined"}
Answers == {"Committed", "Unusable"} \cup OtherBodies

NoOutcome == [decision |-> "None", body |-> "None"]
Idle == <<>>

(* A key is a request, which stands for its commitments, and a spelling of  *)
(* its id.                                                                 *)
Execution(key) ==
  [key |-> key, proposal |-> NoOutcome, agreeing |-> 0, disagreeing |-> 0,
   answers |-> {}]

VARIABLES
  adjudicatorOwner, authorizedSubmitter,
  results,          \* [keys with a result -> Result]
  requestOrder,     \* how many entries request_order has
  execution         \* the transaction GenLayer executes, or Idle

adjudicatorVars == <<adjudicatorOwner, authorizedSubmitter, results,
                     requestOrder, execution>>

AdjudicatorInit ==
  /\ adjudicatorOwner \in AdjudicatorOwners
  /\ authorizedSubmitter \in Submitters
  /\ results = [k \in {} |-> <<>>]
  /\ requestOrder = 0
  /\ execution = Idle

-----------------------------------------------------------------------------
SetAuthorizedSubmitter(caller, submitter) ==
  /\ execution = Idle
  /\ caller = adjudicatorOwner
  /\ authorizedSubmitter' = submitter
  /\ UNCHANGED <<adjudicatorOwner, results, requestOrder, execution>>

TransferAdjudicator(caller, newOwner) ==
  /\ execution = Idle
  /\ caller = adjudicatorOwner
  /\ adjudicatorOwner' = newOwner
  /\ UNCHANGED <<authorizedSubmitter, results, requestOrder, execution>>

Administers ==
  \E caller \in AdjudicatorOwners :
    \/ \E s \in Submitters : SetAuthorizedSubmitter(caller, s)
    \/ \E o \in AdjudicatorOwners : TransferAdjudicator(caller, o)

(***************************************************************************)
(* adjudicate, up to the non-deterministic block.  The commitments are     *)
(* compared without regard to case, results are looked up by the id as it  *)
(* is spelled.  A transaction that fails here changes nothing.             *)
(***************************************************************************)
HasNoResult(key) == key \notin DOMAIN results

Adjudicate(caller, key) ==
  /\ execution = Idle
  /\ caller = authorizedSubmitter
  /\ HasNoResult(key)
  /\ execution' = Execution(key)
  /\ UNCHANGED <<adjudicatorOwner, authorizedSubmitter, results, requestOrder>>

(***************************************************************************)
(* evaluate: what a validator may make of the server's answer.             *)
(***************************************************************************)
Outcomes(answer) ==
  CASE answer = "Unusable" -> {[decision |-> "Undetermined", body |-> "Committed"]}
    [] answer = "Committed" -> {[decision |-> d, body |-> "Committed"] : d \in Decisions}
    [] OTHER -> {[decision |-> "Fail", body |-> answer]}

(***************************************************************************)
(* validate.  A validator whose evaluation raises an error does not agree. *)
(***************************************************************************)
SameOutcome_AnyBody(mine, leaders) == mine.decision = leaders.decision
SameOutcome(mine, leaders) ==
  mine.decision = leaders.decision /\ mine.body = leaders.body

IsLed == execution # Idle /\ execution.proposal # NoOutcome
HaveVoted == execution.agreeing + execution.disagreeing

Lead ==
  /\ execution # Idle
  /\ execution.proposal = NoOutcome
  /\ \E answer \in Answers : \E outcome \in Outcomes(answer) :
        execution' = [execution EXCEPT !.proposal = outcome, !.agreeing = 1,
                                       !.answers = {answer}]
  /\ UNCHANGED <<adjudicatorOwner, authorizedSubmitter, results, requestOrder>>

Agrees ==
  /\ IsLed
  /\ HaveVoted < NumValidators
  /\ \E answer \in Answers : \E mine \in Outcomes(answer) :
        /\ SameOutcome(mine, execution.proposal)
        /\ execution' = [execution EXCEPT !.agreeing = @ + 1,
                                          !.answers = @ \cup {answer}]
  /\ UNCHANGED <<adjudicatorOwner, authorizedSubmitter, results, requestOrder>>

Disagrees ==
  /\ IsLed
  /\ HaveVoted < NumValidators
  /\ execution' = [execution EXCEPT !.disagreeing = @ + 1]
  /\ UNCHANGED <<adjudicatorOwner, authorizedSubmitter, results, requestOrder>>

IsMajority(n) == 2 * n > NumValidators

(***************************************************************************)
(* The end of adjudicate: a majority accepts, and the result is stored.    *)
(* `answers' is a history of what those who accepted it were served.       *)
(***************************************************************************)
StoreResult ==
  /\ IsLed
  /\ IsMajority(execution.agreeing)
  /\ results' = [k \in DOMAIN results \cup {execution.key} |->
                   IF k = execution.key
                   THEN [decision |-> execution.proposal.decision,
                         answers |-> execution.answers]
                   ELSE results[k]]
  /\ requestOrder' = requestOrder + 1
  /\ execution' = Idle
  /\ UNCHANGED <<adjudicatorOwner, authorizedSubmitter>>

(***************************************************************************)
(* No majority: another leader starts again, or the transaction ends       *)
(* without a result.                                                       *)
(***************************************************************************)
NoMajority ==
  /\ IsLed
  /\ HaveVoted = NumValidators
  /\ ~IsMajority(execution.agreeing)

RotateLeader ==
  /\ NoMajority
  /\ execution' = Execution(execution.key)
  /\ UNCHANGED <<adjudicatorOwner, authorizedSubmitter, results, requestOrder>>

GiveUp ==
  /\ NoMajority
  /\ execution' = Idle
  /\ UNCHANGED <<adjudicatorOwner, authorizedSubmitter, results, requestOrder>>

Executes ==
  Lead \/ Agrees \/ Disagrees \/ StoreResult \/ RotateLeader \/ GiveUp

-----------------------------------------------------------------------------
(***************************************************************************)
(* Properties.                                                             *)
(***************************************************************************)
(***************************************************************************)
(* What a stored result rests on.  Although every validator fetches the    *)
(* evidence for itself and the server may change its answer in between,    *)
(* whoever accepted a PASS read the committed bytes; those who accepted a  *)
(* FAIL all read the committed bytes or all the same other bytes; and      *)
(* nobody who read other bytes accepted UNDETERMINED (evaluate, validate). *)
(***************************************************************************)
RestsOnEvidence(r) ==
  /\ r.decision = "Pass" => r.answers = {"Committed"}
  /\ r.decision = "Fail" =>
        Cardinality(r.answers) = 1 /\ "Unusable" \notin r.answers
  /\ r.decision = "Undetermined" => r.answers \cap OtherBodies = {}
=============================================================================
