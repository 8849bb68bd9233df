------------------------ MODULE MCHubForwarderQuorum ------------------------
(* An instance of HubForwarderQuorum for TLC: one request that the endpoint *)
(* may deliver twice under one message id, and results of two GenLayer      *)
(* transactions, one of which may also name another request.                *)
EXTENDS HubForwarderQuorum

CONSTANTS base, m1, q1, q2, r1, adj1, t1, t2, g1, g2, s1, s2, s3

MCMessage == [id |-> m1, requestId |-> q1, router |-> r1, target |-> adj1]
MCPackets == {[guid |-> g, sender |-> base, message |-> MCMessage] : g \in {g1, g2}}

MCResult(tx, q) ==
  [txHash |-> tx, requestId |-> q, decision |-> "Pass", originMessageId |-> m1,
   adjudicator |-> adj1, router |-> r1]
MCResults == {MCResult(t1, q1), MCResult(t2, q1), MCResult(t2, q2)}

MCInitialSigners == <<s1, s2>>
=============================================================================
