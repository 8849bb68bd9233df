CONSTANTS
  base = base
  m1 = m1
  q1 = q1
  q2 = q2
  r1 = r1
  adj1 = adj1
  t1 = t1
  t2 = t2
  g1 = g1
  g2 = g2
  s1 = s1
  s2 = s2
  s3 = s3
  Packets <- MCPackets
  Senders = {base}
  Relayers = {rel}
  HubOwners = {own}
  Nobody = Nobody
  Signers = {s1, s2, s3}
  Forger = forger
  InitialSigners <- MCInitialSigners
  InitialQuorum = 2
  Results <- MCResults
  Routers = {r1}
  Adjudicators = {adj1}
  NoHash = NoHash
  MaxEpoch = 4
  MaxAttestations = 2
SPECIFICATION HubSpec
INVARIANTS QuorumStaysReachable EpochFixesConfiguration ForwardedByQuorum ForwardedOnce ForwardedAnswersRelayed
