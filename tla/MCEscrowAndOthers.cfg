CONSTANTS
  Applications = {escrow, w1}
  Escrow = escrow
  Clients = {c1}
  Workers = {w1}
  Bounties = {1}
  Owners = {o1}
  Receivers = {r1}
  Transports = {t1}
  Nobody = Nobody
  Policies = {p1}
  Evidence = {e1}
  ResultHashes = {h1}
  NoHash = NoHash
  NoRequest = NoRequest
  RequestFee = 0
  MaxNonce = 1
  MaxTime = 3
  MaxDepth = 2
  MaxJobs = 1
SPECIFICATION FairSpec
INVARIANT ContractsAgree
PROPERTY EveryBountySettles
