CONSTANTS
  Applications = {escrow}
  Escrow = escrow
  Clients = {c1}
  Workers = {w1}
  Bounties = {1, 2}
  Owners = {o1}
  Receivers = {r1}
  Transports = {t1}
  Nobody = Nobody
  Policies = {p1}
  Evidence = {e1}
  ResultHashes = {h1}
  NoHash = NoHash
  NoRequest = NoRequest
  RequestFee = 1
  MaxNonce = 2
  MaxTime = 2
  MaxDepth = 2
  MaxJobs = 2
SPECIFICATION Spec
INVARIANTS TypeOK HoldsWhatItOwes PaidAsResolved NonceInStep RequestsBelongToJobs OnePaymentAtATime
PROPERTY ImplementsSettlement
