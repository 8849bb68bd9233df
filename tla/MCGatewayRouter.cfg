CONSTANTS
  Applications = {a1, a2}
  Owners = {o1, o2}
  Receivers = {r1}
  Transports = {t1}
  Nobody = Nobody
  Policies = {p1}
  Evidence = {e1}
  ResultHashes = {h1}
  NoHash = NoHash
  RequestFee = 1
  MaxNonce = 1
  MaxTime = 2
  MaxDepth = 2
SPECIFICATION RouterSpec
INVARIANTS DeliveredOnce LockIsHeldByOneCall FeesAreHeld NonceIdentifiesRequest
PROPERTY ImplementsVerdictRegister
