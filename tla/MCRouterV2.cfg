CONSTANTS
  yes = yes
  no = no
  hashOfYes = hashOfYes
  hashOfNo = hashOfNo
  HashOf <- MCHashOf
  Routes = {r1}
  Bindings = {b1, b2}
  RegistryOwners = {ro}
  Nobody = Nobody
  Applications = {a1, a2}
  Owners = {o1}
  Receivers = {rr}
  Transports = {t1}
  Arguments = {x1}
  ResultBytes = {yes, no}
  TxHashes = {h1}
  NoHash = NoHash
  RequestFee = 1
  MaxNonce = 1
  MaxTime = 2
  MaxDepth = 2
SPECIFICATION V2Spec
INVARIANTS RequestsFollowTheirRoute ReceivesTheRecordedResult LockedWhileCalledOrDelivered V2FeesAreHeld
PROPERTY V2ImplementsVerdictRegister
