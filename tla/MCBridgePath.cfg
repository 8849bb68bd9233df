CONSTANTS
  s1 = s1
  s3 = s3
  Applications = {a1}
  Owners = {o1}
  Receivers = {rr}
  Transports = {lz}
  Nobody = Nobody
  Policies = {p1}
  Evidence = {e1}
  ResultHashes = {h1, h2}
  NoHash = NoHash
  RequestFee = 0
  MaxNonce = 2
  MaxTime = 1
  MaxDepth = 1
  Router = router
  OtherRouters = {}
  LzSender = lz
  LzReceiver = rr
  BridgeOwners = {bo}
  Adjudicators = {adj}
  HubReceivers = {hubr}
  Forwarders = {hubf}
  HubOwners = {ho}
  HubRelayer = rel
  HubReceiver = hubr
  HubForwarder = hubf
  Strangers = {str}
  Signers = {s1, s3}
  InitialSigners <- MCInitialSigners
  InitialQuorum = 2
  Compromised = {s3}
  Forger = Forger
  MaxEpoch = 2
  MaxAttestations = 2
  AdjudicatorContract = adj
  Submitters = {sub}
  AdjudicatorOwners = {ao}
  NumValidators = 3
  OtherBodies = {"b1"}
SPECIFICATION PathSpec
INVARIANTS OneMessagePerRequest VerdictIsAdjudicated PacketPerVerdict
