\* One resource of each kind, two disturbances.
CONSTANTS
  cluster = cluster
  workers = workers
  net = net
  gateway = gateway
  subnet = subnet
  group = group
  address = address
  host = host
  profile = profile
  role = role
  schedule = schedule
  log = log
  bucket = bucket
  state = state
  key = key
  Resource <- MCResource
  Kind <- MCKind
  Home <- MCHome
  Stranger = {}
  Later = {log}
  Movable = {workers, net, role, bucket}
  MaxEvents = 2
SPECIFICATION FairSpec
INVARIANTS TypeOK
PROPERTIES OursOnly RecoveryLast ClaimTrue Completes
CHECK_DEADLOCK FALSE
