SPECIFICATION Spec
CONSTANTS
  Procs = {"c1", "c2"}
  OwnerTTL = 3
  PermitMargin = 1
  RequestTimeout = 2
  GCTTL = 2
  GCMargin = 1
  Disturbances = 1
  Users = {"a", "b"}
  Builders = {"a", "b"}
  Expiring = {"a"}
  Images = {{"x"}, {"x", "y"}}
  MaxBytes = 1
  MaxAge = 1
  HoldAge = 1
  AuthenticationTTL = 2
  TokenTTL = 2
  PruneAge = 2
  CreateLife = 1
  SiteEdits = 3
  SiteFaults = 2
  Replicas = {"m1", "m2"}
  MaxRoots = 2
  LeafLifetime = 5
  LeafRenewBefore = 4
  IssuerLifetime = 8
  IssuerRenewBefore = 6
  Delays = 1
  ComponentEdits = 3
  Rotations = 1
  CallFailures = 1
INVARIANTS OneCacheWriter LayersKept ServedOnLiveToken InUseKept  KeysKept
PROPERTIES ServedAgain SiteRemoved 
