SPECIFICATION ListFairSpec
CONSTANTS
  alice = alice
  api = api
  web = web
  fork = fork
  s1 = s1
  s2 = s2
  pull = pull
  guest = guest
  None = None
  NoUser = NoUser
  User = {alice}
  RepoList <- ForkApiWeb
  ByActivity = TRUE
  AllowedRepo = {api, web}
  PublicRepo = {web}
  Permission = {pull, guest}
  PullPermission = {pull}
  RequireLogin = TRUE
  RequestedSize = {0, 2}
  DefaultSize = 1
  InitialRemote <- PullsAll
  InitialActivity <- OneByOne
  PageSize = 2
  Sync = {s1, s2}
  MaxEvents = 1
INVARIANTS
  ListInv
PROPERTIES
  PermissionsSettle
