CONSTANTS
  Role = {viewer, editor, chief}
  RoleSubject = {alice}
  RolePermissions <- MCRolePermissions
  Policies <- MCPolicies
  Requests <- MCRequests
  PartOf <- MCPartOf
  MaxPolicies = 4
  DriveTuples <- MCDriveTuples
  DriveUsers = {"alice", "bob"}
  DriveQuestions <- MCDriveQuestions
  DriveDepth = 4
  Subjects <- MCSubjects
  Resources <- MCResources
  Group <- MCGroup
  GroupEdges <- MCGroupEdges
  MaxRelationshipDepth = 3
  None = None
  LogDecisions <- MCLogDecisions
  LogRequests <- MCLogRequests
  LogContexts <- MCLogContexts
  Retention = 2
  MaxOccurred = 1
  MaxRecords = 2
  UserId = {u1, u2}
  UserName = {"bob", "Bob", "eve"}
  Lower <- MCLower
  PatchRequests <- MCPatchRequests
  PageSize = 1
  MaxLost = 1
  Attributes <- MCAttributes
  FilterPieces <- MCFilterPieces
  MaxTokens = 8
  Char <- MCChar
  MaxText = 4
  DirectoryNames <- MCDirectoryNames
  Secret = {"", "p", "q"}
  MaxAdded = 2
  Account = {someone}
  Spelling = {"composed", "decomposed", "other"}
  Nfkc <- MCNfkc
  Settings <- MCSettings
  DefaultParams <- MCDefaultParams
  Pepper = {"", "k"}
  Foreign <- MCForeign
  TeachingMax = 1
  Argon2Version = 19
  WordRange = 64
  WordsPerBlock = 3
  MemoryCosts = {8, 13, 17, 24, 33}
  Parallelisms = {1, 2, 3}
  TimeCosts = {1, 3}
  Typed = {"a", "b", "c", "d", "e", "f"}
  Hotp <- Colliding
  Recovery <- TwiceTheSame
  Window = 1
  MaxStep = 5
  Nothing = Nothing
  SigningKey = {"rsa", "p256", "hs"}
  KeyType <- MCKeyType
  KidArgument = {"k1"}
  AllowedSets = {{"RS256", "HS256", "ES256", "EdDSA"}, {"ES256", "ES384"}}
  TokenLifetimes = {1}
  TokenLeeway = 1
  Skews <- MCSkews
  MaxKeys = 2
  MaxIssued = 1
  MaxClock = 1
SYMMETRY RoleNames
SPECIFICATION Spec
INVARIANTS
  RolesExact ProhibitionLasts CheckIsClosure GroupResolutionExact ComparisonExact LogTraceable
  AccountsTraceable WalkSeesEveryUser FilterMeansGrammar NamesMeanThemselves
  HashesAgeWell FillingExact ValidationExact
PROPERTIES FactorsSpentByUse
CHECK_DEADLOCK FALSE
