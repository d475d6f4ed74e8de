CONSTANTS
  c1 = c1
  c2 = c2
  Alphabet = {"a", "b"}
  MaxLength = 4
  Conns <- MCConns
  Names <- MCNames
  UsersOf <- MCUsersOf
  Pods <- MCPods
  Endpoints <- MCEndpoints
  Weight <- MCWeight
  PodNames <- MCPodNames
  Containers <- MCContainers
  DefaultContainer <- MCDefaultContainer
  Keys <- MCKeys
  Passwords <- MCPasswords
  SecretStates <- MCSecretStates
  InitialSecret <- MCInitialSecret
  Specs <- MCSpecs
  InitialSpecs <- MCInitialSpecs
  WebhookInfos <- MCWebhookInfos
  Configs <- MCConfigs
  Requests <- MCRequests
  EnvNames <- MCEnvNames
  MaxAttempts = 2
  MaxEvents = 3
SPECIFICATION Spec
CHECK_DEADLOCK FALSE
INVARIANTS
  ConnectionsCounted
  ConnectsResolvedSpec
  OneAccess
  ListedMaterialDecides
  LimitsHold
  MatchIsGlob
PROPERTY RevokedStartsNothing
