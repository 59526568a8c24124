SPECIFICATION ServiceSpec
CONSTANTS
  Callers = {c1, c2}
  Others = {r1}
  Ttl = 1
  StaleIfError = 2
  Timeout = 1
  Grace = 2
  MaxNow = 6
  MaxVersion = 2
  V4Bits = 3
  MappedPrefix <- Mapped
  MinTrustedPrefix = 2
  NoPrefix = NoPrefix
  Envs <- EnvsDef
  Proxy <- ProxyDef
  People <- PeopleDef
  Claims <- ClaimsDef
  Words <- WordsDef
  NFTCDN_SIZES = {32, 64}
  Wanted = {1, 32, 33, 65}
  Plain = {1}
  CredentialOf <- CredentialDef
  Bad = 0
  Lists <- ListsDef
  ProbeSize = 3
  Probers = {1, 2}
  MaxUses = 1
SYMMETRY CallerSymmetry
CHECK_DEADLOCK FALSE
INVARIANTS DocumentsStayCurrent StopsWithinGrace ConfigSurvivesStop
  RunsAsConfigured OneBudgetPerCaller NothingPersonalLeaves DiscoveryIsExact
PROPERTIES FailsOnlyInOutage
