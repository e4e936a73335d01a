SPECIFICATION FairSpec
CONSTANTS
  a = a
  b = b
  r1 = r1
  r2 = r2
  Instances = {a, b}
  Configured = {a}
  Script <- Up
  MaxDeaths = 1
  Requests = {r1, r2}
  Home <- AllAtHome
  Routes <- MCRoutes
  PoolSize = 2
  NoRequest = NoRequest
INVARIANTS
  TypeOK
  ServesComplete
  PoolAccounts
PROPERTIES
  WedgedByDeathOrOlderVersion
  ComesUp
  Answered
