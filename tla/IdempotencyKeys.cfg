SPECIFICATION FairSpec
CONSTANTS
  accept = accept
  a1 = a1 a2 = a2 a3 = a3 a4 = a4
  blind = blind seen = seen
  branch = branch global = global
  Key = {accept}
  Attempt = {a1, a2, a3, a4}
  KeyOf <- OneKey
  Scope = {branch, global}
  ScopeOf <- MCScopeOf
  Shared = branch
  Body <- MCBody
  BodyOf <- MCBodyOf
  NoBody = NoBody
  Nested = {accept}
  LooksUp = {accept}
  Plain = {}
  Versioned = {seen}
  Expects <- FromTheStart
  Patient = {a4}
  MaxFaults = 2
CHECK_DEADLOCK FALSE
INVARIANTS EffectOnce SuccessIsTrue StaleIsUndone
PROPERTIES ImplementsOnceByKey CompletedIsFinal RetriesSettle
