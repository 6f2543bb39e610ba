SPECIFICATION Spec
CONSTANTS
  NotFinite = NotFinite
  Default <- SomeDefaults
  DefaultLoopRate = 8
  MaxLoopRate = 10
  One = 8
  Configs <- SomeConfigs
  LoopRates <- SomeLoopRates
INVARIANTS
  TypeOK
  ConfigIsUsable
  CopiesAgree
  RatesAreBounded
