CONSTANTS
  Assigned <- SomeCountries
  CfiSeed <- SomeGroups
  Bases <- BasesOf
  Registries <- SomeRegistries
  MaxMarkets = 3
  Typos <- AllTypos
SPECIFICATION Spec
CHECK_DEADLOCK FALSE
INVARIANTS
  RegistryResolves
  WrittenAnyWay
  DigitsAgreeWithReference
  SlipsAreCaught
