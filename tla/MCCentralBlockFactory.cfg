CONSTANTS
  Registrations <- MCRegistrations
  Names <- MCNames
SPECIFICATION Spec
CHECK_DEADLOCK FALSE
INVARIANTS
  TypeOK
  RegistryMatchesLinked
