SPECIFICATION Spec
CONSTANT MaxConnections = 2
CHECK_DEADLOCK FALSE
INVARIANTS RegistrationKnown NoDanglingLibrary CreationPossible
PROPERTY OtherSpared
