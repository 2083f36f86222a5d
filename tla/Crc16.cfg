SPECIFICATION Spec
CONSTANTS
  Alphabet <- MCAlphabet
  MaxLen = 4
INVARIANTS
  ImplementationsAgree
  DamageDetected
CHECK_DEADLOCK FALSE
