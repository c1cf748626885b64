SPECIFICATION FairSpec
CONSTANTS
  Name <- SecretName
  Key <- SecretKey
  Fields <- SecretFields
  Named <- SecretNamed
  Specs <- SecretSpec
  Migrations = 2
  MaxMishaps = 3
INVARIANTS
  StartInv
PROPERTIES
  KeepsMatching
  Converges
CHECK_DEADLOCK FALSE
