SPECIFICATION SearchSpec
CONSTANTS
  a = a
  b = b
  c = c
  Doc <- MCDoc
  Runes <- MCRunes
  Width <- MCWidth
  Limits <- MCLimits
  Sizes <- MCSizes
  MaxDocs = 3
\* The job ends once it has answered.
CHECK_DEADLOCK FALSE
INVARIANTS
  SearchBounded
