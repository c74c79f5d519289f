CONSTANTS
  Lengths = {1, 2, 3, 4, 5, 6}
  Drawn <- MCDrawn
SPECIFICATION Spec
INVARIANTS
  TypeOK
  ExactLength
  HeldFits
  VowelInSyllable
  NeverStuck
