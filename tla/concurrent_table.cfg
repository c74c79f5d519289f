CONSTANTS
  ab = ab
  cd = cd
  x = x
  y = y
  z = z
  NoTld = NoTld
  AnyTld = AnyTld
  u = u
  Goroutine = {g1, g2}
  Stem <- MCStem
  Length <- MCLength
  Letters <- MCLetters
  DottedStem = {}
  Tld = {}
  LowerTld <- MCNoTlds
  TldSuffix <- MCNoTlds
  Candidate = {x, y, z, u}
  MinLength = 2
  MaxLength = 2
  CaseClash = FALSE
  Original <- MCOriginal
  Inputs <- MCInputs
  Prefill <- MCPrefill
SPECIFICATION Spec
SYMMETRY Symmetry
INVARIANTS
  TypeOK
  FewReplacements
  KnownIsReused
  ReadBack
PROPERTIES
  TurnsImplementTable
  OnlyClashRebinds
