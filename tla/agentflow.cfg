CONSTANTS
  user = user
  other = other
  a = a
  b = b
  c = c
  d = d
  e = e
  NoTld = NoTld
  AnyTld = AnyTld
  Stem <- MCStem
  Length <- MCLength
  Letters <- MCLetters
  DottedStem = {}
  Tld = {}
  LowerTld <- MCLowerTld
  TldSuffix <- MCSuffix
  Candidate <- Generated5
  MinLength = 3
  MaxLength = 3
  CaseClash = FALSE
  UserNames = {user}
  HostNames = {}
  UserTexts <- MCUserTexts
  ToolTexts <- MCToolTexts
  Registrations <- MCRegistrations
  Runners <- Runner
  MaxParts = 4
SPECIFICATION Spec
SYMMETRY Symmetry
INVARIANTS
  TypeOK
  Confidential
  ComesBack
PROPERTY StableRequests
