CONSTANTS
  ab = ab
  cd = cd
  host = host
  x = x
  y = y
  z = z
  long = long
  com = com
  COM = COM
  org = org
  inv = inv
  loc = loc
  NoTld = NoTld
  AnyTld = AnyTld
  MaxEntries = 5
  Stem <- MCStem
  Length <- MCLength
  Letters <- MCLetters
  DottedStem = {host}
  Tld <- IdealTld
  LowerTld <- IdealLowerTld
  TldSuffix <- IdealSuffix
  Candidate = {x, y, z, long}
  MinLength = 3
  MaxLength = 4
  CaseClash = FALSE
  Original <- MCOriginal
  Inputs <- MCInputs
  Prefill <- GoodPrefill
SPECIFICATION MCSpec
INVARIANTS
  TypeOK
  OneKeyPerOriginal
  Decodable
  CasePreserved
  WhitelistHonoured
PROPERTIES
  NeverRebound
  BookSpec
