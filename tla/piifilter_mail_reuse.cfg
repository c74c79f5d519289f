CONSTANTS
  user = user
  host = host
  other = other
  a = a
  b = b
  c = c
  d = d
  e = e
  com = com
  org = org
  inv = inv
  NoTld = NoTld
  AnyTld = AnyTld
  Stem <- MCStem
  Length <- MCLength
  Letters <- MCLetters
  DottedStem = {}
  Tld <- MCTld
  LowerTld <- MCLowerTld
  TldSuffix <- MCSuffix
  Candidate = {a, b, c, d, e}
  MinLength = 3
  MaxLength = 3
  CaseClash = FALSE
  UserNames = {user}
  HostNames = {host}
  Texts <- MCTexts
  Prefill <- MCPrefill
SPECIFICATION Spec
INVARIANT MailReusesNames
