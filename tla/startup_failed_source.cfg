CONSTANTS
  Width <- MCWidth
  Ascii <- AsciiRun
  Tiny = {"j", "-", ",", " ", "#", "."}
  Code = "code"
  Databases <- MCDatabases
  Trimmed = {".", ","}
  Garbled <- MinusOne
  FirstUid = 1000
  MaxOthers = 1
  Dot = "."
  Hash = "#"
  Addresses <- MCAddresses
  Hostnames <- MCHostnames
  Domains <- MCDomains
  HostsFiles <- MCHostsFiles
  Answers <- MCAnswers
  Interfaces = {"eth0", "eth1"}
  Arguments <- MCArguments
  Empty = ""
  CommandLines <- MCCommandLines
  Sources = {"auto", "cgo", "getent"}
  Texts <- MCTexts
SPECIFICATION Spec
INVARIANT EnabledFiltersUp
