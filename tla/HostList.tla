------------------------------ MODULE HostList ------------------------------
(***************************************************************************)
(* The name list of the host filter.  NewHostFilter asks for the host's    *)
(* name and domain, has the resolver look up name servers, mail servers    *)
(* and the names of the local addresses, and adds /etc/hosts.  Looking for *)
(* the domain has a deadline, and all other lookups share a second one;    *)
(* where it has passed every lookup fails at once.                         *)
(***************************************************************************)
EXTENDS NameSearch, FiniteSets

CONSTANTS
  Dot,        \* the piece between the labels of a name
  Hash,       \* the piece that begins a comment in /etc/hosts
  Addresses,  \* the names that are IP addresses
  Hostnames,  \* what os.Hostname may return, <<>> for an error
  Domains,    \* what WithDomain may have set, <<>> if it was not used
  HostsFiles, \* contents of /etc/hosts: sets of lines, each a sequence of names
  Answers,    \* what a lookup may find: sets of names
  Interfaces  \* the local addresses that are looked up, loopback ones left out

ASSUME HostListAssumption ==
  /\ Dot \in DOMAIN Width /\ Hash \in DOMAIN Width
  /\ Addresses \subseteq Name /\ Hostnames \subseteq Listed /\ Domains \subseteq Listed
  /\ \A f \in HostsFiles : \A line \in f : line \in Seq(Listed \ {<<>>}) /\ line # <<>>
  /\ \A a \in Answers : a \subseteq Listed
  /\ IsFiniteSet(Interfaces)

VARIABLES
  hostname,   \* the name of the host
  etcHosts,   \* the lines of /etc/hosts
  looking,    \* what NewHostFilter does next
  domain,     \* the local domain, <<>> if not known
  expired,    \* whether the deadline of the lookups at hand has passed
  waits,      \* how many deadlines have passed
  told,       \* the names the resolver has told
  addresses,  \* the local addresses that are still to be looked up
  hosts       \* the list: the names in the filter's regular expression

hostVars == <<hostname, etcHosts, looking, domain, expired, waits, told, addresses, hosts>>

HostInit(names, files, domains) ==
  /\ hostname \in names
  /\ etcHosts \in files
  /\ looking = "idle"
  /\ domain \in domains
  /\ expired = FALSE /\ waits = 0
  /\ told = {} /\ addresses = {}
  /\ hosts = {}

-----------------------------------------------------------------------------
Dots(n) == {k \in DOMAIN n : n[k] = Dot}
FirstDot(n) == CHOOSE k \in Dots(n) : \A j \in Dots(n) : k <= j

Before(n) == SubSeq(n, 1, FirstDot(n) - 1)
After(n) == SubSeq(n, FirstDot(n) + 1, Len(n))

\* The domain of a name, <<>> if it has none.
DomainOf(n) == IF Dots(n) = {} THEN <<>> ELSE After(n)

\* The names on the lines of /etc/hosts but those that begin with a comment.
ParseEtcHosts ==
  UNION {{line[k] : k \in 2 .. Len(line)} :
           line \in {l \in etcHosts : l[1][1] # Hash}}

\* A name, its first label and its domain.
Parts(n) == {n} \union IF Dots(n) = {} THEN {} ELSE {Before(n), After(n)}

CleanHostAndDomainNames(names) ==
  {n \in UNION {Parts(m) : m \in names \ Addresses} : ~TooShort(n) /\ n \notin Addresses}

-----------------------------------------------------------------------------
\* The lookups that follow the search for the domain, with a new deadline.  The
\* local addresses may be unknown.
Look ==
  /\ looking' = IF domain' = <<>> THEN "addresses" ELSE "ns"
  /\ expired' = FALSE
  /\ addresses' \in {{}, Interfaces}

\* NewHostFilter is called; a domain that was set, or that the host name has,
\* needs no lookup.
AskHostname ==
  /\ looking = "idle"
  /\ IF domain # <<>> \/ hostname = <<>> \/ Dots(hostname) # {}
     THEN domain' = (IF domain # <<>> THEN domain ELSE DomainOf(hostname)) /\ Look
     ELSE looking' = "cname" /\ UNCHANGED <<domain, expired, addresses>>
  /\ UNCHANGED <<hostname, etcHosts, waits, told, hosts>>

\* detectDomain: the canonical name, or an error.
LookupCNAME(answer) ==
  /\ looking = "cname"
  /\ \E n \in answer \union {<<>>} : domain' = DomainOf(n)
  /\ Look
  /\ UNCHANGED <<hostname, etcHosts, waits, told, hosts>>

LookupNS(answer) ==
  /\ looking = "ns"
  /\ told' = told \union answer
  /\ looking' = "mx"
  /\ UNCHANGED <<hostname, etcHosts, domain, expired, waits, addresses, hosts>>

LookupMX(answer) ==
  /\ looking = "mx"
  /\ told' = told \union answer
  /\ looking' = "addresses"
  /\ UNCHANGED <<hostname, etcHosts, domain, expired, waits, addresses, hosts>>

LookupAddr(answer) ==
  /\ looking = "addresses"
  /\ \E a \in addresses : addresses' = addresses \ {a}
  /\ told' = told \union answer
  /\ UNCHANGED <<hostname, etcHosts, looking, domain, expired, waits, hosts>>

Lookup(answer) ==
  LookupCNAME(answer) \/ LookupNS(answer) \/ LookupMX(answer) \/ LookupAddr(answer)

Waiting ==
  \/ looking \in {"cname", "ns", "mx"}
  \/ looking = "addresses" /\ addresses # {}

\* The resolver answers in time, or reports an error.
Answer == ~expired /\ \E answer \in Answers \union {{}} : Lookup(answer)

\* A slip: the lookups have no deadline.
NeverExpires == FALSE /\ UNCHANGED hostVars

\* The deadline passes, whatever the resolver does.
Expire ==
  /\ Waiting /\ ~expired
  /\ expired' = TRUE
  /\ waits' = waits + 1
  /\ UNCHANGED <<hostname, etcHosts, looking, domain, told, addresses, hosts>>

\* After the deadline a lookup returns its error.
GiveUp == expired /\ Lookup({})

\* A slip: /etc/hosts is not read.
OwnNamesWithoutFile == {hostname, domain} \ {<<>>}

\* What is known whatever the resolver does.
OwnNames == ({hostname, domain} \ {<<>>}) \union ParseEtcHosts

\* The list is put together.
Assemble ==
  /\ looking = "addresses" /\ addresses = {}
  /\ looking' = "ready"
  /\ hosts' = CleanHostAndDomainNames(told \union OwnNames)
  /\ UNCHANGED <<hostname, etcHosts, domain, expired, waits, told, addresses>>

HostTypeOK ==
  /\ hostname \in Hostnames \union {<<>>} /\ etcHosts \in HostsFiles \union {{}}
  /\ looking \in {"idle", "cname", "ns", "mx", "addresses", "ready"}
  /\ domain \in Name
  /\ expired \in BOOLEAN /\ waits \in 0 .. 2
  /\ \A n \in told : n \in Name
  /\ addresses \subseteq Interfaces
  /\ \A n \in hosts : n \in Name /\ ~TooShort(n)
=============================================================================
