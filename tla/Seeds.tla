-------------------------------- MODULE Seeds --------------------------------
(***************************************************************************)
(* Central's static declarations: cmd/central/seeds.go.                    *)
(*                                                                         *)
(* A seeds file is a sequence of seeds.  The store asks of an observed     *)
(* endpoint whether a seed covers it (the "suggested: allow" badge) and    *)
(* which declared pool it belongs to (the group its proposal and decision  *)
(* are keyed under).                                                       *)
(*                                                                         *)
(* Text is abstract: strings.ToLower is the function Lower, and EndsWith   *)
(* relates two lower-case values v, w when strings.HasSuffix(v, "." + w).  *)
(* Reasons, which only the badge shows, are left out.                      *)
(***************************************************************************)
EXTENDS Integers, Sequences

CONSTANTS Value,     \* addresses and names, as seeds and events spell them
          IP,        \* those that net.ParseIP accepts
          Canonical, \* net.IP.String of what net.ParseIP made of an address
          Lower,     \* strings.ToLower
          EndsWith,  \* pairs of lower-case values
          Port,      \* 0 is the wildcard of a seed
          Fleet,     \* fleet identities
          Chronyd,   \* those whose lower-case form contains "chronyd"
          NoGroup    \* the empty group

ASSUME ValueAssumption == IP \subseteq Value /\ NoGroup \notin Value
ASSUME CanonicalAssumption == Canonical \in [IP -> IP]
ASSUME LowerAssumption == Lower \in [Value -> Value] /\ EndsWith \subseteq Value \X Value
ASSUME PortAssumption  == {0, 53, 123} \subseteq Port /\ Port \subseteq Nat
ASSUME FleetAssumption == Chronyd \subseteq Fleet

Proto == {"", "tcp", "udp"}
Seed  == [type : {"ip", "fqdn", "group"}, value : Value, port : Port, proto : Proto]
Query == [value : Value, port : Port, proto : Proto, fleet : Fleet]
Group == Value \union {NoGroup}
Answer == [ok : BOOLEAN, group : Group]

Members(s) == {s[i] : i \in 1..Len(s)}

\* (A faulty variant.) Only the key itself, without its wildcards.
ExactKeyOnly(value, port, proto) == {<<value, port, proto>>}

\* seedKeys: the key and its wildcards; 0 and "" stand for "*".
SeedKeys(value, port, proto) == {value} \X {port, 0} \X {proto, ""}

\* newSeedStore: the exact index holds every seed, pools included; the suffix
\* rules are the pools, by their places in the file.
ByValuePort(seeds) == UNION {SeedKeys(sd.value, sd.port, sd.proto) : sd \in Members(seeds)}
SuffixRules(seeds) == {i \in 1..Len(seeds) : seeds[i].type = "group"}

\* 1) One of the keys of the observed endpoint is in the index.
Exact(seeds, q) == SeedKeys(q.value, q.port, q.proto) \cap ByValuePort(seeds) # {}

\* 2) The observed name is the pool's name or below it.
InPool(r, q) == \/ <<Lower[q.value], Lower[r.value]>> \in EndsWith
                \/ Lower[q.value] = Lower[r.value]

SuffixMatch(r, q) ==
  /\ InPool(r, q)
  /\ r.port = 0 \/ q.port = 0 \/ r.port = q.port
  /\ r.proto = "" \/ r.proto = q.proto

\* (A faulty variant.) Only an observed port of 123 counts.
BareNTPOn123(q) == /\ q.port = 123 /\ q.proto = "udp"
                   /\ q.fleet \in Chronyd
                   /\ q.value \in IP

\* 3) chronyd's NTP traffic to a bare address goes to an NTP pool.
BareNTP(q) == /\ q.port \in {0, 123} /\ q.proto = "udp"
              /\ q.fleet \in Chronyd
              /\ q.value \in IP

NTPPool(r) == r.port = 123 /\ r.proto \in {"udp", ""}

\* (A faulty variant.) The pool is taken for the only one that is declared.
AnsweredByOnlyPool(seeds, passing) ==
  [ok |-> TRUE, group |-> seeds[CHOOSE i \in SuffixRules(seeds) :
                                  \A j \in SuffixRules(seeds) : i <= j].value]

\* The first rule that passes gives the group.
Answered(seeds, passing) ==
  [ok |-> TRUE, group |-> seeds[CHOOSE i \in passing : \A j \in passing : i <= j].value]

\* (A faulty variant.) The first rule for the name is the only one that is tried.
MatchesFirstRuleOnly(seeds, q) ==
  LET named == {i \in SuffixRules(seeds) : InPool(seeds[i], q)}
  IN  IF Exact(seeds, q) THEN [ok |-> TRUE, group |-> NoGroup]
      ELSE IF named # {}
             THEN LET first == CHOOSE i \in named : \A j \in named : i <= j
                  IN  [ok |-> SuffixMatch(seeds[first], q), group |-> seeds[first].value]
      ELSE [ok |-> BareNTP(q), group |-> NoGroup]

\* MatchesWithGroup: is the endpoint covered, and by which pool.  An exact
\* match answers without a pool, whatever pools there are.
MatchesWithGroup(seeds, q) ==
  LET suffix == {i \in SuffixRules(seeds) : SuffixMatch(seeds[i], q)}
      ntp    == {i \in SuffixRules(seeds) : NTPPool(seeds[i])}
  IN  IF Exact(seeds, q) THEN [ok |-> TRUE, group |-> NoGroup]
      ELSE IF suffix # {} THEN Answered(seeds, suffix)
      ELSE IF BareNTP(q) /\ ntp # {} THEN Answered(seeds, ntp)
      ELSE [ok |-> FALSE, group |-> NoGroup]

Matches(seeds, q)  == MatchesWithGroup(seeds, q).ok
GroupFor(seeds, q) == MatchesWithGroup(seeds, q).group

-----------------------------------------------------------------------------
(* The parsers of /etc/resolv.conf and /etc/chrony.conf.  A line is its    *)
(* lower-cased directive and its first argument; comments, blank lines and *)
(* lines without an argument are left out.                                 *)

Line == [directive : {"nameserver", "server", "pool", "other"}, host : Value]

\* The seeds of every line, in order.
Parse(lines, SeedsOf(_, _)) ==
  LET parsed[n \in 0..Len(lines)] ==
        IF n = 0 THEN <<>> ELSE parsed[n - 1] \o SeedsOf(lines, n)
  IN  parsed[Len(lines)]

DNSSeed(ip, proto) == [type |-> "ip", value |-> ip, port |-> 53, proto |-> proto]
NTPSeed(type, host) == [type |-> type, value |-> host, port |-> 123, proto |-> "udp"]

\* A nameserver is declared for DNS over udp and tcp, if it is an address, and
\* in the spelling that the sensor reports addresses in.
ResolvLine(lines, n) ==
  LET ln == lines[n]
  IN  IF ln.directive = "nameserver" /\ ln.host \in IP
        THEN <<DNSSeed(Canonical[ln.host], "udp"), DNSSeed(Canonical[ln.host], "tcp")>>
        ELSE <<>>

\* (A faulty variant.) A host is taken once, whatever its directive.
ChronyHostOnce(lines, n) ==
  LET ln == lines[n]
  IN  CASE ln.directive = "pool" /\ \A i \in 1..(n - 1) : lines[i].host # ln.host ->
             <<NTPSeed("group", ln.host)>>
        [] ln.directive = "server" -> <<NTPSeed("fqdn", ln.host)>>
        [] OTHER -> <<>>

\* A pool is a group, once; a server is a name of its own.
ChronyLine(lines, n) ==
  LET ln == lines[n]
  IN  CASE ln.directive = "pool" /\ \A i \in 1..(n - 1) : lines[i] # ln ->
             <<NTPSeed("group", ln.host)>>
        [] ln.directive = "server" -> <<NTPSeed("fqdn", ln.host)>>
        [] OTHER -> <<>>

ParseResolvConf(lines) == Parse(lines, ResolvLine)
ParseChronyConf(lines) == Parse(lines, ChronyLine)

=============================================================================
