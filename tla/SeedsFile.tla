------------------------------ MODULE SeedsFile ------------------------------
(***************************************************************************)
(* A seeds file as it grows under an operator's hands, and what the        *)
(* matching of module Seeds makes of it.  Every state is a file that       *)
(* loadSeeds may find: it decodes YAML and nothing else.                   *)
(*                                                                         *)
(* Nothing in the repository calls the parsers of resolv.conf and          *)
(* chrony.conf in seeds.go.  Their output is part of the file here as far  *)
(* as an operator writes it there, so as to check that the two halves of   *)
(* seeds.go agree on what an entry covers.                                 *)
(***************************************************************************)
EXTENDS Seeds

CONSTANTS Reported,   \* a name as the sensor reports it (dnsmessage's Name.String)
          MaxEntries  \* bound: seeds written by hand and lines parsed

ASSUME ReportedAssumption   == Reported \in [Value -> Value]
ASSUME MaxEntriesAssumption == MaxEntries \in Nat

VARIABLES hand,  \* seeds written by hand
          conf   \* the lines of resolv.conf and chrony.conf that the operator had
                 \*   parsed and wrote the seeds of

fileVars == <<hand, conf>>

\* The seeds that loadSeeds decodes; an absent or empty file holds none.
File(written, lines) == written \o ParseResolvConf(lines) \o ParseChronyConf(lines)
file == File(hand, conf)

FileInit == hand = <<>> /\ conf = <<>>

\* The operator writes a seed, before or after the others.
Write(sd) ==
  /\ Len(hand) + Len(conf) < MaxEntries
  /\ hand' \in {<<sd>> \o hand, Append(hand, sd)}
  /\ UNCHANGED conf

\* The operator has one more line parsed and writes what it gives.
AddLine(ln) ==
  /\ Len(hand) + Len(conf) < MaxEntries
  /\ conf' = Append(conf, ln)
  /\ UNCHANGED hand

FileNext == (\E sd \in Seed : Write(sd)) \/ (\E ln \in Line : AddLine(ln))

FileSpec == FileInit /\ [][FileNext]_fileVars

-----------------------------------------------------------------------------
(* Properties.                                                             *)

\* What a seed declares: "Port 0 = any port, protocol "" = any.  Group type
\* is suffix-based".
Declares(sd, q) ==
  /\ IF sd.type = "group" THEN InPool(sd, q) ELSE sd.value = q.value
  /\ sd.port \in {0, q.port} /\ sd.proto \in {"", q.proto}

\* The pools of the file are one NTP pool, under this name.
OnlyPool(name) ==
  /\ SuffixRules(file) # {}
  /\ \A i \in SuffixRules(file) : NTPPool(file[i]) /\ file[i].value = name

\* chronyd's NTP traffic to the pool of that name: to a name in it, or, when
\* the sensor missed the name, to an address.
NTPTo(name, q) ==
  /\ q.fleet \in Chronyd /\ q.port \in {0, 123} /\ q.proto = "udp"
  /\ q.value \in IP \/ InPool([value |-> name], q)

\* The value Store.ingestConn keys the endpoint under.
KeyedUnder(q) == IF GroupFor(file, q) = NoGroup THEN q.value ELSE GroupFor(file, q)

\* "declared endpoints pre-marked in proposals": whatever a seed of the file
\* declares is suggested, in whatever order the seeds stand and whichever
\* other seeds there are.
DeclaredIsCovered ==
  \A sd \in Members(file), q \in Query : Declares(sd, q) => Matches(file, q)

\* What the parsers make of the host's own files covers what these configure,
\* once it is in the seeds file: a nameserver over udp and tcp, an NTP server,
\* and every member of a pool.
ConfigurationIsCovered ==
  \A ln \in Members(conf), q \in Query :
    \/ ln.directive = "nameserver" /\ ln.host \in IP
         /\ q.value = Canonical[ln.host] /\ q.port = 53 /\ q.proto # ""
    \/ ln.directive = "server" /\ q.value = ln.host /\ q.port = 123 /\ q.proto = "udp"
    \/ ln.directive = "pool" /\ InPool([value |-> ln.host], q) /\ q.port = 123 /\ q.proto = "udp"
    => Matches(file, q)

\* A seed annotates and never takes an annotation away: an endpoint that was
\* suggested still is when the file has one seed or line more, wherever the
\* new entry stands.
SuggestionsOnlyGrow ==
  [][\A q \in Query :
       Matches(file, q) => Matches(File(hand', conf'), q)]_fileVars

\* With one declared pool, chronyd's NTP traffic to it is keyed under the
\* pool's name, whether it was observed with a name that is in the pool as the
\* file spells it or with a bare address, unless a seed that is not a pool names
\* the very address or name that was observed.  (Names as the sensor spells them
\* are another matter: PoolCoversReportedNames.)
UnseededTrafficCollapses ==
  \A name \in Value, q \in Query :
    /\ OnlyPool(name) /\ NTPTo(name, q)
    /\ \A sd \in Members(file) : sd.value = q.value => sd.type = "group"
    => KeyedUnder(q) = name

\* "The observed endpoint may be the pool name itself or a subdomain ...
\* Suffix matching covers the first two": a pool covers its members as the
\* sensor reports them.
PoolCoversReportedNames ==
  \A sd \in Members(file), q \in Query :
    sd.type = "group" /\ q.value \notin IP /\ Declares(sd, q)
      => Matches(file, [q EXCEPT !.value = Reported[q.value]])

=============================================================================
