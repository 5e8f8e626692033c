------------------------------ MODULE StoreProofs ------------------------------
(* Proofs about Seeds, SeedsFile and Store: first the matching of seeds,   *)
(* for seeds files of every length, any values, names and ports; then the  *)
(* queue, for every set of workloads, hosts, endpoints and handlers, and   *)
(* any number of events and decisions.                                     *)
EXTENDS Store, SeedsFile, TLAPS, WellFoundedInduction

-----------------------------------------------------------------------------
(* The matching of seeds.                                                  *)

\* The first of some places in a file exists.
LEMMA FirstPlace ==
  ASSUME NEW I \in SUBSET Nat, I # {}
  PROVE  \E i \in I : \A j \in I : i <= j
<1>1. PICK i \in I : \A j \in I : ~ (<<j, i>> \in OpToRel(<, Nat))
  BY WFMin, NatLessThanWellFounded, Zenon
<1>2. ASSUME NEW j \in I
      PROVE  i <= j
  <2>1. i \in Nat /\ j \in Nat
    OBVIOUS
  <2>2. ~ (j < i)
    BY <1>1, <2>1, Zenon DEF OpToRel
  <2> QED
    BY <2>1, <2>2
<1> QED
  BY <1>2

\* A rule that passes gives its own name.
LEMMA AnsweredType ==
  ASSUME NEW given, NEW passing \in SUBSET (1..Len(given)), passing # {}
  PROVE  /\ Answered(given, passing).ok = TRUE
         /\ \E i \in passing : Answered(given, passing).group = given[i].value
<1> DEFINE first == CHOOSE i \in passing : \A j \in passing : i <= j
<1>1. passing \in SUBSET Nat
  OBVIOUS
<1>2. first \in passing
  BY <1>1, FirstPlace
<1> HIDE DEF first
<1>3. Answered(given, passing) = [ok |-> TRUE, group |-> given[first].value]
  BY DEF Answered, first
<1> QED
  BY <1>2, <1>3

\* An endpoint is covered if one of its keys is in the index, a pool has its
\* name, or it is chronyd's traffic and there is an NTP pool; the order of the
\* seeds plays no part in it.
LEMMA MatchesAny ==
  ASSUME NEW given, NEW q
  PROVE  Matches(given, q) <=>
           \/ Exact(given, q)
           \/ \E i \in SuffixRules(given) : SuffixMatch(given[i], q)
           \/ BareNTP(q) /\ \E i \in SuffixRules(given) : NTPPool(given[i])
<1> DEFINE suffix == {i \in SuffixRules(given) : SuffixMatch(given[i], q)}
           ntp    == {i \in SuffixRules(given) : NTPPool(given[i])}
<1>1. suffix \in SUBSET (1..Len(given)) /\ ntp \in SUBSET (1..Len(given))
  BY DEF SuffixRules
<1>2. /\ suffix # {} => Answered(given, suffix).ok = TRUE
      /\ ntp # {} => Answered(given, ntp).ok = TRUE
  BY <1>1, AnsweredType
<1>3. MatchesWithGroup(given, q) =
        IF Exact(given, q) THEN [ok |-> TRUE, group |-> NoGroup]
        ELSE IF suffix # {} THEN Answered(given, suffix)
        ELSE IF BareNTP(q) /\ ntp # {} THEN Answered(given, ntp)
        ELSE [ok |-> FALSE, group |-> NoGroup]
  BY DEF MatchesWithGroup
<1>4. /\ suffix # {} <=> \E i \in SuffixRules(given) : SuffixMatch(given[i], q)
      /\ ntp # {} <=> \E i \in SuffixRules(given) : NTPPool(given[i])
  OBVIOUS
<1> HIDE DEF suffix, ntp
<1> QED
  BY <1>2, <1>3, <1>4 DEF Matches

\* A group is the name of a declared pool.
LEMMA GroupIsDeclared ==
  ASSUME NEW given, NEW q, GroupFor(given, q) # NoGroup
  PROVE  \E i \in SuffixRules(given) : /\ GroupFor(given, q) = given[i].value
                                       /\ SuffixMatch(given[i], q) \/ NTPPool(given[i])
<1> DEFINE suffix == {i \in SuffixRules(given) : SuffixMatch(given[i], q)}
           ntp    == {i \in SuffixRules(given) : NTPPool(given[i])}
<1>1. suffix \in SUBSET (1..Len(given)) /\ ntp \in SUBSET (1..Len(given))
  BY DEF SuffixRules
<1>2. MatchesWithGroup(given, q) =
        IF Exact(given, q) THEN [ok |-> TRUE, group |-> NoGroup]
        ELSE IF suffix # {} THEN Answered(given, suffix)
        ELSE IF BareNTP(q) /\ ntp # {} THEN Answered(given, ntp)
        ELSE [ok |-> FALSE, group |-> NoGroup]
  BY DEF MatchesWithGroup
<1>3. /\ suffix # {} => \E i \in suffix : Answered(given, suffix).group = given[i].value
      /\ ntp # {} => \E i \in ntp : Answered(given, ntp).group = given[i].value
  BY <1>1, AnsweredType
<1>4. \/ suffix # {} /\ GroupFor(given, q) = Answered(given, suffix).group
      \/ ntp # {} /\ GroupFor(given, q) = Answered(given, ntp).group
  <2> HIDE DEF suffix, ntp
  <2> QED
    BY <1>2 DEF GroupFor
<1> QED
  BY <1>3, <1>4

\* What matches a pool, and has no key in the index, has a pool's name as group.
LEMMA GroupIfCovered ==
  ASSUME NEW given, NEW q, ~ Exact(given, q), NEW i \in SuffixRules(given),
         SuffixMatch(given[i], q) \/ (BareNTP(q) /\ NTPPool(given[i])),
         \A n \in SuffixRules(given) : given[n].value # NoGroup
  PROVE  GroupFor(given, q) # NoGroup
<1> DEFINE suffix == {n \in SuffixRules(given) : SuffixMatch(given[n], q)}
           ntp    == {n \in SuffixRules(given) : NTPPool(given[n])}
<1>1. suffix \in SUBSET (1..Len(given)) /\ ntp \in SUBSET (1..Len(given))
  BY DEF SuffixRules
<1>2. MatchesWithGroup(given, q) =
        IF Exact(given, q) THEN [ok |-> TRUE, group |-> NoGroup]
        ELSE IF suffix # {} THEN Answered(given, suffix)
        ELSE IF BareNTP(q) /\ ntp # {} THEN Answered(given, ntp)
        ELSE [ok |-> FALSE, group |-> NoGroup]
  BY DEF MatchesWithGroup
<1>3. /\ suffix # {} => Answered(given, suffix).group # NoGroup
      /\ ntp # {} => Answered(given, ntp).group # NoGroup
  BY <1>1, AnsweredType
<1>4. suffix # {} \/ (BareNTP(q) /\ ntp # {})
  OBVIOUS
<1> HIDE DEF suffix, ntp
<1> QED
  BY <1>2, <1>3, <1>4 DEF GroupFor

\* A group is a value, or the empty group.
LEMMA GroupForType ==
  ASSUME NEW given \in Seq(Seed), NEW q
  PROVE  GroupFor(given, q) \in Group
<1>1. CASE GroupFor(given, q) = NoGroup
  BY <1>1 DEF Group
<1>2. CASE GroupFor(given, q) # NoGroup
  <2>1. PICK i \in SuffixRules(given) : GroupFor(given, q) = given[i].value
    BY <1>2, GroupIsDeclared
  <2>2. given[i] \in Seed
    BY DEF SuffixRules
  <2> QED
    BY <2>1, <2>2 DEF Seed, Group
<1> QED
  BY <1>1, <1>2

\* What two endpoints share a key for.
LEMMA SharedKey ==
  ASSUME NEW given, NEW sd \in Members(given), NEW q,
         sd.value = q.value, sd.port \in {0, q.port}, sd.proto \in {"", q.proto}
  PROVE  Exact(given, q)
<1>1. <<sd.value, sd.port, sd.proto>> \in SeedKeys(sd.value, sd.port, sd.proto)
  BY DEF SeedKeys
<1>2. <<sd.value, sd.port, sd.proto>> \in SeedKeys(q.value, q.port, q.proto)
  BY DEF SeedKeys
<1>3. <<sd.value, sd.port, sd.proto>> \in ByValuePort(given)
  BY <1>1 DEF ByValuePort
<1> QED
  BY <1>2, <1>3 DEF Exact

\* The index answers for values that stand in the file.
LEMMA ExactValue ==
  ASSUME NEW given, NEW q, Exact(given, q)
  PROVE  \E sd \in Members(given) : sd.value = q.value
<1>1. PICK key : key \in SeedKeys(q.value, q.port, q.proto) /\ key \in ByValuePort(given)
  BY DEF Exact
<1>2. PICK sd \in Members(given) : key \in SeedKeys(sd.value, sd.port, sd.proto)
  BY <1>1 DEF ByValuePort
<1>3. key[1] = q.value /\ key[1] = sd.value
  BY <1>1, <1>2 DEF SeedKeys
<1> QED
  BY <1>3

\* Whatever a seed declares is suggested, whichever other seeds there are.
LEMMA Covers ==
  ASSUME NEW given, NEW sd \in Members(given), NEW q, Declares(sd, q)
  PROVE  Matches(given, q)
<1>1. PICK i \in 1..Len(given) : given[i] = sd
  BY DEF Members
<1>2. CASE sd.type = "group"
  <2>1. i \in SuffixRules(given)
    BY <1>1, <1>2 DEF SuffixRules
  <2>2. SuffixMatch(given[i], q)
    BY <1>1, <1>2 DEF Declares, SuffixMatch
  <2> QED
    BY <2>1, <2>2, MatchesAny
<1>3. CASE sd.type # "group"
  <2>1. Exact(given, q)
    BY <1>3, SharedKey DEF Declares
  <2> QED
    BY <2>1, MatchesAny
<1> QED
  BY <1>2, <1>3

\* With one pool, its traffic is keyed under its name.
LEMMA Collapses ==
  ASSUME NEW name \in Value, NEW q \in Query, OnlyPool(name), NTPTo(name, q),
         \A sd \in Members(file) : sd.value = q.value => sd.type = "group"
  PROVE  KeyedUnder(q) = name
<1>1. \A i \in SuffixRules(file) : NTPPool(file[i]) /\ file[i].value = name
  BY DEF OnlyPool
<1>2. PICK i \in SuffixRules(file) : NTPPool(file[i]) /\ file[i].value = name
  BY <1>1 DEF OnlyPool
<1>3. name # NoGroup
  BY ValueAssumption
<1>4. CASE GroupFor(file, q) # NoGroup
  <2>1. GroupFor(file, q) = name
    BY <1>1, <1>4, GroupIsDeclared
  <2> QED
    BY <1>3, <2>1 DEF KeyedUnder
<1>5. CASE Exact(file, q)
  <2>1. PICK sd \in Members(file) : sd.value = q.value
    BY <1>5, ExactValue
  <2>2. PICK n \in 1..Len(file) : file[n] = sd
    BY DEF Members
  <2>3. n \in SuffixRules(file)
    BY <2>1, <2>2 DEF SuffixRules
  <2>4. q.value = name
    BY <1>1, <2>1, <2>2, <2>3
  <2>5. GroupFor(file, q) = NoGroup
    BY <1>5 DEF GroupFor, MatchesWithGroup
  <2> QED
    BY <2>4, <2>5 DEF KeyedUnder
<1>6. CASE ~ Exact(file, q)
  <2>1. SuffixMatch(file[i], q) \/ BareNTP(q)
    BY <1>2 DEF NTPTo, NTPPool, SuffixMatch, InPool, BareNTP
  <2>2. GroupFor(file, q) # NoGroup
    BY <1>6, <2>1, <1>1, <1>2, <1>3, GroupIfCovered
  <2> QED
    BY <1>4, <2>2
<1> QED
  BY <1>5, <1>6

-----------------------------------------------------------------------------
(* The parsers.  A parsed file is a recursive function of the number of    *)
(* lines; that there is such a function, and what it gives, is shown by    *)
(* induction over the numbers, as a fact about sets of them.               *)

\* A set of numbers that has 0 and every successor has them all.
LEMMA EveryNumber ==
  ASSUME NEW S \in SUBSET Nat, 0 \in S, \A n \in S : n + 1 \in S
  PROVE  S = Nat
<1>1. SUFFICES ASSUME Nat \ S # {} PROVE FALSE
  OBVIOUS
<1>2. PICK i \in Nat \ S : \A j \in Nat \ S : i <= j
  <2>1. Nat \ S \in SUBSET Nat
    OBVIOUS
  <2> QED
    BY <1>1, <2>1, FirstPlace
<1>3. i - 1 \in Nat /\ ~ (i <= i - 1)
  BY <1>2
<1>4. i - 1 \in S
  BY <1>2, <1>3
<1> QED
  BY <1>2, <1>3, <1>4

\* What is written up to a line, from what every line gives.
Written(g, parts, n) ==
  g = [i \in 0..n |-> IF i = 0 THEN <<>> ELSE g[i - 1] \o parts[i]]

\* There is such a function for every number of lines.
LEMMA WrittenExists ==
  ASSUME NEW parts, NEW n \in Nat
  PROVE  \E g : Written(g, parts, n)
<1> DEFINE S == {m \in Nat : \E g : Written(g, parts, m)}
<1>1. 0 \in S
  <2> DEFINE g == [i \in 0..0 |-> <<>>]
  <2>1. Written(g, parts, 0)
    BY DEF Written
  <2> QED
    BY <2>1
<1>2. ASSUME NEW m \in S
      PROVE  m + 1 \in S
  <2>1. PICK g : Written(g, parts, m)
    OBVIOUS
  <2> DEFINE h == [i \in 0..(m + 1) |-> IF i = m + 1 THEN g[m] \o parts[m + 1] ELSE g[i]]
  <2>2. m \in Nat /\ m + 1 \in Nat
    OBVIOUS
  <2>3. ASSUME NEW i \in 0..(m + 1)
        PROVE  h[i] = IF i = 0 THEN <<>> ELSE h[i - 1] \o parts[i]
    <3>1. CASE i = m + 1
      <4>1. i # 0 /\ i - 1 = m /\ m \in 0..(m + 1) /\ m # m + 1
        BY <2>2, <3>1
      <4>2. h[m] = g[m]
        BY <4>1
      <4>3. h[i] = g[m] \o parts[m + 1]
        BY <3>1
      <4> QED
        BY <3>1, <4>1, <4>2, <4>3
    <3>2. CASE i # m + 1
      <4>1. i \in 0..m /\ h[i] = g[i]
        BY <2>2, <3>2
      <4>2. g[i] = IF i = 0 THEN <<>> ELSE g[i - 1] \o parts[i]
        BY <2>1, <4>1 DEF Written
      <4>3. i # 0 => i - 1 \in 0..(m + 1) /\ i - 1 # m + 1
        BY <2>2, <4>1
      <4>4. i # 0 => h[i - 1] = g[i - 1]
        BY <4>3
      <4> QED
        BY <4>1, <4>2, <4>4
    <3> QED
      BY <3>1, <3>2
  <2>4. h = [i \in 0..(m + 1) |-> h[i]]
    OBVIOUS
  <2> HIDE DEF h
  <2>5. Written(h, parts, m + 1)
    BY <2>3, <2>4 DEF Written
  <2> QED
    BY <2>2, <2>5
<1>3. S \in SUBSET Nat
  OBVIOUS
<1> HIDE DEF S
<1>4. S = Nat
  BY <1>1, <1>2, <1>3, EveryNumber
<1> QED
  BY <1>4 DEF S

\* The members of the parts of a file that a line gives.
LEMMA MembersFew ==
  ASSUME NEW x, NEW y
  PROVE  Members(<<x>>) = {x} /\ Members(<<x, y>>) = {x, y}
<1>1. Len(<<x>>) = 1 /\ <<x>>[1] = x /\ \A i : i \in 1..1 <=> i = 1
  OBVIOUS
<1>2. Len(<<x, y>>) = 2 /\ <<x, y>>[1] = x /\ <<x, y>>[2] = y /\ \A i : i \in 1..2 <=> i = 1 \/ i = 2
  OBVIOUS
<1> DEFINE s == <<x>>
           t == <<x, y>>
<1> HIDE DEF s, t
<1>3. Members(s) = {x}
  BY <1>1 DEF Members, s
<1>4. Members(t) = {x, y}
  <2>1. Len(t) = 2 /\ t[1] = x /\ t[2] = y
    BY <1>2 DEF t
  <2>2. 1 \in 1..Len(t) /\ 2 \in 1..Len(t) /\ \A i \in 1..Len(t) : t[i] \in {x, y}
    BY <1>2, <2>1
  <2> QED
    BY <2>1, <2>2 DEF Members
<1> QED
  BY <1>3, <1>4 DEF s, t

\* The members of two files, one after the other.
LEMMA MembersBoth ==
  ASSUME NEW s \in Seq(Seed), NEW t \in Seq(Seed)
  PROVE  s \o t \in Seq(Seed) /\ Members(s \o t) = Members(s) \union Members(t)
<1>1. /\ s \o t \in Seq(Seed) /\ Len(s \o t) = Len(s) + Len(t) /\ Len(s) \in Nat /\ Len(t) \in Nat
      /\ \A i \in 1..Len(s) : (s \o t)[i] = s[i]
      /\ \A i \in 1..Len(t) : (s \o t)[Len(s) + i] = t[i]
  OBVIOUS
<1> DEFINE st == s \o t
<1> HIDE DEF st
<1>2. ASSUME NEW x \in Members(s) \union Members(t)
      PROVE  x \in Members(st)
  <2>1. CASE x \in Members(s)
    <3>1. PICK i \in 1..Len(s) : s[i] = x
      BY <2>1 DEF Members
    <3>2. i \in 1..Len(st) /\ st[i] = x
      BY <1>1, <3>1 DEF st
    <3> QED
      BY <3>2 DEF Members
  <2>2. CASE x \in Members(t)
    <3>1. PICK i \in 1..Len(t) : t[i] = x
      BY <2>2 DEF Members
    <3>2. Len(s) + i \in 1..Len(st) /\ st[Len(s) + i] = x
      BY <1>1, <3>1 DEF st
    <3> QED
      BY <3>2 DEF Members
  <2> QED
    BY <2>1, <2>2
<1>3. ASSUME NEW x \in Members(st)
      PROVE  x \in Members(s) \union Members(t)
  <2>1. PICK i \in 1..Len(st) : st[i] = x
    BY DEF Members
  <2>2. CASE i \in 1..Len(s)
    BY <1>1, <2>1, <2>2 DEF st, Members
  <2>3. CASE i \notin 1..Len(s)
    <3>1. i - Len(s) \in 1..Len(t) /\ Len(s) + (i - Len(s)) = i
      BY <1>1, <2>3 DEF st
    <3>2. t[i - Len(s)] = x
      BY <1>1, <2>1, <3>1 DEF st
    <3> QED
      BY <3>1, <3>2 DEF Members
  <2> QED
    BY <2>2, <2>3
<1> QED
  BY <1>1, <1>2, <1>3 DEF st

\* What is written has the seeds of every line, and no others.
LEMMA WrittenMembers ==
  ASSUME NEW n \in Nat, NEW parts \in [1..n -> Seq(Seed)], NEW g, Written(g, parts, n)
  PROVE  /\ g[n] \in Seq(Seed)
         /\ \A sd : sd \in Members(g[n]) <=> \E i \in 1..n : sd \in Members(parts[i])
<1> DEFINE S == {m \in Nat : m <= n =>
                   /\ g[m] \in Seq(Seed)
                   /\ \A sd : sd \in Members(g[m]) <=> \E i \in 1..m : sd \in Members(parts[i])}
<1>1. \A m \in 0..n : g[m] = IF m = 0 THEN <<>> ELSE g[m - 1] \o parts[m]
  BY DEF Written
<1>2. 0 \in S
  <2>1. g[0] = <<>>
    BY <1>1
  <2>2. Members(<<>>) = {} /\ <<>> \in Seq(Seed)
    BY DEF Members
  <2>3. 0 \in Nat /\ \A i : i \notin 1..0
    OBVIOUS
  <2> QED
    BY <2>1, <2>2, <2>3
<1>3. ASSUME NEW m \in S
      PROVE  m + 1 \in S
  <2> SUFFICES ASSUME m + 1 <= n
               PROVE  /\ g[m + 1] \in Seq(Seed)
                      /\ \A sd : sd \in Members(g[m + 1]) <=> \E i \in 1..(m + 1) : sd \in Members(parts[i])
    OBVIOUS
  <2>1. m \in Nat /\ m <= n /\ m + 1 \in 0..n /\ m + 1 \in 1..n /\ m + 1 # 0 /\ (m + 1) - 1 = m
    OBVIOUS
  <2>2. g[m + 1] = g[m] \o parts[m + 1]
    BY <1>1, <2>1
  <2>3. /\ g[m] \in Seq(Seed) /\ parts[m + 1] \in Seq(Seed)
        /\ \A sd : sd \in Members(g[m]) <=> \E i \in 1..m : sd \in Members(parts[i])
    BY <2>1
  <2>4. /\ g[m + 1] \in Seq(Seed)
        /\ Members(g[m + 1]) = Members(g[m]) \union Members(parts[m + 1])
    BY <2>2, <2>3, MembersBoth
  <2>5. \A i : i \in 1..(m + 1) <=> i \in 1..m \/ i = m + 1
    BY <2>1
  <2> QED
    BY <2>3, <2>4, <2>5
<1>4. S \in SUBSET Nat
  OBVIOUS
<1> HIDE DEF S
<1>5. S = Nat
  BY <1>2, <1>3, <1>4, EveryNumber
<1>6. n \in S
  BY <1>5
<1> QED
  BY <1>6 DEF S

\* Each parser writes the seeds of every line, and no others.
LEMMA ResolvMembers ==
  ASSUME NEW lines \in Seq(Line)
  PROVE  /\ ParseResolvConf(lines) \in Seq(Seed)
         /\ \A sd : sd \in Members(ParseResolvConf(lines)) <=>
                      \E i \in 1..Len(lines) : sd \in Members(ResolvLine(lines, i))
<1> DEFINE n     == Len(lines)
           parts == [i \in 1..n |-> ResolvLine(lines, i)]
<1>1. n \in Nat
  OBVIOUS
<1>2. ASSUME NEW i \in 1..n
      PROVE  ResolvLine(lines, i) \in Seq(Seed)
  <2>1. lines[i] \in Line
    OBVIOUS
  <2>2. CASE lines[i].directive = "nameserver" /\ lines[i].host \in IP
    <3>1. Canonical[lines[i].host] \in Value /\ 53 \in Port
      BY <2>2, CanonicalAssumption, ValueAssumption, PortAssumption
    <3>2. DNSSeed(Canonical[lines[i].host], "udp") \in Seed /\ DNSSeed(Canonical[lines[i].host], "tcp") \in Seed
      BY <3>1 DEF DNSSeed, Seed, Proto
    <3> QED
      BY <2>2, <3>2 DEF ResolvLine
  <2>3. CASE ~ (lines[i].directive = "nameserver" /\ lines[i].host \in IP)
    BY <2>3 DEF ResolvLine
  <2> QED
    BY <2>2, <2>3
<1>3. parts \in [1..n -> Seq(Seed)] /\ \A i \in 1..n : parts[i] = ResolvLine(lines, i)
  BY <1>2
<1>4. PICK g : /\ g = [i \in 0..n |-> IF i = 0 THEN <<>> ELSE g[i - 1] \o ResolvLine(lines, i)]
               /\ ParseResolvConf(lines) = g[n]
  <2>1. PICK f : Written(f, parts, n)
    BY <1>1, WrittenExists
  <2>2. f = [i \in 0..n |-> IF i = 0 THEN <<>> ELSE f[i - 1] \o ResolvLine(lines, i)]
    BY <1>1, <1>3, <2>1 DEF Written
  <2> DEFINE g == CHOOSE h : h = [i \in 0..n |-> IF i = 0 THEN <<>> ELSE h[i - 1] \o ResolvLine(lines, i)]
  <2>3. g = [i \in 0..n |-> IF i = 0 THEN <<>> ELSE g[i - 1] \o ResolvLine(lines, i)]
    BY <2>2
  <2>4. ParseResolvConf(lines) = g[n]
    BY DEF ParseResolvConf, Parse
  <2> HIDE DEF g
  <2> QED
    BY <2>3, <2>4
<1> HIDE DEF parts, n
<1>5. Written(g, parts, n)
  <2>1. \A i \in 0..n : i # 0 => i \in 1..n
    BY <1>1
  <2>2. [i \in 0..n |-> IF i = 0 THEN <<>> ELSE g[i - 1] \o ResolvLine(lines, i)]
          = [i \in 0..n |-> IF i = 0 THEN <<>> ELSE g[i - 1] \o parts[i]]
    BY <1>3, <2>1
  <2> QED
    BY <1>4, <2>2 DEF Written
<1>6. /\ g[n] \in Seq(Seed)
      /\ \A sd : sd \in Members(g[n]) <=> \E i \in 1..n : sd \in Members(parts[i])
  BY <1>1, <1>3, <1>5, WrittenMembers
<1> QED
  BY <1>3, <1>4, <1>6 DEF n

LEMMA ChronyMembers ==
  ASSUME NEW lines \in Seq(Line)
  PROVE  /\ ParseChronyConf(lines) \in Seq(Seed)
         /\ \A sd : sd \in Members(ParseChronyConf(lines)) <=>
                      \E i \in 1..Len(lines) : sd \in Members(ChronyLine(lines, i))
<1> DEFINE n     == Len(lines)
           parts == [i \in 1..n |-> ChronyLine(lines, i)]
<1>1. n \in Nat
  OBVIOUS
<1>2. ASSUME NEW i \in 1..n
      PROVE  ChronyLine(lines, i) \in Seq(Seed)
  <2>1. lines[i] \in Line /\ 123 \in Port
    BY PortAssumption
  <2>2. NTPSeed("group", lines[i].host) \in Seed /\ NTPSeed("fqdn", lines[i].host) \in Seed
    BY <2>1 DEF Line, NTPSeed, Seed, Proto
  <2>3. ChronyLine(lines, i) \in {<<NTPSeed("group", lines[i].host)>>, <<NTPSeed("fqdn", lines[i].host)>>, <<>>}
    BY Zenon DEF ChronyLine
  <2>4. \A x \in Seed : <<x>> \in Seq(Seed)
    OBVIOUS
  <2>5. <<>> \in Seq(Seed)
    OBVIOUS
  <2> QED
    BY <2>2, <2>3, <2>4, <2>5, Zenon
<1>3. parts \in [1..n -> Seq(Seed)] /\ \A i \in 1..n : parts[i] = ChronyLine(lines, i)
  BY <1>2
<1>4. PICK g : /\ g = [i \in 0..n |-> IF i = 0 THEN <<>> ELSE g[i - 1] \o ChronyLine(lines, i)]
               /\ ParseChronyConf(lines) = g[n]
  <2>1. PICK f : Written(f, parts, n)
    BY <1>1, WrittenExists
  <2>2. f = [i \in 0..n |-> IF i = 0 THEN <<>> ELSE f[i - 1] \o ChronyLine(lines, i)]
    BY <1>1, <1>3, <2>1 DEF Written
  <2> DEFINE g == CHOOSE h : h = [i \in 0..n |-> IF i = 0 THEN <<>> ELSE h[i - 1] \o ChronyLine(lines, i)]
  <2>3. g = [i \in 0..n |-> IF i = 0 THEN <<>> ELSE g[i - 1] \o ChronyLine(lines, i)]
    BY <2>2
  <2>4. ParseChronyConf(lines) = g[n]
    BY DEF ParseChronyConf, Parse
  <2> HIDE DEF g
  <2> QED
    BY <2>3, <2>4
<1> HIDE DEF parts, n
<1>5. Written(g, parts, n)
  <2>1. \A i \in 0..n : i # 0 => i \in 1..n
    BY <1>1
  <2>2. [i \in 0..n |-> IF i = 0 THEN <<>> ELSE g[i - 1] \o ChronyLine(lines, i)]
          = [i \in 0..n |-> IF i = 0 THEN <<>> ELSE g[i - 1] \o parts[i]]
    BY <1>3, <2>1
  <2> QED
    BY <1>4, <2>2 DEF Written
<1>6. /\ g[n] \in Seq(Seed)
      /\ \A sd : sd \in Members(g[n]) <=> \E i \in 1..n : sd \in Members(parts[i])
  BY <1>1, <1>3, <1>5, WrittenMembers
<1> QED
  BY <1>3, <1>4, <1>6 DEF n

\* The line of a nameserver is parsed, over either protocol.
LEMMA NameserverParsed ==
  ASSUME NEW lines \in Seq(Line), NEW i \in 1..Len(lines), NEW proto \in {"udp", "tcp"},
         lines[i].directive = "nameserver", lines[i].host \in IP
  PROVE  DNSSeed(Canonical[lines[i].host], proto) \in Members(ParseResolvConf(lines))
<1>1. ResolvLine(lines, i) = <<DNSSeed(Canonical[lines[i].host], "udp"), DNSSeed(Canonical[lines[i].host], "tcp")>>
  BY DEF ResolvLine
<1>2. Members(ResolvLine(lines, i)) =
        {DNSSeed(Canonical[lines[i].host], "udp"), DNSSeed(Canonical[lines[i].host], "tcp")}
  BY <1>1, MembersFew
<1>3. DNSSeed(Canonical[lines[i].host], proto) \in Members(ResolvLine(lines, i))
  BY <1>2, Zenon
<1> QED
  BY <1>3, ResolvMembers

\* The line of an NTP server is parsed.
LEMMA ServerParsed ==
  ASSUME NEW lines \in Seq(Line), NEW i \in 1..Len(lines), lines[i].directive = "server"
  PROVE  NTPSeed("fqdn", lines[i].host) \in Members(ParseChronyConf(lines))
<1>1. ChronyLine(lines, i) = <<NTPSeed("fqdn", lines[i].host)>>
  BY DEF ChronyLine
<1>2. NTPSeed("fqdn", lines[i].host) \in Members(ChronyLine(lines, i))
  BY <1>1, MembersFew
<1> QED
  BY <1>2, ChronyMembers

\* The line of a pool is parsed, where it stands first.
LEMMA PoolParsed ==
  ASSUME NEW lines \in Seq(Line), NEW i \in 1..Len(lines), lines[i].directive = "pool"
  PROVE  NTPSeed("group", lines[i].host) \in Members(ParseChronyConf(lines))
<1> DEFINE I == {n \in 1..Len(lines) : lines[n] = lines[i]}
<1>1. Len(lines) \in Nat /\ I \in SUBSET Nat /\ I # {}
  OBVIOUS
<1>2. PICK n \in I : \A m \in I : n <= m
  BY <1>1, FirstPlace
<1>3. n \in 1..Len(lines) /\ lines[n] = lines[i]
  BY <1>2
<1>4. \A m \in 1..(n - 1) : lines[m] # lines[n]
  <2> SUFFICES ASSUME NEW m \in 1..(n - 1), lines[m] = lines[n] PROVE FALSE
    OBVIOUS
  <2>1. m \in 1..Len(lines) /\ ~ (n <= m)
    BY <1>1, <1>3
  <2> QED
    BY <1>2, <1>3, <2>1
<1>5. ChronyLine(lines, n) = <<NTPSeed("group", lines[i].host)>>
  BY <1>3, <1>4, Zenon DEF ChronyLine
<1>6. NTPSeed("group", lines[i].host) \in Members(ChronyLine(lines, n))
  BY <1>5, MembersFew
<1> QED
  BY <1>3, <1>6, ChronyMembers

\* The file has what was written by hand and what the parsers write.
LEMMA FileMembers ==
  ASSUME NEW written \in Seq(Seed), NEW lines \in Seq(Line)
  PROVE  /\ File(written, lines) \in Seq(Seed)
         /\ Members(File(written, lines)) =
              Members(written) \union Members(ParseResolvConf(lines)) \union Members(ParseChronyConf(lines))
<1> DEFINE resolv == ParseResolvConf(lines)
           chrony == ParseChronyConf(lines)
<1>1. resolv \in Seq(Seed) /\ chrony \in Seq(Seed)
  BY ResolvMembers, ChronyMembers
<1> HIDE DEF resolv, chrony
<1>2. written \o resolv \in Seq(Seed) /\ Members(written \o resolv) = Members(written) \union Members(resolv)
  BY <1>1, MembersBoth
<1> DEFINE front == written \o resolv
<1>3. front \in Seq(Seed)
  BY <1>2
<1> HIDE DEF front
<1>4. front \o chrony \in Seq(Seed) /\ Members(front \o chrony) = Members(front) \union Members(chrony)
  BY <1>1, <1>3, MembersBoth
<1>5. File(written, lines) = front \o chrony
  BY DEF File, front, resolv, chrony
<1> QED
  BY <1>2, <1>4, <1>5 DEF front, resolv, chrony

\* What a parser makes of a line does not depend on the lines after it.
LEMMA LinesStay ==
  ASSUME NEW lines \in Seq(Line), NEW ln \in Line, NEW i \in 1..Len(lines)
  PROVE  /\ ResolvLine(Append(lines, ln), i) = ResolvLine(lines, i)
         /\ ChronyLine(Append(lines, ln), i) = ChronyLine(lines, i)
<1> DEFINE more == Append(lines, ln)
<1>1. \A j \in 1..Len(lines) : more[j] = lines[j]
  OBVIOUS
<1>2. Len(lines) \in Nat
  OBVIOUS
<1>3. more[i] = lines[i] /\ \A j \in 1..(i - 1) : more[j] = lines[j]
  BY <1>1, <1>2
<1> HIDE DEF more
<1>4. ResolvLine(more, i) = ResolvLine(lines, i)
  BY <1>3, Zenon DEF ResolvLine
<1>5. (\A j \in 1..(i - 1) : more[j] # more[i]) <=> (\A j \in 1..(i - 1) : lines[j] # lines[i])
  BY <1>3
<1>6. ChronyLine(more, i) = ChronyLine(lines, i)
  BY <1>3, <1>5, Zenon DEF ChronyLine
<1> QED
  BY <1>4, <1>6 DEF more

\* A seed more, wherever it stands, takes no suggestion away.
LEMMA MatchesGrow ==
  ASSUME NEW given, NEW more, Members(given) \subseteq Members(more), NEW q, Matches(given, q)
  PROVE  Matches(more, q)
<1>1. CASE Exact(given, q)
  <2>1. ByValuePort(given) \subseteq ByValuePort(more)
    BY DEF ByValuePort
  <2>2. Exact(more, q)
    BY <1>1, <2>1 DEF Exact
  <2> QED
    BY <2>2, MatchesAny
<1>2. ASSUME NEW i \in SuffixRules(given)
      PROVE  \E j \in SuffixRules(more) : more[j] = given[i]
  <2>1. i \in 1..Len(given) /\ given[i].type = "group"
    BY DEF SuffixRules
  <2>2. given[i] \in Members(more)
    BY <2>1 DEF Members
  <2>3. PICK j \in 1..Len(more) : more[j] = given[i]
    BY <2>2 DEF Members
  <2> QED
    BY <2>1, <2>3 DEF SuffixRules
<1>3. CASE \E i \in SuffixRules(given) : SuffixMatch(given[i], q)
  <2>1. \E j \in SuffixRules(more) : SuffixMatch(more[j], q)
    BY <1>2, <1>3
  <2> QED
    BY <2>1, MatchesAny
<1>4. CASE BareNTP(q) /\ \E i \in SuffixRules(given) : NTPPool(given[i])
  <2>1. BareNTP(q) /\ \E j \in SuffixRules(more) : NTPPool(more[j])
    BY <1>2, <1>4
  <2> QED
    BY <2>1, MatchesAny
<1> QED
  BY <1>1, <1>3, <1>4, MatchesAny

\* What the host's files may say.
FileTypes == hand \in Seq(Seed) /\ conf \in Seq(Line)

LEMMA FileInvariance == FileSpec => []FileTypes
<1>1. FileInit => FileTypes
  BY DEF FileInit, FileTypes
<1>2. FileTypes /\ [FileNext]_fileVars => FileTypes'
  <2> SUFFICES ASSUME FileTypes, [FileNext]_fileVars PROVE FileTypes'
    OBVIOUS
  <2>1. ASSUME NEW sd \in Seed, Write(sd)
        PROVE  FileTypes'
    <3>1. hand \in Seq(Seed) /\ conf' = conf /\ hand' \in {<<sd>> \o hand, Append(hand, sd)}
      BY <2>1 DEF Write, FileTypes
    <3>2. <<sd>> \in Seq(Seed) /\ <<sd>> \o hand \in Seq(Seed) /\ Append(hand, sd) \in Seq(Seed)
      BY <3>1
    <3> QED
      BY <3>1, <3>2 DEF FileTypes
  <2>2. CASE \E ln \in Line : AddLine(ln)
    BY <2>2 DEF AddLine, FileTypes
  <2>3. CASE UNCHANGED fileVars
    BY <2>3 DEF fileVars, FileTypes
  <2> QED
    BY <2>1, <2>2, <2>3 DEF FileNext
<1> QED
  BY <1>1, <1>2, PTL DEF FileSpec

\* What is declared is suggested, in files of every length and order.
THEOREM Declared == FileSpec => []DeclaredIsCovered
<1>1. DeclaredIsCovered
  BY Covers DEF DeclaredIsCovered
<1> QED
  BY <1>1, PTL

\* A pool's traffic is one proposal, in files of every length.
THEOREM OneProposal == FileSpec => []UnseededTrafficCollapses
<1>1. UnseededTrafficCollapses
  BY Collapses DEF UnseededTrafficCollapses
<1> QED
  BY <1>1, PTL

\* What the host's own files configure is suggested, however long they are.
THEOREM Configured == FileSpec => []ConfigurationIsCovered
<1>1. FileTypes => ConfigurationIsCovered
  <2> SUFFICES ASSUME FileTypes, NEW ln \in Members(conf), NEW q \in Query,
                      \/ ln.directive = "nameserver" /\ ln.host \in IP
                           /\ q.value = Canonical[ln.host] /\ q.port = 53 /\ q.proto # ""
                      \/ ln.directive = "server" /\ q.value = ln.host /\ q.port = 123 /\ q.proto = "udp"
                      \/ ln.directive = "pool" /\ InPool([value |-> ln.host], q) /\ q.port = 123 /\ q.proto = "udp"
               PROVE  Matches(file, q)
    BY DEF ConfigurationIsCovered
  <2>1. PICK i \in 1..Len(conf) : conf[i] = ln
    BY DEF Members
  <2>2. hand \in Seq(Seed) /\ conf \in Seq(Line)
    BY DEF FileTypes
  <2>3. \A sd : sd \in Members(ParseResolvConf(conf)) \union Members(ParseChronyConf(conf)) => sd \in Members(file)
    <3>1. Members(File(hand, conf)) =
            Members(hand) \union Members(ParseResolvConf(conf)) \union Members(ParseChronyConf(conf))
      BY <2>2, FileMembers, Zenon
    <3>2. Members(ParseResolvConf(conf)) \union Members(ParseChronyConf(conf)) \subseteq Members(File(hand, conf))
      BY <3>1, Zenon
    <3> QED
      BY <3>2, Zenon DEF file
  <2>4. CASE /\ ln.directive = "nameserver" /\ ln.host \in IP
             /\ q.value = Canonical[ln.host] /\ q.port = 53 /\ q.proto # ""
    <3> DEFINE sd == DNSSeed(Canonical[ln.host], q.proto)
    <3>1. q.proto \in {"udp", "tcp"}
      BY <2>4, Zenon DEF Query, Proto
    <3>2. sd \in Members(ParseResolvConf(conf))
      BY <2>1, <2>2, <2>4, <3>1, NameserverParsed
    <3>3. Declares(sd, q)
      BY <2>4 DEF Declares, DNSSeed
    <3> QED
      BY <2>3, <3>2, <3>3, Covers
  <2>5. CASE ln.directive = "server" /\ q.value = ln.host /\ q.port = 123 /\ q.proto = "udp"
    <3> DEFINE sd == NTPSeed("fqdn", ln.host)
    <3>1. sd \in Members(ParseChronyConf(conf))
      BY <2>1, <2>2, <2>5, ServerParsed
    <3>2. Declares(sd, q)
      BY <2>5 DEF Declares, NTPSeed
    <3> QED
      BY <2>3, <3>1, <3>2, Covers
  <2>6. CASE ln.directive = "pool" /\ InPool([value |-> ln.host], q) /\ q.port = 123 /\ q.proto = "udp"
    <3> DEFINE sd == NTPSeed("group", ln.host)
    <3>1. sd \in Members(ParseChronyConf(conf))
      BY <2>1, <2>2, <2>6, PoolParsed
    <3>2. Declares(sd, q)
      BY <2>6 DEF Declares, NTPSeed, InPool
    <3> QED
      BY <2>3, <3>1, <3>2, Covers
  <2> QED
    BY <2>4, <2>5, <2>6
<1> QED
  BY <1>1, FileInvariance, PTL

\* A seed or a line more takes no suggestion away.
THEOREM OnlyGrow == FileSpec => SuggestionsOnlyGrow
<1>1. FileTypes /\ [FileNext]_fileVars =>
        [\A q \in Query : Matches(file, q) => Matches(File(hand', conf'), q)]_fileVars
  <2> SUFFICES ASSUME FileTypes, FileNext
               PROVE  \A q \in Query : Matches(file, q) => Matches(File(hand', conf'), q)
    OBVIOUS
  <2>1. hand \in Seq(Seed) /\ conf \in Seq(Line)
    BY DEF FileTypes
  <2>2. Members(file) = Members(hand) \union Members(ParseResolvConf(conf)) \union Members(ParseChronyConf(conf))
    BY <2>1, FileMembers DEF file
  <2>3. Members(file) \subseteq Members(File(hand', conf'))
    <3>1. ASSUME NEW sd \in Seed, Write(sd)
          PROVE  Members(file) \subseteq Members(File(hand', conf'))
      <4>1. hand' \in {<<sd>> \o hand, hand \o <<sd>>} /\ conf' = conf
        <5>1. Append(hand, sd) = hand \o <<sd>>
          BY <2>1
        <5> QED
          BY <3>1, <5>1 DEF Write
      <4>2. <<sd>> \in Seq(Seed)
        OBVIOUS
      <4>3. hand' \in Seq(Seed) /\ Members(hand) \subseteq Members(hand')
        BY <2>1, <4>1, <4>2, MembersBoth
      <4>4. Members(File(hand', conf')) =
              Members(hand') \union Members(ParseResolvConf(conf)) \union Members(ParseChronyConf(conf))
        BY <2>1, <4>1, <4>3, FileMembers
      <4> QED
        BY <2>2, <4>3, <4>4
    <3>2. ASSUME NEW ln \in Line, AddLine(ln)
          PROVE  Members(file) \subseteq Members(File(hand', conf'))
      <4>1. conf' = Append(conf, ln) /\ hand' = hand
        BY <3>2 DEF AddLine
      <4>2. conf' \in Seq(Line) /\ Len(conf) \in Nat /\ Len(conf') = Len(conf) + 1
        BY <2>1, <4>1
      <4>3. \A i \in 1..Len(conf) : /\ i \in 1..Len(conf')
                                    /\ ResolvLine(conf', i) = ResolvLine(conf, i)
                                    /\ ChronyLine(conf', i) = ChronyLine(conf, i)
        BY <2>1, <4>1, <4>2, LinesStay
      <4>4. Members(ParseResolvConf(conf)) \subseteq Members(ParseResolvConf(conf'))
        BY <2>1, <4>2, <4>3, ResolvMembers
      <4>5. Members(ParseChronyConf(conf)) \subseteq Members(ParseChronyConf(conf'))
        BY <2>1, <4>2, <4>3, ChronyMembers
      <4>6. Members(File(hand', conf')) =
              Members(hand) \union Members(ParseResolvConf(conf')) \union Members(ParseChronyConf(conf'))
        BY <2>1, <4>1, <4>2, FileMembers
      <4> QED
        BY <2>2, <4>4, <4>5, <4>6
    <3> QED
      BY <3>1, <3>2 DEF FileNext
  <2> QED
    BY <2>3, MatchesGrow
<1> QED
  BY <1>1, FileInvariance, PTL DEF FileSpec, SuggestionsOnlyGrow

-----------------------------------------------------------------------------
(* The inductive invariant.                                                *)

Types ==
  /\ cache \in [Key -> Verdict]
  /\ log \in Seq(Observable)
  /\ pc \in [Handler -> Point]
  /\ next \in [Handler -> Nat \ {0}] /\ last \in [Handler -> Nat]
  /\ \A h \in Handler : last[h] <= Len(log) /\ (Busy(h) => next[h] <= last[h])
  /\ did \in [Handler -> Outcomes \union {"none"}]
  /\ could = [h \in Handler |-> could[h]]
  /\ baseline \in [Handler -> BOOLEAN]

\* Ingesting the current event at this moment is one of the possibilities, and
\* a baseline that was there when it was taken up is still there.
NowIsPossible ==
  \A h \in Handler : Busy(h) =>
    /\ Outcome(cache, Current(h)) \in could[h]
    /\ baseline[h] => HasAnyDecision(cache, Current(h).fleet)

\* What a handler's place in the code says about the moments since.
PlaceIsPossible ==
  \A h \in Handler :
    /\ pc[h] \in {"lookup", "denied", "upsert", "drift", "deviation"} => Current(h).kind = "conn"
    /\ pc[h] = "invariant" => Current(h).kind = "raw_socket"
    /\ pc[h] = "denied" => "denied" \in could[h]
    /\ pc[h] \in {"upsert", "drift", "deviation"} => (baseline[h] => "deviation" \in could[h])
    /\ pc[h] \in {"upsert", "drift"} =>
         (~ HasAnyDecision(cache, Current(h).fleet) => "proposal" \in could[h])

IInv == Types /\ NowIsPossible /\ PlaceIsPossible /\ IngestIsAtomic

-----------------------------------------------------------------------------
(* What ingesting an event in one step comes to.                           *)

LEMMA RawOutcome ==
  ASSUME NEW c, NEW ev, ev.kind = "raw_socket"
  PROVE  Outcome(c, ev) = "violation"
BY DEF Outcome

LEMMA DecidedOutcome ==
  ASSUME NEW c, NEW ev, ev.kind = "conn"
  PROVE  /\ c[KeyOf(seeds, ev)] = "allow" => Outcome(c, ev) = "quiet"
         /\ c[KeyOf(seeds, ev)] = "deny" => Outcome(c, ev) = "denied"
<1> DEFINE k == KeyOf(seeds, ev)
<1> HIDE DEF k
<1>1. c[k] = "allow" => Outcome(c, ev) = "quiet"
  BY DEF Outcome, k
<1>2. c[k] = "deny" => Outcome(c, ev) = "denied"
  BY DEF Outcome, k
<1> QED
  BY <1>1, <1>2 DEF k

LEMMA UndecidedOutcome ==
  ASSUME NEW c, NEW ev, ev.kind = "conn", c[KeyOf(seeds, ev)] = "none"
  PROVE  /\ HasAnyDecision(c, ev.fleet) => Outcome(c, ev) = "deviation"
         /\ ~ HasAnyDecision(c, ev.fleet) => Outcome(c, ev) = "proposal"
BY DEF Outcome

\* A decision takes no workload's baseline away.
LEMMA DecideKeepsBaseline ==
  ASSUME cache \in [Key -> Verdict], NEW k \in Key, NEW verdict \in {"allow", "deny"}, NEW f,
         HasAnyDecision(cache, f)
  PROVE  HasAnyDecision([cache EXCEPT ![k] = verdict], f)
BY DEF HasAnyDecision

\* The event that a handler is busy with is one that was reported.
LEMMA CurrentType ==
  ASSUME Types, NEW h \in Handler, next[h] <= last[h]
  PROVE  /\ next[h] \in 1..Len(log)
         /\ Current(h) \in Observable
         /\ Current(h).kind \in {"conn", "raw_socket"}
<1>1. next[h] \in Nat \ {0} /\ last[h] \in Nat /\ Len(log) \in Nat /\ last[h] <= Len(log)
  BY DEF Types
<1>2. next[h] \in 1..Len(log)
  BY <1>1
<1>3. Current(h) \in Observable
  BY <1>2 DEF Types, Current
<1> QED
  BY <1>2, <1>3, ObservableAssumption DEF Event

-----------------------------------------------------------------------------
(* A step of one handler leaves the others where they are.                 *)

\* What the other handlers' conjuncts depend on.
OthersStay(h) ==
  /\ cache' = cache /\ seeds' = seeds /\ log' = log
  /\ \A g \in Handler \ {h} :
       /\ pc'[g] = pc[g] /\ next'[g] = next[g] /\ last'[g] = last[g]
       /\ did'[g] = did[g] /\ could'[g] = could[g] /\ baseline'[g] = baseline[g]

\* The conjuncts of one handler.
Possible(h) ==
  /\ Busy(h) =>
       /\ Outcome(cache, Current(h)) \in could[h]
       /\ baseline[h] => HasAnyDecision(cache, Current(h).fleet)
  /\ pc[h] \in {"lookup", "denied", "upsert", "drift", "deviation"} => Current(h).kind = "conn"
  /\ pc[h] = "invariant" => Current(h).kind = "raw_socket"
  /\ pc[h] = "denied" => "denied" \in could[h]
  /\ pc[h] \in {"upsert", "drift", "deviation"} => (baseline[h] => "deviation" \in could[h])
  /\ pc[h] \in {"upsert", "drift"} =>
       (~ HasAnyDecision(cache, Current(h).fleet) => "proposal" \in could[h])
  /\ did[h] # "none" /\ (did[h] = "deviation" => baseline[h]) => did[h] \in could[h]

LEMMA PossibleSplit ==
  NowIsPossible /\ PlaceIsPossible /\ IngestIsAtomic <=> \A h \in Handler : Possible(h)
BY DEF NowIsPossible, PlaceIsPossible, IngestIsAtomic, Possible

LEMMA OneHandler ==
  ASSUME IInv, NEW h \in Handler, OthersStay(h), Types', Possible(h)'
  PROVE  IInv'
<1>1. ASSUME NEW g \in Handler \ {h}
      PROVE  Possible(g)'
  <2>1. Possible(g)
    BY PossibleSplit DEF IInv
  <2>2. /\ pc'[g] = pc[g] /\ next'[g] = next[g] /\ did'[g] = did[g]
        /\ could'[g] = could[g] /\ baseline'[g] = baseline[g]
        /\ cache' = cache /\ seeds' = seeds /\ log' = log
    BY DEF OthersStay
  <2>3. Current(g)' = Current(g)
    BY <2>2 DEF Current
  <2>4. Outcome(cache, Current(g))' = Outcome(cache, Current(g))
    BY <2>2, <2>3, Zenon DEF Outcome
  <2>5. HasAnyDecision(cache, Current(g).fleet)' = HasAnyDecision(cache, Current(g).fleet)
    BY <2>2, <2>3
  <2>6. Busy(g)' <=> Busy(g)
    BY <2>2 DEF Busy
  <2> QED
    BY <2>1, <2>2, <2>3, <2>4, <2>5, <2>6 DEF Possible
<1>2. \A g \in Handler : Possible(g)'
  BY <1>1
<1>3. NowIsPossible' /\ PlaceIsPossible' /\ IngestIsAtomic'
  BY <1>2 DEF NowIsPossible, PlaceIsPossible, IngestIsAtomic, Possible
<1> QED
  BY <1>3 DEF IInv

-----------------------------------------------------------------------------
(* The steps of a handler.                                                 *)

\* Types and pointwise effects of a step that leaves cache, seeds and log alone
\* and finishes with the event.
LEMMA FinishStep ==
  ASSUME IInv, NEW h \in Handler, NEW o \in Outcomes, Busy(h), Finish(h, o),
         UNCHANGED <<seeds, cache, log, last, could, baseline>>,
         (o = "deviation" => baseline[h]) => o \in could[h]
  PROVE  IInv'
<1>1. Types
  BY DEF IInv
<1>2. /\ pc'[h] = "event" /\ next'[h] = next[h] + 1 /\ did'[h] = o
      /\ \A g \in Handler \ {h} : pc'[g] = pc[g] /\ next'[g] = next[g] /\ did'[g] = did[g]
  BY <1>1 DEF Types, Finish, Goto
<1>3. /\ pc' \in [Handler -> Point] /\ next' \in [Handler -> Nat \ {0}]
      /\ did' \in [Handler -> Outcomes \union {"none"}]
  BY <1>1 DEF Types, Finish, Goto, Point
<1>4. \A g \in Handler : last'[g] <= Len(log') /\ (Busy(g)' => next'[g] <= last'[g])
  BY <1>1, <1>2 DEF Types, Busy
<1>5. Types'
  BY <1>1, <1>3, <1>4 DEF Types
<1>6. OthersStay(h)
  BY <1>2 DEF OthersStay
<1>7. Possible(h)'
  BY <1>2 DEF Possible, Busy
<1> QED
  BY <1>5, <1>6, <1>7, OneHandler

\* A step to another place in the code, with the same event.
LEMMA GotoStep ==
  ASSUME IInv, NEW h \in Handler, NEW p \in Point, Busy(h), Goto(h, p),
         UNCHANGED <<seeds, cache, log, next, last, did, could, baseline>>,
         p \in {"denied", "upsert", "drift", "deviation"},
         Current(h).kind = "conn",
         p = "denied" => "denied" \in could[h],
         p \in {"upsert", "drift", "deviation"} => (baseline[h] => "deviation" \in could[h]),
         p \in {"upsert", "drift"} =>
           (~ HasAnyDecision(cache, Current(h).fleet) => "proposal" \in could[h])
  PROVE  IInv'
<1>1. Types
  BY DEF IInv
<1>2. /\ pc'[h] = p /\ pc' \in [Handler -> Point]
      /\ \A g \in Handler \ {h} : pc'[g] = pc[g]
  BY <1>1 DEF Types, Goto
<1>3. \A g \in Handler : last'[g] <= Len(log') /\ (Busy(g)' => next'[g] <= last'[g])
  BY <1>1, <1>2 DEF Types, Busy
<1>4. Types'
  BY <1>1, <1>2, <1>3 DEF Types
<1>5. OthersStay(h)
  BY <1>2 DEF OthersStay
<1>6. Possible(h)
  BY PossibleSplit DEF IInv
<1>7. /\ Current(h)' = Current(h)
      /\ HasAnyDecision(cache, Current(h).fleet)' = HasAnyDecision(cache, Current(h).fleet)
  BY DEF Current
<1>8. Outcome(cache, Current(h))' = Outcome(cache, Current(h))
  BY <1>7, Zenon DEF Outcome
<1>9. Possible(h)'
  BY <1>2, <1>6, <1>7, <1>8 DEF Possible, Busy
<1> QED
  BY <1>4, <1>5, <1>9, OneHandler

\* The steps of ingestConn and ingestRawSocket, which Finish or Goto.
LEMMA BusyStep ==
  ASSUME IInv, NEW h \in Handler,
         \/ RawSocket(h) \/ LookupAllowed(h) \/ LookupDenied(h) \/ Denied(h)
         \/ LookupMissed(h) \/ Upsert(h) \/ Drift(h) \/ Deviation(h)
  PROVE  IInv'
<1>1. Types /\ Possible(h)
  BY PossibleSplit DEF IInv
<1>2. CASE RawSocket(h)
  <2>1. Busy(h) /\ Current(h).kind = "raw_socket" /\ Outcome(cache, Current(h)) \in could[h]
    BY <1>1, <1>2 DEF RawSocket, Possible, Busy
  <2>2. "violation" \in could[h]
    BY <2>1, RawOutcome
  <2>3. Finish(h, "violation") /\ UNCHANGED <<seeds, cache, log, last, could, baseline>>
    BY <1>2 DEF RawSocket
  <2> QED
    BY <2>1, <2>2, <2>3, FinishStep DEF Outcomes
<1>3. CASE LookupAllowed(h)
  <2>1. Busy(h) /\ Current(h).kind = "conn" /\ Outcome(cache, Current(h)) \in could[h]
    BY <1>1, <1>3 DEF LookupAllowed, Possible, Busy
  <2>2. cache[KeyOf(seeds, Current(h))] = "allow"
    BY <1>3 DEF LookupAllowed, CurrentKey
  <2>3. "quiet" \in could[h]
    BY <2>1, <2>2, DecidedOutcome
  <2>4. Finish(h, "quiet") /\ UNCHANGED <<seeds, cache, log, last, could, baseline>>
    BY <1>3 DEF LookupAllowed
  <2> QED
    BY <2>1, <2>3, <2>4, FinishStep DEF Outcomes
<1>4. CASE LookupDenied(h)
  <2>1. Busy(h) /\ Current(h).kind = "conn" /\ Outcome(cache, Current(h)) \in could[h]
    BY <1>1, <1>4 DEF LookupDenied, Possible, Busy
  <2>2. cache[KeyOf(seeds, Current(h))] = "deny"
    BY <1>4 DEF LookupDenied, CurrentKey
  <2>3. "denied" \in could[h]
    BY <2>1, <2>2, DecidedOutcome
  <2>4. /\ Goto(h, "denied")
        /\ UNCHANGED <<seeds, cache, log, next, last, did, could, baseline>>
    BY <1>4 DEF LookupDenied, history
  <2> QED
    BY <2>1, <2>3, <2>4, GotoStep DEF Point
<1>5. CASE Denied(h)
  <2>1. Busy(h) /\ "denied" \in could[h]
    BY <1>1, <1>5 DEF Denied, Possible, Busy
  <2>2. Finish(h, "denied") /\ UNCHANGED <<seeds, cache, log, last, could, baseline>>
    BY <1>5 DEF Denied
  <2> QED
    BY <2>1, <2>2, FinishStep DEF Outcomes
<1>6. CASE LookupMissed(h)
  <2>1. /\ Busy(h) /\ Current(h).kind = "conn" /\ Outcome(cache, Current(h)) \in could[h]
        /\ baseline[h] => HasAnyDecision(cache, Current(h).fleet)
    BY <1>1, <1>6 DEF LookupMissed, Possible, Busy
  <2>2. cache[KeyOf(seeds, Current(h))] = "none"
    BY <1>6 DEF LookupMissed, CurrentKey
  <2>3. /\ baseline[h] => "deviation" \in could[h]
        /\ ~ HasAnyDecision(cache, Current(h).fleet) => "proposal" \in could[h]
    BY <2>1, <2>2, UndecidedOutcome
  <2>4. /\ Goto(h, "upsert")
        /\ UNCHANGED <<seeds, cache, log, next, last, did, could, baseline>>
    BY <1>6 DEF LookupMissed, history
  <2> QED
    BY <2>1, <2>3, <2>4, GotoStep DEF Point
<1>7. CASE Upsert(h)
  <2>1. /\ Busy(h) /\ Current(h).kind = "conn"
        /\ baseline[h] => "deviation" \in could[h]
        /\ ~ HasAnyDecision(cache, Current(h).fleet) => "proposal" \in could[h]
    BY <1>1, <1>7 DEF Upsert, Possible, Busy
  <2>2. /\ Goto(h, "drift")
        /\ UNCHANGED <<seeds, cache, log, next, last, did, could, baseline>>
    BY <1>7 DEF Upsert, history
  <2> QED
    BY <2>1, <2>2, GotoStep DEF Point
<1>8. CASE Drift(h)
  <2>1. /\ Busy(h) /\ Current(h).kind = "conn"
        /\ baseline[h] => "deviation" \in could[h]
        /\ ~ HasAnyDecision(cache, Current(h).fleet) => "proposal" \in could[h]
    BY <1>1, <1>8 DEF Drift, Possible, Busy
  <2>2. UNCHANGED <<seeds, cache, log, last, could, baseline>>
    BY <1>8 DEF Drift
  <2>3. CASE HasAnyDecision(cache, Current(h).fleet)
    <3>1. Goto(h, "deviation") /\ UNCHANGED <<did, next>>
      BY <1>8, <2>3 DEF Drift
    <3> QED
      BY <2>1, <2>2, <3>1, GotoStep DEF Point
  <2>4. CASE ~ HasAnyDecision(cache, Current(h).fleet)
    <3>1. Finish(h, "proposal")
      BY <1>8, <2>4 DEF Drift
    <3> QED
      BY <2>1, <2>2, <2>4, <3>1, FinishStep DEF Outcomes
  <2> QED
    BY <2>3, <2>4
<1>9. CASE Deviation(h)
  <2>1. Busy(h) /\ (baseline[h] => "deviation" \in could[h])
    BY <1>1, <1>9 DEF Deviation, Possible, Busy
  <2>2. Finish(h, "deviation") /\ UNCHANGED <<seeds, cache, log, last, could, baseline>>
    BY <1>9 DEF Deviation
  <2> QED
    BY <2>1, <2>2, FinishStep DEF Outcomes
<1> QED
  BY <1>2, <1>3, <1>4, <1>5, <1>6, <1>7, <1>8, <1>9

\* The steps between two events.
LEMMA PostStep ==
  ASSUME IInv, NEW h \in Handler, NEW first \in 1..Len(log), NEW end \in 1..Len(log),
         Post(h, first, end)
  PROVE  IInv'
<1>1. Types /\ Possible(h)
  BY PossibleSplit DEF IInv
<1>2. /\ pc[h] = "idle" /\ pc'[h] = "event" /\ next'[h] = first /\ last'[h] = end
      /\ UNCHANGED <<seeds, cache, log, did, could, baseline>>
      /\ \A g \in Handler \ {h} : pc'[g] = pc[g] /\ next'[g] = next[g] /\ last'[g] = last[g]
  BY <1>1 DEF Types, Post, Goto, history
<1>3. Len(log) \in Nat
  BY <1>1 DEF Types
<1>4. /\ pc' \in [Handler -> Point] /\ next' \in [Handler -> Nat \ {0}]
      /\ last' \in [Handler -> Nat]
  BY <1>1, <1>3 DEF Types, Post, Goto, Point
<1>5. ASSUME NEW g \in Handler
      PROVE  last'[g] <= Len(log') /\ (Busy(g)' => next'[g] <= last'[g])
  <2>1. CASE g = h
    BY <1>2, <1>3, <2>1 DEF Busy
  <2>2. CASE g # h
    BY <1>1, <1>2, <2>2 DEF Types, Busy
  <2> QED
    BY <2>1, <2>2
<1>6. Types'
  BY <1>1, <1>2, <1>4, <1>5 DEF Types
<1>7. OthersStay(h)
  BY <1>2 DEF OthersStay
<1>8. Possible(h)'
  BY <1>1, <1>2 DEF Possible, Busy
<1> QED
  BY <1>6, <1>7, <1>8, OneHandler

LEMMA TakeStep ==
  ASSUME IInv, NEW h \in Handler, Take(h)
  PROVE  IInv'
<1>1. Types
  BY DEF IInv
<1>2. /\ Current(h) \in Observable /\ Current(h).kind \in {"conn", "raw_socket"}
      /\ next[h] <= last[h]
  BY <1>1, CurrentType DEF Take
<1> DEFINE p == IF Current(h).kind = "conn" THEN "lookup" ELSE "invariant"
<1>3. /\ pc'[h] = p /\ could'[h] = {Outcome(cache, Current(h))} /\ did'[h] = "none"
      /\ baseline'[h] <=> HasAnyDecision(cache, Current(h).fleet)
      /\ UNCHANGED <<seeds, cache, log, next, last>>
      /\ \A g \in Handler \ {h} :
           pc'[g] = pc[g] /\ could'[g] = could[g] /\ baseline'[g] = baseline[g] /\ did'[g] = did[g]
  BY <1>1 DEF Types, Take, Goto
<1>4. /\ pc' \in [Handler -> Point]
      /\ did' \in [Handler -> Outcomes \union {"none"}]
      /\ could' = [g \in Handler |-> could'[g]]
      /\ baseline' \in [Handler -> BOOLEAN]
  <2>1. pc' \in [Handler -> Point]
    BY <1>1 DEF Types, Take, Goto, Point
  <2>2. did' \in [Handler -> Outcomes \union {"none"}]
    BY <1>1 DEF Types, Take
  <2>3. could' = [g \in Handler |-> could'[g]]
    BY <1>1, Zenon DEF Types, Take
  <2>4. baseline' \in [Handler -> BOOLEAN]
    BY <1>1 DEF Types, Take, HasAnyDecision
  <2> QED
    BY <2>1, <2>2, <2>3, <2>4
<1>5. \A g \in Handler : last'[g] <= Len(log') /\ (Busy(g)' => next'[g] <= last'[g])
  BY <1>1, <1>2, <1>3 DEF Types, Busy
<1>6. Types'
  BY <1>1, <1>3, <1>4, <1>5 DEF Types
<1>7. OthersStay(h)
  BY <1>3 DEF OthersStay
<1>8. Current(h)' = Current(h)
  BY <1>3 DEF Current
<1>9. Outcome(cache, Current(h))' = Outcome(cache, Current(h))
  BY <1>3, <1>8, Zenon DEF Outcome
<1>10. Possible(h)'
  BY <1>2, <1>3, <1>8, <1>9 DEF Possible, Busy
<1> QED
  BY <1>6, <1>7, <1>10, OneHandler

LEMMA AcceptedStep ==
  ASSUME IInv, NEW h \in Handler, Accepted(h)
  PROVE  IInv'
<1>1. Types
  BY DEF IInv
<1>2. /\ pc'[h] = "idle" /\ next'[h] = 1 /\ last'[h] = 0 /\ did'[h] = "none"
      /\ UNCHANGED <<seeds, cache, log>>
      /\ \A g \in Handler \ {h} :
           /\ pc'[g] = pc[g] /\ next'[g] = next[g] /\ last'[g] = last[g]
           /\ could'[g] = could[g] /\ baseline'[g] = baseline[g] /\ did'[g] = did[g]
  BY <1>1 DEF Types, Accepted, Goto
<1>3. /\ pc' \in [Handler -> Point] /\ next' \in [Handler -> Nat \ {0}]
      /\ last' \in [Handler -> Nat]
      /\ did' \in [Handler -> Outcomes \union {"none"}]
      /\ could' = [g \in Handler |-> could'[g]]
      /\ baseline' \in [Handler -> BOOLEAN]
  <2>1. pc' \in [Handler -> Point]
    BY <1>1 DEF Types, Accepted, Goto, Point
  <2>2. /\ next' \in [Handler -> Nat \ {0}] /\ last' \in [Handler -> Nat]
        /\ did' \in [Handler -> Outcomes \union {"none"}]
    BY <1>1 DEF Types, Accepted
  <2>3. could' = [g \in Handler |-> could'[g]]
    BY <1>1, Zenon DEF Types, Accepted
  <2>4. baseline' \in [Handler -> BOOLEAN]
    BY <1>1 DEF Types, Accepted
  <2> QED
    BY <2>1, <2>2, <2>3, <2>4
<1>4. ASSUME NEW g \in Handler
      PROVE  last'[g] <= Len(log') /\ (Busy(g)' => next'[g] <= last'[g])
  <2>1. CASE g = h
    <3>1. Len(log) \in Nat
      BY <1>1 DEF Types
    <3> QED
      BY <1>2, <2>1, <3>1 DEF Busy
  <2>2. CASE g # h
    BY <1>1, <1>2, <2>2 DEF Types, Busy
  <2> QED
    BY <2>1, <2>2
<1>5. Types'
  BY <1>1, <1>2, <1>3, <1>4 DEF Types
<1>6. OthersStay(h)
  BY <1>2 DEF OthersStay
<1>7. Possible(h)'
  BY <1>2 DEF Possible, Busy
<1> QED
  BY <1>5, <1>6, <1>7, OneHandler

-----------------------------------------------------------------------------
(* Sensors, reviewers and restarts.                                        *)

\* A step that leaves alone all that the invariant depends on.
LEMMA OtherStep ==
  ASSUME IInv, UNCHANGED <<seeds, cache, log, pc, next, last, could, baseline, did>>
  PROVE  IInv'
<1>1. Types'
  BY DEF IInv, Types, Busy
<1>2. \A h \in Handler : Possible(h)'
  <2> SUFFICES ASSUME NEW h \in Handler PROVE Possible(h)'
    OBVIOUS
  <2>1. Possible(h)
    BY PossibleSplit DEF IInv
  <2>2. Current(h)' = Current(h)
    BY DEF Current
  <2>3. Outcome(cache, Current(h))' = Outcome(cache, Current(h))
    BY <2>2, Zenon DEF Outcome
  <2> QED
    BY <2>1, <2>2, <2>3 DEF Possible, Busy
<1>3. NowIsPossible' /\ PlaceIsPossible' /\ IngestIsAtomic'
  BY <1>2 DEF NowIsPossible, PlaceIsPossible, IngestIsAtomic, Possible
<1> QED
  BY <1>1, <1>3 DEF IInv

\* The log grows at its end, behind the events the handlers are busy with.
LEMMA ReportStep ==
  ASSUME IInv, NEW ev \in Observable, Report(ev)
  PROVE  IInv'
<1>1. Types
  BY DEF IInv
<1>2. /\ log' = Append(log, ev)
      /\ UNCHANGED <<seeds, cache, pc, next, last, could, baseline, did>>
  BY DEF Report, history
<1>3. /\ log' \in Seq(Observable) /\ Len(log') = Len(log) + 1 /\ Len(log) \in Nat
      /\ \A i \in 1..Len(log) : log'[i] = log[i]
  BY <1>1, <1>2 DEF Types
<1>4. ASSUME NEW h \in Handler
      PROVE  last'[h] <= Len(log') /\ (Busy(h)' => next'[h] <= last'[h])
  <2>1. last[h] \in Nat /\ last[h] <= Len(log) /\ (Busy(h) => next[h] <= last[h])
    BY <1>1 DEF Types
  <2> QED
    BY <1>2, <1>3, <2>1 DEF Busy
<1>5. Types'
  BY <1>1, <1>2, <1>3, <1>4 DEF Types
<1>6. ASSUME NEW h \in Handler
      PROVE  Possible(h)'
  <2>1. Possible(h)
    BY PossibleSplit DEF IInv
  <2>2. CASE Busy(h)
    <3>1. next[h] \in 1..Len(log)
      BY <1>1, <2>2, CurrentType DEF Types
    <3>2. Current(h)' = Current(h)
      BY <1>2, <1>3, <3>1 DEF Current
    <3>3. Outcome(cache, Current(h))' = Outcome(cache, Current(h))
      BY <1>2, <3>2, Zenon DEF Outcome
    <3> QED
      BY <1>2, <2>1, <3>2, <3>3 DEF Possible, Busy
  <2>3. CASE ~ Busy(h)
    BY <1>2, <2>1, <2>3 DEF Possible, Busy
  <2> QED
    BY <2>2, <2>3
<1>7. NowIsPossible' /\ PlaceIsPossible' /\ IngestIsAtomic'
  BY <1>6 DEF NowIsPossible, PlaceIsPossible, IngestIsAtomic, Possible
<1> QED
  BY <1>5, <1>7 DEF IInv

\* A decision adds a possibility to every event that is being ingested.
LEMMA DecideStep ==
  ASSUME IInv, NEW k \in Key, NEW verdict \in {"allow", "deny"}, Decide(k, verdict)
  PROVE  IInv'
<1>1. Types
  BY DEF IInv
<1>2. /\ cache' = [cache EXCEPT ![k] = verdict]
      /\ UNCHANGED <<seeds, log, pc, next, last, baseline, did>>
  BY DEF Decide
<1>3. \A h \in Handler :
        could'[h] = IF Busy(h) THEN could[h] \union {Outcome(cache', Current(h))} ELSE could[h]
  BY DEF Decide
<1>4. Types'
  <2>1. cache' \in [Key -> Verdict]
    BY <1>1, <1>2 DEF Types, Verdict
  <2>2. could' = [h \in Handler |-> could'[h]]
    BY Zenon DEF Decide
  <2> QED
    BY <1>1, <1>2, <2>1, <2>2 DEF Types, Busy
<1>5. ASSUME NEW h \in Handler
      PROVE  Possible(h)'
  <2>1. Possible(h)
    BY PossibleSplit DEF IInv
  <2>2. Current(h)' = Current(h) /\ (Busy(h)' <=> Busy(h))
    BY <1>2 DEF Current, Busy
  <2>3. HasAnyDecision(cache, Current(h).fleet) => HasAnyDecision(cache, Current(h).fleet)'
    BY <1>1, <1>2, <2>2, DecideKeepsBaseline DEF Types
  <2>4. Outcome(cache, Current(h))' = Outcome(cache', Current(h))
    BY <1>2, <2>2, Zenon DEF Outcome
  <2>5. could[h] \subseteq could'[h] /\ (Busy(h) => Outcome(cache', Current(h)) \in could'[h])
    BY <1>3
  <2> QED
    BY <1>2, <2>1, <2>2, <2>3, <2>4, <2>5 DEF Possible
<1>6. NowIsPossible' /\ PlaceIsPossible' /\ IngestIsAtomic'
  BY <1>5 DEF NowIsPossible, PlaceIsPossible, IngestIsAtomic, Possible
<1> QED
  BY <1>4, <1>6 DEF IInv

\* A restart interrupts what was being ingested.
LEMMA RestartStep ==
  ASSUME IInv, NEW seedsFile, NEW reverted, Restart(seedsFile, reverted)
  PROVE  IInv'
<1>1. Types
  BY DEF IInv
<1>2. /\ cache' = [k \in Key |-> IF k \in reverted THEN "none" ELSE cache[k]]
      /\ log' = log /\ AllIdle
  BY DEF Restart
<1>3. Len(log) \in Nat
  BY <1>1 DEF Types
<1>4. Types'
  <2>1. cache' \in [Key -> Verdict]
    BY <1>1, <1>2 DEF Types, Verdict
  <2>2. /\ pc' \in [Handler -> Point] /\ next' \in [Handler -> Nat \ {0}]
        /\ last' \in [Handler -> Nat] /\ did' \in [Handler -> Outcomes \union {"none"}]
        /\ baseline' \in [Handler -> BOOLEAN]
    BY <1>2 DEF AllIdle, Point
  <2>3. could' = [h \in Handler |-> could'[h]]
    BY <1>2, Zenon DEF AllIdle
  <2>4. \A h \in Handler : last'[h] <= Len(log') /\ (Busy(h)' => next'[h] <= last'[h])
    BY <1>2, <1>3 DEF AllIdle, Busy
  <2> QED
    BY <1>1, <1>2, <2>1, <2>2, <2>3, <2>4 DEF Types
<1>5. \A h \in Handler : Possible(h)'
  BY <1>2 DEF AllIdle, Possible, Busy
<1>6. NowIsPossible' /\ PlaceIsPossible' /\ IngestIsAtomic'
  BY <1>5 DEF NowIsPossible, PlaceIsPossible, IngestIsAtomic, Possible
<1> QED
  BY <1>4, <1>6 DEF IInv

-----------------------------------------------------------------------------
LEMMA InitInv == Init => IInv
<1> SUFFICES ASSUME Init PROVE IInv
  OBVIOUS
<1>1. Types
  <2>1. log = <<>> /\ log \in Seq(Observable) /\ Len(log) = 0
    BY DEF Init
  <2>2. could = [h \in Handler |-> could[h]]
    BY Zenon DEF Init
  <2>3. /\ cache \in [Key -> Verdict] /\ pc \in [Handler -> Point]
        /\ next \in [Handler -> Nat \ {0}] /\ last \in [Handler -> Nat]
        /\ did \in [Handler -> Outcomes \union {"none"}]
        /\ baseline \in [Handler -> BOOLEAN]
    BY DEF Init, Verdict, Point
  <2>4. \A h \in Handler : last[h] <= Len(log) /\ (Busy(h) => next[h] <= last[h])
    BY <2>1 DEF Init, Busy
  <2> QED
    BY <2>1, <2>2, <2>3, <2>4 DEF Types
<1>2. NowIsPossible /\ PlaceIsPossible /\ IngestIsAtomic
  BY DEF Init, NowIsPossible, PlaceIsPossible, IngestIsAtomic, Busy
<1> QED
  BY <1>1, <1>2 DEF IInv

LEMMA IngestStep ==
  ASSUME IInv, NEW h \in Handler, Ingest(h)
  PROVE  IInv'
<1>1. CASE \E first, end \in 1..Len(log) : first <= end /\ Post(h, first, end)
  BY <1>1, PostStep
<1>2. CASE Take(h)
  BY <1>2, TakeStep
<1>3. CASE Accepted(h)
  BY <1>3, AcceptedStep
<1>4. CASE \/ RawSocket(h) \/ LookupAllowed(h) \/ LookupDenied(h) \/ Denied(h)
           \/ LookupMissed(h) \/ Upsert(h) \/ Drift(h) \/ Deviation(h)
  BY <1>4, BusyStep
<1> QED
  BY <1>1, <1>2, <1>3, <1>4 DEF Ingest

LEMMA ReviewStep ==
  ASSUME IInv, Review
  PROVE  IInv'
<1>1. CASE \E k \in Form, verdict \in {"allow", "deny"} : Decide(k, verdict)
  BY <1>1, DecideStep, FormAssumption
<1>2. ASSUME NEW keys, Remove(keys)
      PROVE  IInv'
  <2>1. UNCHANGED <<seeds, cache, log, pc, next, last, could, baseline, did>>
    BY <1>2 DEF Remove, history
  <2> QED
    BY <2>1, OtherStep
<1>3. CASE \E k \in Form : Dismiss(k)
  BY <1>2, <1>3 DEF Dismiss
<1>4. CASE \E f \in Fleet : DismissWorkload(f)
  BY <1>2, <1>4 DEF DismissWorkload
<1>5. CASE DismissAll
  BY <1>2, <1>5 DEF DismissAll
<1> QED
  BY <1>1, <1>3, <1>4, <1>5 DEF Review

LEMMA NextInv == IInv /\ [Next]_vars => IInv'
<1> SUFFICES ASSUME IInv, [Next]_vars PROVE IInv'
  OBVIOUS
<1>1. CASE \E ev \in Observable : Report(ev)
  BY <1>1, ReportStep
<1>2. CASE \E h \in Handler : Ingest(h)
  BY <1>2, IngestStep
<1>3. CASE Review
  BY <1>3, ReviewStep
<1>4. CASE \E seedsFile \in SeedFiles, reverted \in SUBSET {k \in Key : cache[k] # "none"} :
             Restart(seedsFile, reverted)
  BY <1>4, RestartStep
<1>5. CASE UNCHANGED vars
  <2>1. UNCHANGED <<seeds, cache, log, pc, next, last, could, baseline, did>>
    BY <1>5 DEF vars, history
  <2> QED
    BY <2>1, OtherStep
<1> QED
  BY <1>1, <1>2, <1>3, <1>4, <1>5 DEF Next

-----------------------------------------------------------------------------
(* The rest of the types.                                                  *)

Rest ==
  /\ seeds \in SeedFiles
  /\ proposals \in [Key -> Proposal \union {NoProposal}]
  /\ Len(log) <= MaxEvents
  /\ emitted \subseteq Signals \X (1..Len(log))
  /\ could \in [Handler -> SUBSET Outcomes]
  /\ owed \subseteq 1..Len(log) /\ settled \subseteq Observable \X SeedFiles
  /\ posts \in 0..MaxPosts /\ decides \in 0..MaxDecide
  /\ dismisses \in 0..MaxDismiss /\ restarts \in 0..MaxRestart

LEMMA TypesAreTypeOK == Types /\ Rest => TypeOK
<1> SUFFICES ASSUME Types, Rest PROVE TypeOK
  OBVIOUS
<1>1. seeds \in Seq(Seed) /\ settled \subseteq Observable \X Seq(Seed)
  BY SeedFilesAssumption DEF Rest
<1> QED
  BY <1>1 DEF Types, Rest, TypeOK

\* An event is about an endpoint.
LEMMA KeyType ==
  ASSUME NEW given \in SeedFiles, NEW ev \in Observable
  PROVE  KeyOf(given, ev) \in Key
<1>1. given \in Seq(Seed)
  BY SeedFilesAssumption
<1>2. ev \in Event
  BY ObservableAssumption
<1>3. /\ ev.fleet \in Fleet /\ ev.proto \in Proto
      /\ EndpointValue(ev) \in Value /\ EffectivePort(ev) \in Port
  BY <1>2, PortAssumption DEF Event, EndpointValue, EffectivePort
<1>4. GroupFor(given, AskedOf(ev)) \in Value \union {NoGroup}
  BY <1>1, GroupForType DEF Group
<1> HIDE DEF Key
<1>5. [fleet |-> ev.fleet,
       value |-> IF GroupFor(given, AskedOf(ev)) = NoGroup THEN EndpointValue(ev)
                 ELSE GroupFor(given, AskedOf(ev)),
       port |-> EffectivePort(ev), proto |-> ev.proto] \in Key
  BY <1>3, <1>4 DEF Key
<1> QED
  BY <1>5, Zenon DEF KeyOf

LEMMA OutcomeType ==
  ASSUME seeds \in SeedFiles, NEW c \in [Key -> Verdict], NEW ev \in Observable
  PROVE  Outcome(c, ev) \in Outcomes
<1>1. ev.kind \in {"conn", "raw_socket"}
  BY ObservableAssumption DEF Event
<1>2. KeyOf(seeds, ev) \in Key
  BY KeyType
<1>3. c[KeyOf(seeds, ev)] \in Verdict
  BY <1>2
<1> QED
  BY <1>1, <1>3, RawOutcome, DecidedOutcome, UndecidedOutcome DEF Outcomes, Verdict

\* The place of a busy handler's event.
LEMMA BusyEvent ==
  ASSUME Types, Rest, NEW h \in Handler, Busy(h)
  PROVE  /\ next[h] \in 1..Len(log) /\ Current(h) \in Observable
         /\ CurrentKey(h) \in Key
<1>1. next[h] \in 1..Len(log) /\ Current(h) \in Observable
  BY CurrentType DEF Types
<1>2. seeds \in SeedFiles
  BY DEF Rest
<1> QED
  BY <1>1, <1>2, KeyType DEF CurrentKey

LEMMA RestIngest ==
  ASSUME Types, Rest, NEW h \in Handler, Ingest(h)
  PROVE  Rest'
<1>1. CASE \E first, end \in 1..Len(log) : first <= end /\ Post(h, first, end)
  <2>1. posts' \in 0..MaxPosts
    BY <1>1, StoreBounds DEF Rest, Post
  <2> QED
    BY <1>1, <2>1 DEF Rest, Post, history
<1>2. CASE Take(h)
  <2>1. Outcome(cache, Current(h)) \in Outcomes
    BY <1>2, CurrentType, OutcomeType DEF Take, Rest, Types
  <2>2. could' \in [Handler -> SUBSET Outcomes]
    BY <1>2, <2>1 DEF Take, Rest
  <2> QED
    BY <1>2, <2>2 DEF Rest, Take, counters
<1>3. CASE Accepted(h)
  BY <1>3 DEF Rest, Accepted, counters
<1>4. CASE RawSocket(h) \/ Deviation(h)
  <2>1. Busy(h)
    BY <1>4 DEF RawSocket, Deviation, Busy
  <2>2. emitted' \subseteq Signals \X (1..Len(log))
    BY <1>4, <2>1, BusyEvent DEF RawSocket, Deviation, Emit, Signals, Rest
  <2> QED
    BY <1>4, <2>2 DEF Rest, RawSocket, Deviation, counters
<1>5. CASE LookupAllowed(h) \/ LookupDenied(h)
  <2>1. Busy(h)
    BY <1>5 DEF LookupAllowed, LookupDenied, Busy
  <2>2. next[h] \in 1..Len(log) /\ <<Current(h), seeds>> \in Observable \X SeedFiles
    BY <2>1, BusyEvent DEF Rest
  <2>3. owed' \subseteq 1..Len(log) /\ settled' \subseteq Observable \X SeedFiles
    BY <1>5, <2>2, Zenon DEF LookupAllowed, LookupDenied, Rest
  <2> QED
    BY <1>5, <2>3 DEF Rest, LookupAllowed, LookupDenied, history, counters
<1>6. CASE Denied(h)
  <2>1. Busy(h)
    BY <1>6 DEF Denied, Busy
  <2>2. next[h] \in 1..Len(log)
    BY <2>1, BusyEvent
  <2>3. emitted' \subseteq Signals \X (1..Len(log))
    BY <1>6, <2>2 DEF Denied, Emit, Signals, Rest
  <2>4. owed' \subseteq 1..Len(log)
    BY <1>6, <2>2 DEF Denied, Rest
  <2> QED
    BY <1>6, <2>3, <2>4 DEF Rest, Denied, counters
<1>7. CASE LookupMissed(h) \/ Drift(h)
  BY <1>7 DEF Rest, LookupMissed, Drift, history, counters
<1>8. CASE Upsert(h)
  <2>1. next[h] \in 1..Len(log) /\ Current(h) \in Observable /\ CurrentKey(h) \in Key
    BY <1>8, BusyEvent DEF Upsert, Busy
  <2>2. Current(h).instance \in Instance
    BY <2>1, ObservableAssumption DEF Event
  <2> DEFINE k   == CurrentKey(h)
             was == IF proposals[k] = NoProposal THEN [count |-> 0, instances |-> {}]
                    ELSE proposals[k]
             new == [count |-> was.count + 1, instances |-> was.instances \union {Current(h).instance}]
  <2>3. was.count \in Nat /\ was.instances \in SUBSET Instance
    BY <2>1 DEF Rest, Proposal
  <2>4. new \in Proposal
    <3> HIDE DEF was
    <3> QED
      BY <2>2, <2>3 DEF Proposal
  <2>5. proposals' = [proposals EXCEPT ![k] = new]
    BY <1>8 DEF Upsert
  <2>6. proposals' \in [Key -> Proposal \union {NoProposal}]
    <3> HIDE DEF new, k
    <3> QED
      BY <2>4, <2>5 DEF Rest
  <2>7. owed' \subseteq 1..Len(log)
    BY <1>8, <2>1 DEF Upsert, Rest
  <2> QED
    BY <1>8, <2>6, <2>7 DEF Rest, Upsert, history, counters
<1> QED
  BY <1>1, <1>2, <1>3, <1>4, <1>5, <1>6, <1>7, <1>8 DEF Ingest

LEMMA RestReview ==
  ASSUME Types, Rest, Review
  PROVE  Rest'
<1>1. ASSUME NEW k \in Key, NEW verdict \in {"allow", "deny"}, Decide(k, verdict)
      PROVE  Rest'
  <2>1. cache' \in [Key -> Verdict]
    BY <1>1 DEF Types, Decide, Verdict
  <2>2. ASSUME NEW h \in Handler, Busy(h)
        PROVE  Outcome(cache', Current(h)) \in Outcomes
    BY <2>1, <2>2, BusyEvent, OutcomeType DEF Rest
  <2>3. could' \in [Handler -> SUBSET Outcomes]
    BY <1>1, <2>2 DEF Decide, Rest
  <2>4. decides' \in 0..MaxDecide
    BY <1>1, StoreBounds DEF Decide, Rest
  <2> QED
    BY <1>1, <2>3, <2>4 DEF Decide, Rest
<1>2. ASSUME NEW keys, Remove(keys)
      PROVE  Rest'
  <2>1. proposals' \in [Key -> Proposal \union {NoProposal}]
    BY <1>2 DEF Remove, Rest
  <2>2. owed' \subseteq 1..Len(log)
    BY <1>2 DEF Remove, Rest
  <2>3. dismisses' \in 0..MaxDismiss
    BY <1>2, StoreBounds DEF Remove, Rest
  <2> QED
    BY <1>2, <2>1, <2>2, <2>3 DEF Remove, Rest, history
<1> QED
  BY <1>1, <1>2, FormAssumption DEF Review, Dismiss, DismissWorkload, DismissAll

LEMMA RestNext == Types /\ Rest /\ [Next]_vars => Rest'
<1> SUFFICES ASSUME Types, Rest, [Next]_vars PROVE Rest'
  OBVIOUS
<1>1. ASSUME NEW ev \in Observable, Report(ev)
      PROVE  Rest'
  <2>1. log' = Append(log, ev) /\ Len(log) < MaxEvents /\ Len(log') = Len(log) + 1
    BY <1>1 DEF Types, Report
  <2>2. Len(log) \in Nat /\ MaxEvents \in Nat
    BY StoreBounds DEF Types
  <2>3. 1..Len(log) \subseteq 1..Len(log') /\ Len(log') <= MaxEvents
    BY <2>1, <2>2
  <2>4. emitted' \subseteq Signals \X (1..Len(log')) /\ owed' \subseteq 1..Len(log')
    BY <1>1, <2>3 DEF Rest, Report
  <2> QED
    BY <1>1, <2>3, <2>4 DEF Rest, Report, history, counters
<1>2. CASE \E h \in Handler : Ingest(h)
  BY <1>2, RestIngest
<1>3. CASE Review
  BY <1>3, RestReview
<1>4. ASSUME NEW seedsFile \in SeedFiles, NEW reverted, Restart(seedsFile, reverted)
      PROVE  Rest'
  <2>1. restarts' \in 0..MaxRestart
    BY <1>4, StoreBounds DEF Restart, Rest
  <2>2. could' \in [Handler -> SUBSET Outcomes]
    BY <1>4 DEF Restart, AllIdle
  <2>3. proposals' \in [Key -> Proposal \union {NoProposal}]
    BY <1>4 DEF Restart
  <2>4. owed' \subseteq 1..Len(log') /\ settled' \subseteq Observable \X SeedFiles
    BY <1>4 DEF Restart, Rest
  <2> QED
    BY <1>4, <2>1, <2>2, <2>3, <2>4 DEF Restart, Rest
<1>5. CASE UNCHANGED vars
  BY <1>5 DEF vars, history, counters, Rest
<1> QED
  BY <1>1, <1>2, <1>3, <1>4, <1>5 DEF Next

LEMMA RestInit == Init => Rest
<1> SUFFICES ASSUME Init PROVE Rest
  OBVIOUS
<1>1. /\ Len(log) = 0
      /\ {MaxEvents, MaxPosts, MaxDecide, MaxDismiss, MaxRestart} \subseteq Nat
  BY StoreBounds DEF Init
<1> QED
  BY <1>1 DEF Init, Rest

-----------------------------------------------------------------------------
(* The queue.                                                              *)

\* The event is decided, or waits in the queue.
Waits(ev) ==
  LET k == KeyOf(seeds, ev)
  IN  \/ cache[k] # "none"
      \/ k \in Pending /\ ev.instance \in proposals[k].instances

\* What the lookup found denied still is decided; only connections are owed,
\* and each waits.
Queue ==
  /\ \A h \in Handler : pc[h] = "denied" => cache[CurrentKey(h)] # "none"
  /\ \A i \in owed : log[i].kind = "conn" /\ Waits(log[i])

LEMMA QueueComplete == Queue => QueueIsComplete
BY DEF Queue, Waits, QueueIsComplete

\* A step that leaves the queue and the decisions alone, and owes only what is
\* decided.
LEMMA QuietStep ==
  ASSUME Queue, UNCHANGED <<seeds, cache, proposals, log>>,
         NEW h \in Handler,
         owed' \subseteq owed \union {next[h]},
         next[h] \in owed' => Current(h).kind = "conn" /\ Waits(Current(h)),
         \A g \in Handler \ {h} : pc'[g] = pc[g] /\ next'[g] = next[g],
         pc'[h] = "denied" => next'[h] = next[h] /\ cache[CurrentKey(h)] # "none"
  PROVE  Queue'
<1>1. ASSUME NEW g \in Handler, pc'[g] = "denied"
      PROVE  cache'[CurrentKey(g)'] # "none"
  <2>1. next'[g] = next[g] /\ cache[CurrentKey(g)] # "none"
    BY <1>1 DEF Queue
  <2>2. CurrentKey(g)' = CurrentKey(g)
    BY <2>1 DEF CurrentKey, Current
  <2> QED
    BY <2>1, <2>2
<1>2. ASSUME NEW i \in owed'
      PROVE  log'[i].kind = "conn" /\ Waits(log[i])'
  <2>1. log[i].kind = "conn" /\ Waits(log[i])
    BY DEF Queue, Current
  <2>2. Waits(log[i])' <=> Waits(log[i])
    BY DEF Waits, Pending
  <2> QED
    BY <2>1, <2>2
<1> QED
  BY <1>1, <1>2 DEF Queue

LEMMA QueueIngest ==
  ASSUME IInv, Rest, Queue, NEW h \in Handler, Ingest(h)
  PROVE  Queue'
<1>1. Types /\ Possible(h)
  BY PossibleSplit DEF IInv
<1>2. CASE \/ \E first, end \in 1..Len(log) : first <= end /\ Post(h, first, end)
           \/ Take(h) \/ Accepted(h) \/ RawSocket(h) \/ LookupMissed(h) \/ Drift(h) \/ Deviation(h)
  <2>1. UNCHANGED <<seeds, cache, proposals, log, owed>>
    BY <1>2 DEF Post, Take, Accepted, RawSocket, LookupMissed, Drift, Deviation
  <2>2. pc'[h] # "denied" /\ \A g \in Handler \ {h} : pc'[g] = pc[g] /\ next'[g] = next[g]
    BY <1>1, <1>2 DEF Types, Post, Take, Accepted, RawSocket, LookupMissed, Drift, Deviation,
                      Finish, Goto, history
  <2>3. next[h] \in owed' => Current(h).kind = "conn" /\ Waits(Current(h))
    BY <2>1 DEF Queue, Current
  <2> QED
    BY <2>1, <2>2, <2>3, QuietStep
<1>3. CASE LookupAllowed(h) \/ Denied(h)
  <2>1. /\ UNCHANGED <<seeds, cache, proposals, log>> /\ owed' = owed \union {next[h]}
        /\ pc'[h] = "event"
        /\ \A g \in Handler \ {h} : pc'[g] = pc[g] /\ next'[g] = next[g]
    BY <1>1, <1>3 DEF Types, LookupAllowed, Denied, Finish, Goto
  <2>2. Current(h).kind = "conn" /\ cache[CurrentKey(h)] # "none"
    BY <1>1, <1>3 DEF LookupAllowed, Denied, Possible, Queue
  <2>3. Waits(Current(h))
    BY <2>2 DEF Waits, CurrentKey
  <2> QED
    BY <2>1, <2>2, <2>3, QuietStep
<1>4. CASE LookupDenied(h)
  <2>1. /\ UNCHANGED <<seeds, cache, proposals, log, owed, next>>
        /\ \A g \in Handler \ {h} : pc'[g] = pc[g]
        /\ cache[CurrentKey(h)] # "none"
    BY <1>1, <1>4 DEF Types, LookupDenied, Goto
  <2>2. next[h] \in owed' => Current(h).kind = "conn" /\ Waits(Current(h))
    BY <2>1 DEF Queue, Current
  <2> QED
    BY <2>1, <2>2, QuietStep
<1>5. CASE Upsert(h)
  <2>1. /\ next[h] \in 1..Len(log) /\ Current(h) \in Observable /\ CurrentKey(h) \in Key
        /\ Current(h).kind = "conn"
    BY <1>1, <1>5, BusyEvent DEF Upsert, Busy, Possible
  <2> DEFINE k   == CurrentKey(h)
             was == IF proposals[k] = NoProposal THEN [count |-> 0, instances |-> {}]
                    ELSE proposals[k]
             new == [count |-> was.count + 1, instances |-> was.instances \union {Current(h).instance}]
  <2>2. /\ proposals' = [proposals EXCEPT ![k] = new]
        /\ owed' = owed \union {next[h]}
        /\ UNCHANGED <<seeds, cache, log, next>>
        /\ pc'[h] = "drift" /\ \A g \in Handler \ {h} : pc'[g] = pc[g]
    BY <1>1, <1>5 DEF Types, Upsert, Goto, history
  <2>3. proposals'[k] = new /\ \A l \in Key \ {k} : proposals'[l] = proposals[l]
    <3> HIDE DEF new, k
    <3> QED
      BY <2>1, <2>2 DEF Rest, k
  <2>4. new # NoProposal
    <3>1. Rest'
      BY <1>1, RestIngest
    <3>2. proposals'[k] \in Proposal \union {NoProposal}
      BY <2>1, <3>1 DEF Rest
    <3>3. new \in Proposal
      <4>1. was.count \in Nat /\ was.instances \in SUBSET Instance
        BY <2>1 DEF Rest, Proposal
      <4>2. Current(h).instance \in Instance
        BY <2>1, ObservableAssumption DEF Event
      <4> HIDE DEF was
      <4> QED
        BY <4>1, <4>2 DEF Proposal
    <3> QED
      BY <3>3, NoProposalAssumption
  <2>5. ASSUME NEW ev \in Observable, Waits(ev) \/ ev = Current(h)
        PROVE  Waits(ev)'
    <3>1. KeyOf(seeds, ev) \in Key
      BY KeyType DEF Rest
    <3>2. CASE KeyOf(seeds, ev) = k
      <4>1. CASE cache[k] # "none"
        BY <2>2, <3>2, <4>1 DEF Waits
      <4>2. CASE cache[k] = "none"
        <5>1. ev.instance \in new.instances
          BY <2>5, <3>2, <4>2 DEF Waits, Pending
        <5> HIDE DEF new, k
        <5> QED
          BY <2>2, <2>3, <2>4, <3>1, <3>2, <4>2, <5>1 DEF Waits, Pending
      <4> QED
        BY <4>1, <4>2
    <3>3. CASE KeyOf(seeds, ev) # k
      <4>1. ev # Current(h)
        BY <3>3 DEF CurrentKey
      <4>2. proposals'[KeyOf(seeds, ev)] = proposals[KeyOf(seeds, ev)]
        BY <2>3, <3>1, <3>3
      <4> QED
        BY <2>2, <2>5, <3>1, <4>1, <4>2 DEF Waits, Pending
    <3> QED
      BY <3>2, <3>3
  <2>6. ASSUME NEW i \in owed'
        PROVE  log'[i].kind = "conn" /\ Waits(log[i])'
    <3>1. i \in 1..Len(log)
      BY <2>1, <2>2 DEF Rest
    <3>2. log[i] \in Observable
      BY <1>1, <3>1 DEF Types
    <3>3. log[i].kind = "conn" /\ (Waits(log[i]) \/ log[i] = Current(h))
      BY <2>1, <2>2 DEF Queue, Current
    <3> QED
      BY <2>2, <2>5, <3>2, <3>3
  <2>7. ASSUME NEW g \in Handler, pc'[g] = "denied"
        PROVE  cache'[CurrentKey(g)'] # "none"
    <3>1. pc[g] = "denied" /\ CurrentKey(g)' = CurrentKey(g)
      BY <2>2, <2>7 DEF CurrentKey, Current
    <3> QED
      BY <2>2, <3>1 DEF Queue
  <2> QED
    BY <2>6, <2>7 DEF Queue
<1> QED
  BY <1>2, <1>3, <1>4, <1>5 DEF Ingest

LEMMA QueueReview ==
  ASSUME IInv, Rest, Queue, Review
  PROVE  Queue'
<1>1. Types
  BY DEF IInv
<1>2. \A i \in owed : log[i] \in Observable
  BY <1>1 DEF Types, Rest
<1>3. ASSUME NEW k \in Key, NEW verdict \in {"allow", "deny"}, Decide(k, verdict)
      PROVE  Queue'
  <2>1. UNCHANGED <<seeds, proposals, log, pc, next, owed>>
    BY <1>3 DEF Decide
  <2>2. \A l \in Key : cache'[l] = IF l = k THEN verdict ELSE cache[l]
    BY <1>1, <1>3 DEF Types, Decide
  <2>3. ASSUME NEW i \in owed
        PROVE  log[i].kind = "conn" /\ Waits(log[i])'
    <3>1. log[i].kind = "conn" /\ Waits(log[i]) /\ KeyOf(seeds, log[i]) \in Key
      BY <1>2, KeyType DEF Queue, Rest
    <3> QED
      BY <2>1, <2>2, <3>1 DEF Waits, Pending
  <2>4. ASSUME NEW g \in Handler, pc[g] = "denied"
        PROVE  cache'[CurrentKey(g)'] # "none"
    <3>1. CurrentKey(g)' = CurrentKey(g)
      BY <2>1 DEF CurrentKey, Current
    <3>2. CurrentKey(g) \in Key /\ cache[CurrentKey(g)] # "none"
      BY <1>1, <2>4, BusyEvent DEF Queue, Busy
    <3> QED
      BY <2>2, <3>1, <3>2
  <2> QED
    BY <2>1, <2>3, <2>4 DEF Queue
<1>4. ASSUME NEW keys, Remove(keys)
      PROVE  Queue'
  <2>1. /\ UNCHANGED <<seeds, cache, log, pc, next>>
        /\ \A k \in Key : k \notin keys => proposals'[k] = proposals[k]
        /\ owed' = {i \in owed : log[i].kind = "conn" => KeyOf(seeds, log[i]) \notin keys}
    BY <1>4 DEF Remove, history
  <2>2. ASSUME NEW i \in owed'
        PROVE  log[i].kind = "conn" /\ Waits(log[i])'
    <3>1. log[i].kind = "conn" /\ Waits(log[i]) /\ KeyOf(seeds, log[i]) \in Key
      BY <1>2, <2>1, KeyType DEF Queue, Rest
    <3>2. proposals'[KeyOf(seeds, log[i])] = proposals[KeyOf(seeds, log[i])]
      BY <2>1, <3>1
    <3> QED
      BY <2>1, <3>1, <3>2 DEF Waits, Pending
  <2>3. \A g \in Handler : CurrentKey(g)' = CurrentKey(g)
    BY <2>1 DEF CurrentKey, Current
  <2> QED
    BY <2>1, <2>2, <2>3 DEF Queue
<1> QED
  BY <1>3, <1>4, FormAssumption DEF Review, Dismiss, DismissWorkload, DismissAll

LEMMA QueueNext == IInv /\ Rest /\ Queue /\ [Next]_vars => Queue'
<1> SUFFICES ASSUME IInv, Rest, Queue, [Next]_vars PROVE Queue'
  OBVIOUS
<1>1. Types
  BY DEF IInv
<1>2. ASSUME NEW ev \in Observable, Report(ev)
      PROVE  Queue'
  <2>1. /\ UNCHANGED <<seeds, cache, proposals, pc, next, owed>>
        /\ \A i \in 1..Len(log) : log'[i] = log[i]
    BY <1>1, <1>2 DEF Types, Report, history
  <2>2. ASSUME NEW i \in owed
        PROVE  log'[i].kind = "conn" /\ Waits(log[i])'
    <3>1. log'[i] = log[i] /\ log[i].kind = "conn" /\ Waits(log[i])
      BY <2>1 DEF Rest, Queue
    <3> QED
      BY <2>1, <3>1 DEF Waits, Pending
  <2>3. ASSUME NEW g \in Handler, pc[g] = "denied"
        PROVE  CurrentKey(g)' = CurrentKey(g)
    <3>1. next[g] \in 1..Len(log)
      BY <1>1, <2>3, BusyEvent DEF Busy
    <3> QED
      BY <2>1, <3>1 DEF CurrentKey, Current
  <2> QED
    BY <2>1, <2>2, <2>3 DEF Queue
<1>3. CASE \E h \in Handler : Ingest(h)
  BY <1>3, QueueIngest
<1>4. CASE Review
  BY <1>4, QueueReview
<1>5. ASSUME NEW seedsFile, NEW reverted, Restart(seedsFile, reverted)
      PROVE  Queue'
  BY <1>5 DEF Restart, AllIdle, Queue
<1>6. CASE UNCHANGED vars
  <2>1. UNCHANGED <<seeds, cache, proposals, log, pc, next, owed>>
    BY <1>6 DEF vars
  <2>2. \A i \in owed : Waits(log[i])' <=> Waits(log[i])
    BY <2>1 DEF Waits, Pending
  <2>3. \A g \in Handler : CurrentKey(g)' = CurrentKey(g)
    BY <2>1 DEF CurrentKey, Current
  <2> QED
    BY <2>1, <2>2, <2>3 DEF Queue
<1> QED
  BY <1>2, <1>3, <1>4, <1>5, <1>6 DEF Next

-----------------------------------------------------------------------------
(* What the group depends on.                                              *)

\* The three ways in which an entry of the file matches by itself.
ByKey(sd, q)    == SeedKeys(q.value, q.port, q.proto) \cap SeedKeys(sd.value, sd.port, sd.proto) # {}
BySuffix(sd, q) == sd.type = "group" /\ SuffixMatch(sd, q)
ByNTP(sd, q)    == sd.type = "group" /\ BareNTP(q) /\ NTPPool(sd)

LEMMA ExactEntry ==
  ASSUME NEW given, NEW q
  PROVE  Exact(given, q) <=> \E i \in 1..Len(given) : ByKey(given[i], q)
BY Zenon DEF Exact, ByValuePort, Members, ByKey

LEMMA OneEntry ==
  ASSUME NEW sd, NEW q
  PROVE  Matches(<<sd>>, q) <=> ByKey(sd, q) \/ BySuffix(sd, q) \/ ByNTP(sd, q)
<1>1. Len(<<sd>>) = 1 /\ <<sd>>[1] = sd /\ 1..1 = {1}
  OBVIOUS
<1>2. Exact(<<sd>>, q) <=> ByKey(sd, q)
  <2>1. Exact(<<sd>>, q) <=> \E i \in 1..Len(<<sd>>) : ByKey(<<sd>>[i], q)
    BY ExactEntry, Zenon
  <2> QED
    BY <1>1, <2>1, Zenon
<1>3. SuffixRules(<<sd>>) = {i \in {1} : sd.type = "group"}
  BY <1>1 DEF SuffixRules
<1>4. Matches(<<sd>>, q) <=>
        \/ Exact(<<sd>>, q)
        \/ \E i \in SuffixRules(<<sd>>) : SuffixMatch(<<sd>>[i], q)
        \/ BareNTP(q) /\ \E i \in SuffixRules(<<sd>>) : NTPPool(<<sd>>[i])
  BY MatchesAny, Zenon
<1>5. /\ (\E i \in SuffixRules(<<sd>>) : SuffixMatch(<<sd>>[i], q)) <=> BySuffix(sd, q)
      /\ (BareNTP(q) /\ \E i \in SuffixRules(<<sd>>) : NTPPool(<<sd>>[i])) <=> ByNTP(sd, q)
  BY <1>1, <1>3, Zenon DEF BySuffix, ByNTP
<1> QED
  BY <1>2, <1>4, <1>5, Zenon

\* The entries that match are where the rules that pass are, and the keys.
LEMMA OwnEntries ==
  ASSUME NEW given, NEW q, NEW i \in 1..Len(given)
  PROVE  i \in Own(given, q) <=>
           ByKey(given[i], q) \/ BySuffix(given[i], q) \/ ByNTP(given[i], q)
BY OneEntry, Zenon DEF Own

\* Places that correspond, in order, have the same first one.
LEMMA SameFirst ==
  ASSUME NEW F, NEW G, NEW I \in SUBSET Nat, NEW J \in SUBSET Nat, NEW place, I # {},
         \A i \in I : place[i] \in J /\ G[place[i]] = F[i],
         \A j \in J : \E i \in I : place[i] = j,
         \A i, j \in I : i < j => place[i] < place[j]
  PROVE  Answered(F, I) = Answered(G, J)
<1> DEFINE a == CHOOSE i \in I : \A j \in I : i <= j
           b == CHOOSE i \in J : \A j \in J : i <= j
<1>1. a \in I /\ \A j \in I : a <= j
  BY FirstPlace
<1> HIDE DEF a
<1>2. ASSUME NEW j \in J
      PROVE  place[a] <= j
  <2>1. PICK i \in I : place[i] = j
    OBVIOUS
  <2>2. a <= i
    BY <1>1
  <2>3. CASE a = i
    BY <2>1, <2>3
  <2>4. CASE a # i
    <3>1. a \in Nat /\ i \in Nat /\ place[a] \in Nat /\ j \in Nat
      BY <1>1
    <3>2. a < i
      BY <2>2, <2>4, <3>1
    <3>3. place[a] < place[i]
      BY <1>1, <3>2
    <3> QED
      BY <2>1, <3>1, <3>3
  <2> QED
    BY <2>3, <2>4
<1>3. place[a] \in J
  BY <1>1
<1>4. b \in J /\ \A j \in J : b <= j
  BY <1>3, FirstPlace
<1> HIDE DEF b
<1>5. b = place[a]
  <2>1. b \in Nat /\ place[a] \in Nat /\ b <= place[a] /\ place[a] <= b
    BY <1>2, <1>3, <1>4
  <2> QED
    BY <2>1
<1>6. G[b] = F[a]
  BY <1>1, <1>5
<1>7. Answered(F, I) = [ok |-> TRUE, group |-> F[a].value]
  BY Zenon DEF Answered, a
<1>8. Answered(G, J) = [ok |-> TRUE, group |-> G[b].value]
  BY Zenon DEF Answered, b
<1> QED
  BY <1>6, <1>7, <1>8

\* The pool of an endpoint depends on the entries alone that match it by
\* themselves, and their order.
LEMMA GroupLocal ==
  ASSUME NEW F, NEW G, NEW q, SameFor(F, G, q)
  PROVE  GroupFor(F, q) = GroupFor(G, q)
<1>1. PICK place \in [Own(F, q) -> Own(G, q)] :
        /\ \A i \in Own(F, q) : G[place[i]] = F[i]
        /\ \A j \in Own(G, q) : \E i \in Own(F, q) : place[i] = j
        /\ \A i, j \in Own(F, q) : i < j => place[i] < place[j]
  BY DEF SameFor
<1>2. Own(F, q) \subseteq 1..Len(F) /\ Own(G, q) \subseteq 1..Len(G)
  BY DEF Own
<1>3. Exact(F, q) <=> Exact(G, q)
  <2>1. Exact(F, q) <=> \E i \in Own(F, q) : ByKey(F[i], q)
    BY <1>2, ExactEntry, OwnEntries, Zenon
  <2>2. Exact(G, q) <=> \E i \in Own(G, q) : ByKey(G[i], q)
    BY <1>2, ExactEntry, OwnEntries, Zenon
  <2> QED
    BY <1>1, <2>1, <2>2
<1> DEFINE SF == {i \in SuffixRules(F) : SuffixMatch(F[i], q)}
           SG == {i \in SuffixRules(G) : SuffixMatch(G[i], q)}
           NF == {i \in SuffixRules(F) : NTPPool(F[i])}
           NG == {i \in SuffixRules(G) : NTPPool(G[i])}
<1>4. /\ SF = {i \in Own(F, q) : BySuffix(F[i], q)}
      /\ SG = {i \in Own(G, q) : BySuffix(G[i], q)}
  BY <1>2, OwnEntries, Zenon DEF SuffixRules, BySuffix
<1>5. BareNTP(q) => /\ NF = {i \in Own(F, q) : ByNTP(F[i], q)}
                    /\ NG = {i \in Own(G, q) : ByNTP(G[i], q)}
  BY <1>2, OwnEntries, Zenon DEF SuffixRules, ByNTP
<1>6. SF \in SUBSET Nat /\ SG \in SUBSET Nat /\ NF \in SUBSET Nat /\ NG \in SUBSET Nat
  BY DEF SuffixRules
<1> HIDE DEF SF, SG, NF, NG
<1>7. /\ SF # {} <=> SG # {}
      /\ SF # {} => Answered(F, SF) = Answered(G, SG)
  <2>1. /\ \A i \in SF : place[i] \in SG /\ G[place[i]] = F[i]
        /\ \A j \in SG : \E i \in SF : place[i] = j
        /\ \A i, j \in SF : i < j => place[i] < place[j]
    BY <1>1, <1>4
  <2>2. SF # {} <=> SG # {}
    BY <2>1
  <2>3. SF # {} => Answered(F, SF) = Answered(G, SG)
    BY <1>6, <2>1, SameFirst
  <2> QED
    BY <2>2, <2>3
<1>8. BareNTP(q) => /\ NF # {} <=> NG # {}
                    /\ NF # {} => Answered(F, NF) = Answered(G, NG)
  <2> SUFFICES ASSUME BareNTP(q)
               PROVE  /\ NF # {} <=> NG # {}
                      /\ NF # {} => Answered(F, NF) = Answered(G, NG)
    OBVIOUS
  <2>1. /\ \A i \in NF : place[i] \in NG /\ G[place[i]] = F[i]
        /\ \A j \in NG : \E i \in NF : place[i] = j
        /\ \A i, j \in NF : i < j => place[i] < place[j]
    BY <1>1, <1>5
  <2>2. NF # {} <=> NG # {}
    BY <2>1
  <2>3. NF # {} => Answered(F, NF) = Answered(G, NG)
    BY <1>6, <2>1, SameFirst
  <2> QED
    BY <2>2, <2>3
<1>9. MatchesWithGroup(F, q) =
        IF Exact(F, q) THEN [ok |-> TRUE, group |-> NoGroup]
        ELSE IF SF # {} THEN Answered(F, SF)
        ELSE IF BareNTP(q) /\ NF # {} THEN Answered(F, NF)
        ELSE [ok |-> FALSE, group |-> NoGroup]
  BY Zenon DEF MatchesWithGroup, SF, NF
<1>10. MatchesWithGroup(G, q) =
        IF Exact(G, q) THEN [ok |-> TRUE, group |-> NoGroup]
        ELSE IF SG # {} THEN Answered(G, SG)
        ELSE IF BareNTP(q) /\ NG # {} THEN Answered(G, NG)
        ELSE [ok |-> FALSE, group |-> NoGroup]
  BY Zenon DEF MatchesWithGroup, SG, NG
<1>11. MatchesWithGroup(F, q) = MatchesWithGroup(G, q)
  <2>1. CASE Exact(F, q)
    BY <1>3, <1>9, <1>10, <2>1, Zenon
  <2>2. CASE ~ Exact(F, q) /\ SF # {}
    BY <1>3, <1>7, <1>9, <1>10, <2>2, Zenon
  <2>3. CASE ~ Exact(F, q) /\ SF = {} /\ BareNTP(q) /\ NF # {}
    BY <1>3, <1>7, <1>8, <1>9, <1>10, <2>3, Zenon
  <2>4. CASE ~ Exact(F, q) /\ SF = {} /\ ~ (BareNTP(q) /\ NF # {})
    BY <1>3, <1>7, <1>8, <1>9, <1>10, <2>4, Zenon
  <2> QED
    BY <2>1, <2>2, <2>3, <2>4, Zenon
<1> QED
  BY <1>11, Zenon DEF GroupFor

-----------------------------------------------------------------------------
(* Decisions.                                                              *)

\* What was found decided stays decided, under the key that the seeds file of
\* the time gave it.
Settled == \A s \in settled : cache[KeyOf(s[2], s[1])] # "none"

LEMMA InForceIfSettled == Settled => DecisionsStayInForce
<1> SUFFICES ASSUME Settled, NEW s \in settled, SameFor(s[2], seeds, AskedOf(s[1]))
             PROVE  cache[KeyOf(seeds, s[1])] # "none"
  BY DEF DecisionsStayInForce
<1>1. GroupFor(s[2], AskedOf(s[1])) = GroupFor(seeds, AskedOf(s[1]))
  BY GroupLocal
<1>2. KeyOf(s[2], s[1]) = KeyOf(seeds, s[1])
  BY <1>1, Zenon DEF KeyOf
<1> QED
  BY <1>2 DEF Settled

LEMMA SettledNext ==
  ASSUME IInv, Rest, Settled, [Next]_vars
  PROVE  Settled'
<1>1. Types /\ \A s \in settled : KeyOf(s[2], s[1]) \in Key
  BY KeyType DEF IInv, Rest
<1>2. ASSUME UNCHANGED <<cache, settled>>
      PROVE  Settled'
  BY <1>2 DEF Settled
<1>3. ASSUME NEW h \in Handler, LookupAllowed(h) \/ LookupDenied(h)
      PROVE  Settled'
  <2>1. /\ UNCHANGED cache /\ settled' = settled \union {<<Current(h), seeds>>}
        /\ cache[KeyOf(seeds, Current(h))] # "none"
    BY <1>3 DEF LookupAllowed, LookupDenied, CurrentKey
  <2> QED
    BY <2>1 DEF Settled
<1>4. ASSUME NEW h \in Handler, Ingest(h)
      PROVE  Settled'
  <2>1. \/ LookupAllowed(h) \/ LookupDenied(h)
        \/ UNCHANGED <<cache, settled>>
    BY <1>4 DEF Ingest, Post, Take, Accepted, RawSocket, Denied, LookupMissed, Upsert, Drift,
                Deviation
  <2> QED
    BY <1>2, <1>3, <2>1
<1>5. ASSUME NEW k \in Form, NEW verdict \in {"allow", "deny"}, Decide(k, verdict)
      PROVE  Settled'
  <2>1. UNCHANGED settled
    BY <1>5 DEF Decide
  <2>2. \A l \in Key : cache'[l] = IF l = k THEN verdict ELSE cache[l]
    BY <1>1, <1>5, FormAssumption DEF Types, Decide
  <2> QED
    BY <1>1, <2>1, <2>2 DEF Settled
<1>6. ASSUME NEW keys, Remove(keys)
      PROVE  Settled'
  BY <1>2, <1>6 DEF Remove
<1>7. ASSUME NEW seedsFile \in SeedFiles, NEW reverted, Restart(seedsFile, reverted)
      PROVE  Settled'
  <2>1. /\ \A k \in Key : k \notin reverted => cache'[k] = cache[k]
        /\ settled' = {s \in settled : KeyOf(s[2], s[1]) \notin reverted}
    BY <1>7 DEF Restart
  <2> QED
    BY <1>1, <2>1 DEF Settled
<1>8. CASE \E ev \in Observable : Report(ev)
  BY <1>2, <1>8 DEF Report
<1>9. CASE Review
  BY <1>5, <1>6, <1>9 DEF Review, Dismiss, DismissWorkload, DismissAll
<1>10. CASE UNCHANGED vars
  BY <1>2, <1>10 DEF vars
<1> QED
  BY <1>4, <1>7, <1>8, <1>9, <1>10 DEF Next

-----------------------------------------------------------------------------
\* However reviewers and other requests interleave with the steps of Ingest,
\* what an event comes to is what ingesting it at one moment would have.
THEOREM Atomic == Spec => []IngestIsAtomic
<1>1. Spec => []IInv
  BY InitInv, NextInv, PTL DEF Spec
<1>2. IInv => IngestIsAtomic
  BY DEF IInv
<1> QED
  BY <1>1, <1>2, PTL

\* The types.
THEOREM TypeCorrect == Spec => []TypeOK
<1>1. IInv => Types
  BY DEF IInv
<1>2. Spec => [](IInv /\ Rest)
  BY <1>1, InitInv, NextInv, RestInit, RestNext, PTL DEF Spec
<1> QED
  BY <1>1, <1>2, TypesAreTypeOK, PTL

\* The queue forgets nothing, whichever requests, dismissals and restarts
\* interleave.
THEOREM Complete == Spec => []QueueIsComplete
<1>1. IInv => Types
  BY DEF IInv
<1>2. Init => Queue
  BY DEF Init, Queue
<1>3. Spec => [](IInv /\ Rest /\ Queue)
  BY <1>1, <1>2, InitInv, NextInv, RestInit, RestNext, QueueNext, PTL DEF Spec
<1> QED
  BY <1>3, QueueComplete, PTL

\* A decision stays in force for the traffic it covered, whatever files central
\* is started with, as long as the entries that match this traffic by themselves
\* stay, in their order: the search of MatchesWithGroup over the whole file
\* depends on no other entry.
THEOREM InForce == Spec => []DecisionsStayInForce
<1>1. IInv => Types
  BY DEF IInv
<1>2. Init => Settled
  BY DEF Init, Settled
<1>3. Spec => [](IInv /\ Rest /\ Settled)
  BY <1>1, <1>2, InitInv, NextInv, RestInit, RestNext, SettledNext, PTL DEF Spec
<1> QED
  BY <1>3, InForceIfSettled, PTL

=============================================================================
