---------------------------- MODULE PipelineProofs ----------------------------
(* Proofs about Pipeline, for any hosts and tuples, capacities of the map, *)
(* the ring and the buffer, and any numbers of restarts and reviews.       *)
EXTENDS Pipeline, TLAPS, WellFoundedInduction

\* The constants are numbers, and the capacities are not 0.
LEMMA Bounds ==
  /\ BufCap \in Nat /\ RingCap \in Nat /\ BufCap > 0
  /\ MaxUses \in Nat /\ MaxLives \in Nat /\ MaxReviews \in Nat /\ MaxRestarts \in Nat
BY CapAssumption, LimitAssumption

\* The steps of a host ...
HostStep(h) ==
  \/ \E t \in Tuple : Hit(h, t) \/ Miss(h, t)
  \/ Consume(h) \/ Send(h) \/ SendLost(h) \/ Answered(h) \/ GiveUp(h) \/ SensorRestarts(h)

\* ... and those of central.
CentralStep ==
  \/ \E h \in Host, t \in Tuple : Ingest(h, t) \/ LateIngest(h, t)
  \/ \E t \in Tuple : Decide(t)
  \/ \E tuples \in SUBSET Tuple : Dismiss(tuples) \/ CentralRestarts(tuples)

\* Every step is one of a host or of central, or changes nothing.
LEMMA Steps ==
  ASSUME TypeOK, [Next]_vars
  PROVE  (\E h \in Host : HostStep(h)) \/ CentralStep \/ UNCHANGED vars
<1>1. \A reverted \in SUBSET decided : reverted \in SUBSET Tuple
  BY DEF TypeOK
<1> QED
  BY <1>1 DEF Next, HostStep, CentralStep

-----------------------------------------------------------------------------
(* The type of the state.                                                  *)

\* The type but for the numbers.
Types ==
  /\ seen \in [Host -> SUBSET Tuple] /\ log \in [Host -> Seq(Tuple)]
  /\ read \in [Host -> Nat] /\ head \in [Host -> Nat]
  /\ from \in [Host -> Nat] /\ to \in [Host -> Nat]
  /\ request \in [Host -> {"none", "sent", "lost"}]
  /\ todo \in [Host -> SUBSET Tuple] /\ late \in [Host -> SUBSET Tuple]
  /\ queue \in [Tuple -> SUBSET Host] /\ decided \subseteq Tuple
  /\ lost \in [Host -> SUBSET Tuple] /\ gone \in [Host -> SUBSET Tuple]
  /\ overflown \subseteq Host
  /\ lives \in [Host -> 0..MaxLives] /\ uses \in 0..MaxUses
  /\ reviews \in 0..MaxReviews /\ restarts \in 0..MaxRestarts

\* TypeOK is the types and where the windows lie.
LEMMA TwoParts == TypeOK <=> Types /\ \A h \in Host : InPlace(h)
BY DEF TypeOK, Types

\* What a window holds are tuples.
LEMMA WindowType ==
  ASSUME NEW h \in Host, log[h] \in Seq(Tuple), NEW a \in Nat, NEW b \in Nat, b <= Len(log[h])
  PROVE  Window(h, a, b) \subseteq Tuple /\ Latest(h, a, b) \subseteq Tuple
<1>1. \A i \in a + 1 .. b : log[h][i] \in Tuple
  OBVIOUS
<1> QED
  BY <1>1 DEF Window, Latest

\* The initial states have the type.
LEMMA InitType == Init => TypeOK
BY Bounds DEF Init, TypeOK, InPlace

\* Entries of one host.
LEMMA Except ==
  ASSUME NEW S, NEW f \in [Host -> S], NEW h \in Host, NEW v \in S
  PROVE  [f EXCEPT ![h] = v] \in [Host -> S]
OBVIOUS

\* An update of the dedup map.
LEMMA UpdateType ==
  ASSUME Types, NEW h \in Host, NEW tuples \in SUBSET Tuple, Update(h, tuples)
  PROVE  /\ seen' \in [Host -> SUBSET Tuple]
         /\ seen'[h] \subseteq seen[h] \union tuples
         /\ \A g \in Host : g # h => seen'[g] = seen[g]
BY DEF Types, Update

\* The update of a tuple that was missed.
LEMMA MissUpdate ==
  ASSUME Types, NEW h \in Host, NEW t \in Tuple, Miss(h, t)
  PROVE  /\ seen' \in [Host -> SUBSET Tuple]
         /\ seen'[h] \subseteq seen[h] \union {t}
         /\ \A g \in Host : g # h => seen'[g] = seen[g]
<1>1. PICK marked \in {{t}, {}} : Update(h, marked)
  BY DEF Miss
<1>2. marked \in SUBSET Tuple /\ marked \subseteq {t}
  OBVIOUS
<1> QED
  BY <1>1, <1>2, UpdateType

\* The steps of a host keep the type.
LEMMA HostTypes ==
  ASSUME TypeOK, NEW h \in Host, HostStep(h)
  PROVE  Types'
<1>0. Types /\ InPlace(h) /\ log[h] \in Seq(Tuple)
  BY TwoParts DEF Types
<1>1. ASSUME NEW t \in Tuple, Hit(h, t) PROVE Types'
  <2>1. seen' \in [Host -> SUBSET Tuple]
    <3>1. {} \in SUBSET Tuple /\ Update(h, {})
      BY <1>1 DEF Hit
    <3> QED
      BY <1>0, <3>1, UpdateType
  <2>2. uses' \in 0..MaxUses
    BY <1>0, <1>1, Bounds DEF Hit, Types, Uses
  <2> QED
    BY <1>0, <1>1, <2>1, <2>2 DEF Hit, Types, central, past
<1>2. ASSUME NEW t \in Tuple, Miss(h, t) PROVE Types'
  <2>1. seen' \in [Host -> SUBSET Tuple]
    BY <1>0, <1>2, MissUpdate
  <2>2. log' \in [Host -> Seq(Tuple)]
    <3>1. log' = log \/ log' = [log EXCEPT ![h] = Append(log[h], t)]
      BY <1>2 DEF Miss
    <3>2. log \in [Host -> Seq(Tuple)] /\ Append(log[h], t) \in Seq(Tuple)
      BY <1>0 DEF Types
    <3> QED
      BY <3>1, <3>2, Except
  <2>3. lost' \in [Host -> SUBSET Tuple]
    <3>1. lost' = [lost EXCEPT ![h] = lost[h] \ {t}] \/ lost' = [lost EXCEPT ![h] = lost[h] \union {t}]
      BY <1>2 DEF Miss
    <3>2. lost \in [Host -> SUBSET Tuple]
      BY <1>0 DEF Types
    <3> QED
      BY <3>1, <3>2
  <2>4. gone' \in [Host -> SUBSET Tuple]
    BY <1>0, <1>2 DEF Miss, Types
  <2>5. overflown' \subseteq Host /\ uses' \in 0..MaxUses
    <3>1. overflown' = overflown \/ overflown' = overflown \union {h}
      BY <1>2 DEF Miss
    <3> QED
      BY <1>0, <1>2, <3>1, Bounds DEF Miss, Types, Uses
  <2>6. UNCHANGED <<read, head, request, from, to, todo, late, queue, decided, lives,
                    reviews, restarts>>
    BY <1>2 DEF Miss, central
  <2> QED
    BY <1>0, <2>1, <2>2, <2>3, <2>4, <2>5, <2>6 DEF Types
<1>3. CASE Consume(h)
  <2>1. Latest(h, head[h], head[h] + 1) \subseteq Tuple
    <3>1. head[h] \in Nat /\ read[h] \in Nat /\ head[h] <= read[h] /\ read[h] < Len(log[h])
      BY <1>0, <1>3 DEF Consume, Types, InPlace
    <3>2. head[h] + 1 \in Nat /\ head[h] + 1 <= Len(log[h])
      BY <1>0, <3>1
    <3> QED
      BY <1>0, <3>1, <3>2, WindowType
  <2>2. lost' \in [Host -> SUBSET Tuple]
    <3>1. lost' = lost
          \/ lost' = [lost EXCEPT ![h] = lost[h] \union Latest(h, head[h], head[h] + 1)]
      BY <1>3 DEF Consume
    <3>2. lost \in [Host -> SUBSET Tuple]
      BY <1>0 DEF Types
    <3> QED
      BY <2>1, <3>1, <3>2
  <2>3. head' \in [Host -> Nat] /\ read' \in [Host -> Nat]
    <3>1. head' = head \/ head' = [head EXCEPT ![h] = head[h] + 1]
      BY <1>3 DEF Consume
    <3>2. read' = [read EXCEPT ![h] = read[h] + 1]
      BY <1>3 DEF Consume
    <3>3. head \in [Host -> Nat] /\ read \in [Host -> Nat]
      BY <1>0 DEF Types
    <3> QED
      BY <3>1, <3>2, <3>3
  <2>4. overflown' = overflown \/ overflown' = overflown \union {h}
    BY <1>3 DEF Consume
  <2>5. UNCHANGED <<seen, log, request, from, to, todo, late, queue, decided, gone, uses,
                    lives, reviews, restarts>>
    BY <1>3 DEF Consume, central, bounds
  <2> QED
    BY <1>0, <2>2, <2>3, <2>4, <2>5 DEF Types
<1>4. CASE Send(h)
  <2>1. Window(h, head[h], read[h]) \subseteq Tuple
    BY <1>0, WindowType DEF Types, InPlace
  <2> QED
    BY <1>0, <1>4, <2>1 DEF Send, Types, past, bounds
<1>5. CASE SendLost(h)
  BY <1>0, <1>5 DEF SendLost, Types, central, past, bounds
<1>6. CASE Answered(h)
  <2> DEFINE cut == Smaller(head[h] + (to[h] - from[h]), read[h])
  <2>1. cut \in Nat /\ cut <= Len(log[h]) /\ Larger(head[h], to[h]) \in Nat
    BY <1>0, <1>6 DEF Answered, Types, InPlace, Smaller, Larger
  <2>2. Latest(h, Larger(head[h], to[h]), cut) \subseteq Tuple
    BY <1>0, <2>1, WindowType
  <2>3. head' = [head EXCEPT ![h] = cut]
        /\ lost' = [lost EXCEPT ![h] = @ \union Latest(h, Larger(head[h], to[h]), cut)]
    BY <1>6 DEF Answered
  <2> HIDE DEF cut
  <2>4. head' \in [Host -> Nat] /\ lost' \in [Host -> SUBSET Tuple]
    BY <1>0, <2>1, <2>2, <2>3 DEF Types
  <2> QED
    BY <1>0, <1>6, <2>4 DEF Answered, Types, central, bounds
<1>7. CASE GiveUp(h)
  BY <1>0, <1>7 DEF GiveUp, Types, past, bounds
<1>8. CASE SensorRestarts(h)
  <2>1. Window(h, head[h], read[h]) \subseteq Tuple
    BY <1>0, WindowType DEF Types, InPlace
  <2>2. late' \in [Host -> SUBSET Tuple]
    BY <1>0, <1>8, <2>1 DEF SensorRestarts, Types
  <2>3. log' \in [Host -> Seq(Tuple)] /\ lives' \in [Host -> 0..MaxLives]
    BY <1>0, <1>8, Bounds DEF SensorRestarts, Types
  <2> QED
    BY <1>0, <1>8, <2>2, <2>3 DEF SensorRestarts, Types
<1> QED
  BY <1>1, <1>2, <1>3, <1>4, <1>5, <1>6, <1>7, <1>8 DEF HostStep

\* A tuple that is ingested.
LEMMA ProposesTypes ==
  ASSUME Types, NEW h \in Host, NEW t \in Tuple, Proposes(h, t)
  PROVE  /\ queue' \in [Tuple -> SUBSET Host] /\ decided' \subseteq Tuple
         /\ lost' \in [Host -> SUBSET Tuple] /\ gone' \in [Host -> SUBSET Tuple]
<1>1. queue' \in [Tuple -> SUBSET Host]
  <2>1. queue' = queue \/ queue' = [queue EXCEPT ![t] = queue[t] \union {h}]
    BY DEF Proposes
  <2>2. queue \in [Tuple -> SUBSET Host]
    BY DEF Types
  <2> QED
    BY <2>1, <2>2
<1>2. lost' \in [Host -> SUBSET Tuple] /\ gone' \in [Host -> SUBSET Tuple]
  BY DEF Types, Proposes
<1> QED
  BY <1>1, <1>2 DEF Types, Proposes

\* The steps of central keep the type.
LEMMA CentralTypes ==
  ASSUME TypeOK, CentralStep
  PROVE  Types'
<1>0. Types
  BY TwoParts
<1>1. ASSUME NEW h \in Host, NEW t \in Tuple, Ingest(h, t) PROVE Types'
  <2>1. Proposes(h, t) /\ todo' \in [Host -> SUBSET Tuple]
    BY <1>0, <1>1 DEF Ingest, Types
  <2> QED
    BY <1>0, <1>1, <2>1, ProposesTypes DEF Ingest, Proposes, Types, host, bounds
<1>2. ASSUME NEW h \in Host, NEW t \in Tuple, LateIngest(h, t) PROVE Types'
  <2>1. Proposes(h, t) /\ late' \in [Host -> SUBSET Tuple]
    BY <1>0, <1>2 DEF LateIngest, Types
  <2> QED
    BY <1>0, <1>2, <2>1, ProposesTypes DEF LateIngest, Proposes, Types, host, bounds
<1>3. ASSUME NEW t \in Tuple, Decide(t) PROVE Types'
  BY <1>0, <1>3, Bounds DEF Decide, Review, Types, host, past
<1>4. ASSUME NEW tuples \in SUBSET Tuple, Dismiss(tuples) PROVE Types'
  BY <1>0, <1>4, Bounds DEF Dismiss, Remove, Review, Types, host
<1>5. ASSUME NEW tuples \in SUBSET Tuple, CentralRestarts(tuples) PROVE Types'
  BY <1>0, <1>5, Bounds DEF CentralRestarts, Types
<1> QED
  BY <1>1, <1>2, <1>3, <1>4, <1>5 DEF CentralStep

-----------------------------------------------------------------------------
(* What a step leaves alone.                                               *)

\* Nothing happens on a host.
Still(g) ==
  /\ log'[g] = log[g] /\ read'[g] = read[g] /\ head'[g] = head[g]
  /\ request'[g] = request[g] /\ from'[g] = from[g] /\ to'[g] = to[g]

\* ... and central does nothing about it.
Aside(g) ==
  /\ Still(g)
  /\ seen'[g] = seen[g] /\ todo'[g] = todo[g] /\ lost'[g] = lost[g] /\ gone'[g] = gone[g]
  /\ queue' = queue /\ decided' = decided /\ (g \in overflown' <=> g \in overflown)

\* A host's steps do not touch another.
LEMMA OthersAside ==
  ASSUME TypeOK, NEW h \in Host, HostStep(h), NEW g \in Host, g # h
  PROVE  Aside(g)
<1>0. Types
  BY TwoParts
<1>1. ASSUME NEW t \in Tuple, Hit(h, t) PROVE Aside(g)
  BY <1>0, <1>1, UpdateType DEF Hit, Types, Aside, Still, central, past
<1>2. ASSUME NEW t \in Tuple, Miss(h, t) PROVE Aside(g)
  <2>1. seen'[g] = seen[g]
    BY <1>0, <1>2, MissUpdate
  <2>2. gone'[g] = gone[g] /\ lost'[g] = lost[g] /\ log'[g] = log[g]
        /\ (g \in overflown' <=> g \in overflown)
    BY <1>0, <1>2 DEF Miss, Types
  <2> QED
    BY <1>2, <2>1, <2>2 DEF Miss, Aside, Still, central
<1>3. CASE Consume(h)
  <2>1. head'[g] = head[g] /\ read'[g] = read[g] /\ lost'[g] = lost[g]
        /\ (g \in overflown' <=> g \in overflown)
    BY <1>0, <1>3 DEF Consume, Types
  <2> QED
    BY <1>3, <2>1 DEF Consume, Aside, Still, central, bounds
<1>4. CASE Send(h)
  BY <1>0, <1>4 DEF Send, Types, Aside, Still, past
<1>5. CASE SendLost(h)
  BY <1>0, <1>5 DEF SendLost, Types, Aside, Still, central, past
<1>6. CASE Answered(h)
  BY <1>0, <1>6 DEF Answered, Types, Aside, Still, central
<1>7. CASE GiveUp(h)
  BY <1>0, <1>7 DEF GiveUp, Types, Aside, Still, past
<1>8. CASE SensorRestarts(h)
  BY <1>0, <1>8 DEF SensorRestarts, Types, Aside, Still
<1> QED
  BY <1>1, <1>2, <1>3, <1>4, <1>5, <1>6, <1>7, <1>8 DEF HostStep

\* Where nothing happens, windows stay in place.
LEMMA StillInPlace ==
  ASSUME NEW g \in Host, InPlace(g), Still(g)
  PROVE  InPlace(g)'
BY DEF InPlace, Still

\* A host's own step.
LEMMA HostInPlace ==
  ASSUME TypeOK, NEW h \in Host, HostStep(h)
  PROVE  InPlace(h)'
<1>0. Types /\ InPlace(h) /\ log[h] \in Seq(Tuple)
      /\ head[h] \in Nat /\ read[h] \in Nat /\ from[h] \in Nat /\ to[h] \in Nat
  BY TwoParts DEF Types
<1>1. ASSUME NEW t \in Tuple, Hit(h, t) PROVE InPlace(h)'
  BY <1>0, <1>1, StillInPlace DEF Hit, Still
<1>2. ASSUME NEW t \in Tuple, Miss(h, t) PROVE InPlace(h)'
  <2>1. Len(log'[h]) = Len(log[h])
        \/ (Len(log'[h]) = Len(log[h]) + 1 /\ Len(log[h]) - read[h] < RingCap)
    BY <1>0, <1>2 DEF Miss, Types
  <2>2. UNCHANGED <<read, head, request, from, to>>
    BY <1>2 DEF Miss
  <2> QED
    BY <1>0, <2>1, <2>2, Bounds DEF InPlace
<1>3. CASE Consume(h)
  <2>1. read'[h] = read[h] + 1 /\ read[h] < Len(log[h])
        /\ ((read[h] - head[h] < BufCap /\ head'[h] = head[h]) \/ head'[h] = head[h] + 1)
    BY <1>0, <1>3 DEF Consume, Types
  <2>2. log'[h] = log[h] /\ request'[h] = request[h] /\ from'[h] = from[h] /\ to'[h] = to[h]
    BY <1>3 DEF Consume
  <2>3. Len(log[h]) \in Nat
    BY <1>0
  <2>4. head[h] <= read[h] /\ read[h] - head[h] <= BufCap /\ Len(log[h]) - read[h] <= RingCap
        /\ (request[h] # "none" => from[h] <= head[h] /\ from[h] < to[h] /\ to[h] <= read[h])
    BY <1>0 DEF InPlace
  <2>5. head'[h] \in Nat /\ head[h] <= head'[h] /\ head'[h] <= read[h] + 1
        /\ read[h] + 1 - head'[h] <= BufCap
    BY <1>0, <2>1, <2>4, Bounds
  <2>6. read[h] + 1 <= Len(log[h]) /\ Len(log[h]) - (read[h] + 1) <= RingCap
    BY <1>0, <2>1, <2>3, <2>4, Bounds
  <2>7. request[h] # "none" => from[h] <= head'[h] /\ from[h] < to[h] /\ to[h] <= read[h] + 1
    BY <1>0, <2>4, <2>5
  <2>8. read'[h] = read[h] + 1
    BY <2>1
  <2>9. head'[h] <= read'[h] /\ read'[h] - head'[h] <= BufCap
    BY <1>0, <2>5, <2>8, Bounds
  <2>10. read'[h] <= Len(log'[h]) /\ Len(log'[h]) - read'[h] <= RingCap
    BY <2>2, <2>6, <2>8
  <2>11. request'[h] # "none" => from'[h] <= head'[h] /\ from'[h] < to'[h] /\ to'[h] <= read'[h]
    BY <2>2, <2>7, <2>8
  <2> QED
    BY <2>9, <2>10, <2>11 DEF InPlace
<1>4. CASE Send(h)
  BY <1>0, <1>4 DEF Send, Types, InPlace
<1>5. CASE SendLost(h)
  BY <1>0, <1>5 DEF SendLost, Types, InPlace
<1>6. CASE Answered(h)
  <2>1. head'[h] = Smaller(head[h] + (to[h] - from[h]), read[h]) /\ request'[h] = "none"
    BY <1>0, <1>6 DEF Answered, Types
  <2>2. UNCHANGED <<log, read>> /\ request[h] # "none"
    BY <1>6 DEF Answered
  <2> QED
    BY <1>0, <2>1, <2>2, Bounds DEF InPlace, Smaller
<1>7. CASE GiveUp(h)
  BY <1>0, <1>7 DEF GiveUp, Types, InPlace
<1>8. CASE SensorRestarts(h)
  BY <1>0, <1>8, Bounds DEF SensorRestarts, Types, InPlace
<1> QED
  BY <1>1, <1>2, <1>3, <1>4, <1>5, <1>6, <1>7, <1>8 DEF HostStep

\* Central touches no window.
LEMMA CentralInPlace ==
  ASSUME TypeOK, CentralStep, NEW g \in Host
  PROVE  InPlace(g)'
<1>0. Types /\ InPlace(g)
  BY TwoParts
<1>1. ASSUME NEW h \in Host, NEW t \in Tuple, Ingest(h, t) \/ LateIngest(h, t) PROVE InPlace(g)'
  BY <1>0, <1>1, StillInPlace DEF Ingest, LateIngest, Proposes, host, Still
<1>2. ASSUME NEW t \in Tuple, Decide(t) PROVE InPlace(g)'
  BY <1>0, <1>2, StillInPlace DEF Decide, host, Still
<1>3. ASSUME NEW tuples \in SUBSET Tuple, Dismiss(tuples) PROVE InPlace(g)'
  BY <1>0, <1>3, StillInPlace DEF Dismiss, host, Still
<1>4. ASSUME NEW tuples \in SUBSET Tuple, CentralRestarts(tuples) PROVE InPlace(g)'
  <2>1. UNCHANGED <<log, read, head, from, to>>
    BY <1>4 DEF CentralRestarts
  <2>2. request'[g] # "none" => request[g] # "none"
    BY <1>0, <1>4 DEF CentralRestarts, Types
  <2> QED
    BY <1>0, <2>1, <2>2 DEF InPlace
<1> QED
  BY <1>1, <1>2, <1>3, <1>4 DEF CentralStep

\* A step keeps the type.
LEMMA TypeStep ==
  ASSUME TypeOK, [Next]_vars
  PROVE  TypeOK'
<1>1. ASSUME NEW h \in Host, HostStep(h) PROVE TypeOK'
  <2>1. ASSUME NEW g \in Host PROVE InPlace(g)'
    <3>1. CASE g = h
      BY <1>1, <3>1, HostInPlace
    <3>2. CASE g # h
      <4>1. Still(g) /\ InPlace(g)
        BY <1>1, <3>2, OthersAside, TwoParts DEF Aside
      <4> QED
        BY <4>1, StillInPlace
    <3> QED
      BY <3>1, <3>2
  <2>2. Types'
    BY <1>1, HostTypes
  <2> QED
    BY <2>1, <2>2 DEF TypeOK, Types
<1>2. CASE CentralStep
  <2>1. Types' /\ \A g \in Host : InPlace(g)'
    BY <1>2, CentralTypes, CentralInPlace
  <2> QED
    BY <2>1 DEF TypeOK, Types
<1>3. CASE UNCHANGED vars
  <2>1. UNCHANGED <<host, central, past, bounds>>
    BY <1>3 DEF vars
  <2>2. Types' /\ \A g \in Host : InPlace(g)'
    BY <2>1, TwoParts DEF Types, InPlace, host, central, past, bounds
  <2> QED
    BY <2>2 DEF TypeOK, Types
<1> QED
  BY <1>1, <1>2, <1>3, Steps

\* Every state has its type; in particular the batch of a request that is under
\* way is a part of the log that the read loop has consumed, whatever the
\* buffer has dropped meanwhile, and ring and buffer keep to their sizes.
THEOREM TypeCorrect == Spec => []TypeOK
<1> QED
  BY InitType, TypeStep, PTL DEF Spec

-----------------------------------------------------------------------------
(* Windows of the log.                                                     *)

\* What is in a window has a last record there.
LEMMA LastPlace ==
  ASSUME NEW h \in Host, NEW a \in Nat, NEW n \in Nat, NEW t \in Window(h, a, n)
  PROVE  \E j \in a + 1 .. n : log[h][j] = t /\ \A k \in j + 1 .. n : log[h][k] # t
<1> DEFINE Left == {n - i : i \in {j \in a + 1 .. n : log[h][j] = t}}
<1>1. Left # {} /\ Left \subseteq Nat
  BY DEF Window
<1>2. PICK m \in Left : \A k \in Left : ~ (<<k, m>> \in OpToRel(<, Nat))
  BY <1>1, NatLessThanWellFounded, WFMin
<1>3. PICK j \in a + 1 .. n : log[h][j] = t /\ m = n - j
  BY <1>2
<1>4. ASSUME NEW k \in j + 1 .. n PROVE log[h][k] # t
  <2>1. SUFFICES ASSUME log[h][k] = t PROVE FALSE
    OBVIOUS
  <2>2. k \in a + 1 .. n /\ n - k < n - j /\ n - k \in Nat /\ n - j \in Nat
    BY <1>3
  <2>3. n - k \in Left
    BY <2>1, <2>2
  <2> QED
    BY <1>2, <1>3, <2>2, <2>3 DEF OpToRel
<1> QED
  BY <1>3, <1>4

\* A window that is cut at the front keeps what was reported again.
LEMMA WindowCut ==
  ASSUME NEW h \in Host, log[h] \in Seq(Tuple), NEW a \in Nat, NEW b \in Nat
  PROVE  Window(h, a, Len(log[h])) \subseteq Window(h, b, Len(log[h])) \union Latest(h, a, b)
<1> SUFFICES ASSUME NEW t \in Window(h, a, Len(log[h]))
             PROVE  t \in Window(h, b, Len(log[h])) \/ t \in Latest(h, a, b)
  OBVIOUS
<1>1. Len(log[h]) \in Nat
  OBVIOUS
<1>2. PICK j \in a + 1 .. Len(log[h]) :
        log[h][j] = t /\ \A k \in j + 1 .. Len(log[h]) : log[h][k] # t
  BY <1>1, LastPlace
<1>3. CASE j <= b
  <2>1. j \in {i \in a + 1 .. b : \A k \in i + 1 .. Len(log[h]) : log[h][k] # log[h][i]}
    BY <1>1, <1>2, <1>3
  <2> QED
    BY <1>2, <2>1 DEF Latest
<1>4. CASE j > b
  BY <1>1, <1>2, <1>4 DEF Window
<1> QED
  BY <1>1, <1>3, <1>4

\* A window is what two parts of it hold.
LEMMA WindowSplit ==
  ASSUME NEW h \in Host, NEW a \in Nat, NEW b \in Nat, NEW n \in Nat
  PROVE  /\ Window(h, a, n) \subseteq Window(h, a, b) \union Window(h, b, n)
         /\ b <= a => Window(h, a, n) \subseteq Window(h, b, n)
BY DEF Window

-----------------------------------------------------------------------------
(* Who still knows of what the kernel is silent about.                     *)

Known(g, t) == Shown(g, t) \/ t \in lost[g] \/ t \in gone[g]

\* What is silent on a host is known, or its report is somewhere after a.
Covered(g, a) == \A t \in seen[g] : Known(g, t) \/ t \in Window(g, a, Len(log[g]))

\* While central has a batch, what is silent is known without the batch as far
\* as it is ingested already: the buffer may be cut when the answer comes.
Posted(g) ==
  request[g] = "sent" =>
    \A t \in seen[g] :
      Known(g, t) \/ t \in todo[g] \/ t \in Window(g, Larger(head[g], to[g]), Len(log[g]))

Overflow(g) == lost[g] # {} => g \in overflown

\* The buffer moves past the start of a batch under way only when it drops events.
Cut(g) == request[g] # "none" /\ from[g] < head[g] => g \in overflown

Sound(g) == Covered(g, head[g]) /\ Posted(g) /\ Overflow(g) /\ Cut(g)

\* The inductive invariant.
IInv == TypeOK /\ \A g \in Host : Sound(g)

\* The invariant holds at the start.
LEMMA InitSound == Init => IInv
<1> SUFFICES ASSUME Init PROVE IInv
  OBVIOUS
<1>1. TypeOK
  BY InitType
<1>2. \A g \in Host : Sound(g)
  BY DEF Init, Sound, Covered, Posted, Overflow, Cut
<1> QED
  BY <1>1, <1>2 DEF IInv

\* A step that leaves a host aside keeps what is known of it.
LEMMA AsideSound ==
  ASSUME NEW g \in Host, Sound(g), Aside(g)
  PROVE  Sound(g)'
<1>1. Covered(g, head[g])'
  BY DEF Sound, Covered, Known, Shown, Window, Aside, Still
<1>2. Posted(g)'
  BY DEF Sound, Posted, Known, Shown, Window, Larger, Aside, Still
<1>3. Overflow(g)' /\ Cut(g)'
  BY DEF Sound, Overflow, Cut, Aside, Still
<1> QED
  BY <1>1, <1>2, <1>3 DEF Sound

\* The kernel's steps.
LEMMA HitSound ==
  ASSUME IInv, NEW h \in Host, NEW t \in Tuple, Hit(h, t)
  PROVE  Sound(h)'
<1>1. seen'[h] \subseteq seen[h]
  <2>1. {} \in SUBSET Tuple /\ Update(h, {}) /\ Types
    BY TwoParts DEF Hit, IInv
  <2> QED
    BY <2>1, UpdateType
<1>2. UNCHANGED <<log, read, head, request, from, to, todo, queue, decided, lost, gone, overflown>>
  BY DEF Hit, central, past
<1>3. Sound(h)
  BY DEF IInv
<1>4. Covered(h, head[h])'
  BY <1>1, <1>2, <1>3 DEF Sound, Covered, Known, Shown, Window
<1>5. Posted(h)'
  BY <1>1, <1>2, <1>3 DEF Sound, Posted, Known, Shown, Window, Larger
<1> QED
  BY <1>2, <1>3, <1>4, <1>5 DEF Sound, Overflow, Cut

\* A tuple that is entered in the map is reported, or lost; the others stay as known as they were.
LEMMA MissSound ==
  ASSUME IInv, NEW h \in Host, NEW t \in Tuple, Miss(h, t)
  PROVE  Sound(h)'
<1>0. Types /\ InPlace(h) /\ log[h] \in Seq(Tuple) /\ Sound(h)
      /\ head[h] \in Nat /\ read[h] \in Nat /\ to[h] \in Nat /\ Len(log[h]) \in Nat
  <2>1. Types /\ InPlace(h) /\ Sound(h)
    BY TwoParts DEF IInv
  <2> QED
    BY <2>1 DEF Types
<1>1. \A u \in seen'[h] : u # t => u \in seen[h]
  BY <1>0, MissUpdate
<1>2. UNCHANGED <<read, head, request, from, to, todo, queue, decided>>
  BY DEF Miss, central
<1>3. \A u : u # t => (u \in gone'[h] <=> u \in gone[h]) /\ (u \in lost'[h] <=> u \in lost[h])
  BY <1>0 DEF Miss, Types
<1>4. \A u : u # t /\ Known(h, u) => Known(h, u)'
  BY <1>2, <1>3 DEF Known, Shown
<1>5. \A a \in Nat : a <= Len(log[h]) =>
        /\ Window(h, a, Len(log[h])) \subseteq Window(h, a, Len(log[h]))'
        /\ t \in lost'[h] \/ t \in Window(h, a, Len(log[h]))'
  <2> SUFFICES ASSUME NEW a \in Nat, a <= Len(log[h])
               PROVE  /\ Window(h, a, Len(log[h])) \subseteq Window(h, a, Len(log[h]))'
                      /\ t \in lost'[h] \/ t \in Window(h, a, Len(log[h]))'
    OBVIOUS
  <2>1. CASE log' = [log EXCEPT ![h] = Append(log[h], t)]
    <3>1. log'[h] = Append(log[h], t)
      BY <1>0, <2>1 DEF Types
    <3>2. Len(log'[h]) = Len(log[h]) + 1 /\ log'[h][Len(log[h]) + 1] = t
          /\ \A i \in 1 .. Len(log[h]) : log'[h][i] = log[h][i]
      BY <1>0, <3>1
    <3> QED
      BY <1>0, <3>2 DEF Window
  <2>2. CASE log' = log /\ t \in lost'[h]
    BY <2>2 DEF Window
  <2>3. (log' = [log EXCEPT ![h] = Append(log[h], t)]) \/ (log' = log /\ t \in lost'[h])
    BY <1>0 DEF Miss, Types
  <2> QED
    BY <2>1, <2>2, <2>3
<1>6. Covered(h, head[h])'
  <2>1. head[h] <= Len(log[h])
    BY <1>0 DEF InPlace
  <2> QED
    BY <1>0, <1>1, <1>2, <1>4, <1>5, <2>1 DEF Sound, Covered, Known
<1>7. Posted(h)'
  <2> SUFFICES ASSUME request[h] = "sent", NEW u \in seen'[h]
               PROVE  (Known(h, u) \/ u \in todo[h] \/ u \in Window(h, Larger(head[h], to[h]), Len(log[h])))'
    BY <1>2 DEF Posted
  <2> DEFINE a == Larger(head[h], to[h])
  <2>1. a \in Nat /\ a <= Len(log[h]) /\ a' = a
    BY <1>0, <1>2 DEF InPlace, Larger
  <2>2. CASE u = t
    BY <1>5, <2>1, <2>2 DEF Known
  <2>3. CASE u # t
    <3>1. Known(h, u) \/ u \in todo[h] \/ u \in Window(h, a, Len(log[h]))
      BY <1>0, <1>1, <2>3 DEF Sound, Posted
    <3>2. u \in Window(h, a, Len(log[h])) => u \in Window(h, a, Len(log[h]))'
      BY <1>5, <2>1
    <3> QED
      BY <1>2, <1>4, <2>3, <3>1, <3>2
  <2> QED
    BY <2>2, <2>3
<1>8. Overflow(h)' /\ Cut(h)'
  <2>1. h \in overflown => h \in overflown'
    BY DEF Miss
  <2>2. lost'[h] \subseteq lost[h] \/ h \in overflown'
    BY <1>0 DEF Miss, Types
  <2> QED
    BY <1>0, <1>2, <2>1, <2>2 DEF Sound, Overflow, Cut
<1> QED
  BY <1>6, <1>7, <1>8 DEF Sound

\* A full buffer drops its oldest event.
LEMMA ConsumeSound ==
  ASSUME IInv, NEW h \in Host, Consume(h)
  PROVE  Sound(h)'
<1>0. Types /\ log[h] \in Seq(Tuple) /\ Sound(h) /\ head[h] \in Nat /\ to[h] \in Nat
  <2>1. Types /\ Sound(h)
    BY TwoParts DEF IInv
  <2> QED
    BY <2>1 DEF Types
<1>1. UNCHANGED <<seen, log, request, from, to, todo, queue, decided, gone>>
  BY DEF Consume, central
<1>2. CASE UNCHANGED <<head, lost, overflown>>
  <2>1. Covered(h, head[h])'
    BY <1>0, <1>1, <1>2 DEF Sound, Covered, Known, Shown, Window
  <2>2. Posted(h)'
    BY <1>0, <1>1, <1>2 DEF Sound, Posted, Known, Shown, Window, Larger
  <2> QED
    BY <1>0, <1>1, <1>2, <2>1, <2>2 DEF Sound, Overflow, Cut
<1>3. CASE /\ head' = [head EXCEPT ![h] = @ + 1]
           /\ lost' = [lost EXCEPT ![h] = @ \union Latest(h, head[h], head[h] + 1)]
           /\ overflown' = overflown \union {h}
  <2>1. head'[h] = head[h] + 1 /\ lost'[h] = lost[h] \union Latest(h, head[h], head[h] + 1)
        /\ h \in overflown'
    BY <1>0, <1>3 DEF Types
  <2>2. \A t \in Window(h, head[h], Len(log[h])) :
          t \in lost'[h] \/ t \in Window(h, head[h] + 1, Len(log[h]))
    BY <1>0, <2>1, WindowCut
  <2>3. \A t : Known(h, t) => Known(h, t)'
    BY <1>1, <2>1 DEF Known, Shown
  <2>4. Covered(h, head[h])'
    <3>1. ASSUME NEW t \in seen[h]
          PROVE  Known(h, t)' \/ t \in Window(h, head[h] + 1, Len(log[h]))
      BY <1>0, <2>2, <2>3 DEF Sound, Covered, Known
    <3> QED
      BY <1>1, <2>1, <3>1 DEF Covered, Window
  <2>5. Posted(h)'
    <3>1. ASSUME request[h] = "sent", NEW t \in seen[h]
          PROVE  \/ Known(h, t)' \/ t \in todo[h]
                 \/ t \in Window(h, Larger(head[h] + 1, to[h]), Len(log[h]))
      <4>1. Known(h, t) \/ t \in todo[h] \/ t \in Window(h, Larger(head[h], to[h]), Len(log[h]))
        BY <1>0, <3>1 DEF Sound, Posted
      <4>2. CASE head[h] < to[h]
        <5>1. Larger(head[h], to[h]) = to[h] /\ Larger(head[h] + 1, to[h]) = to[h]
          BY <1>0, <4>2 DEF Larger
        <5> QED
          BY <2>3, <4>1, <5>1
      <4>3. CASE ~ (head[h] < to[h])
        <5>1. Larger(head[h], to[h]) = head[h] /\ Larger(head[h] + 1, to[h]) = head[h] + 1
          BY <1>0, <4>3 DEF Larger
        <5> QED
          BY <2>2, <2>3, <4>1, <5>1 DEF Known
      <4> QED
        BY <4>2, <4>3
    <3> QED
      BY <1>1, <2>1, <3>1 DEF Posted, Window
  <2> QED
    BY <2>1, <2>4, <2>5 DEF Sound, Overflow, Cut
<1> QED
  BY <1>2, <1>3 DEF Consume

\* The uploader's steps.
LEMMA SendSound ==
  ASSUME IInv, NEW h \in Host, Send(h) \/ SendLost(h) \/ GiveUp(h)
  PROVE  Sound(h)'
<1>0. Types /\ InPlace(h) /\ Sound(h) /\ head[h] \in Nat /\ read[h] \in Nat
      /\ log[h] \in Seq(Tuple)
  <2>1. Types /\ InPlace(h) /\ Sound(h)
    BY TwoParts DEF IInv
  <2> QED
    BY <2>1 DEF Types
<1>1. UNCHANGED <<seen, log, head, queue, decided, lost, gone, overflown>>
  BY DEF Send, SendLost, GiveUp, central, past
<1>2. Covered(h, head[h])' /\ Overflow(h)'
  BY <1>0, <1>1 DEF Sound, Covered, Overflow, Known, Shown, Window
<1>3. CASE Send(h)
  <2>1. to'[h] = read[h] /\ todo'[h] = Window(h, head[h], read[h]) /\ from'[h] = head[h]
    BY <1>0, <1>3 DEF Send, Types
  <2>2. Larger(head'[h], to'[h]) = read[h]
    BY <1>0, <1>1, <2>1 DEF InPlace, Larger
  <2>3. ASSUME NEW t \in seen[h]
        PROVE  Known(h, t) \/ t \in todo'[h] \/ t \in Window(h, read[h], Len(log[h]))
    <3>1. Len(log[h]) \in Nat
      BY <1>0
    <3>2. Known(h, t) \/ t \in Window(h, head[h], Len(log[h]))
      BY <1>0 DEF Sound, Covered
    <3> QED
      BY <1>0, <2>1, <3>1, <3>2, WindowSplit
  <2>4. Posted(h)'
    BY <1>1, <2>2, <2>3 DEF Posted, Known, Shown, Window
  <2>5. Cut(h)'
    BY <1>0, <1>1, <2>1 DEF Cut
  <2> QED
    BY <1>2, <2>4, <2>5 DEF Sound
<1>4. CASE SendLost(h)
  <2>1. request'[h] = "lost" /\ from'[h] = head[h]
    BY <1>0, <1>4 DEF SendLost, Types
  <2> QED
    BY <1>0, <1>1, <1>2, <2>1 DEF Sound, Posted, Cut
<1>5. CASE GiveUp(h)
  <2>1. request'[h] = "none"
    BY <1>0, <1>5 DEF GiveUp, Types
  <2> QED
    BY <1>2, <2>1 DEF Sound, Posted, Cut
<1> QED
  BY <1>3, <1>4, <1>5

\* The answer: more than the batch is removed only if the buffer dropped events of it.
LEMMA AnsweredSound ==
  ASSUME IInv, NEW h \in Host, Answered(h)
  PROVE  Sound(h)'
<1> DEFINE cut == Smaller(head[h] + (to[h] - from[h]), read[h])
           end == Larger(head[h], to[h])
<1>0. Types /\ InPlace(h) /\ log[h] \in Seq(Tuple) /\ Sound(h)
      /\ head[h] \in Nat /\ read[h] \in Nat /\ from[h] \in Nat /\ to[h] \in Nat
  <2>1. Types /\ InPlace(h) /\ Sound(h)
    BY TwoParts DEF IInv
  <2> QED
    BY <2>1 DEF Types
<1>1. head'[h] = cut /\ lost'[h] = lost[h] \union Latest(h, end, cut) /\ request'[h] = "none"
  BY <1>0 DEF Answered, Types
<1>2. request[h] = "sent" /\ todo[h] = {}
      /\ UNCHANGED <<seen, log, queue, decided, gone, overflown>>
  BY DEF Answered, central
<1>3. from[h] <= head[h] /\ from[h] < to[h] /\ to[h] <= read[h]
  BY <1>0, <1>2 DEF InPlace
<1>4. cut \in Nat /\ end \in Nat /\ Len(log[h]) \in Nat
  BY <1>0, <1>3 DEF Smaller, Larger
<1>5. end < cut => h \in overflown
  <2>1. end < cut => from[h] < head[h]
    BY <1>0, <1>3 DEF Smaller, Larger
  <2> QED
    BY <1>0, <1>2, <2>1 DEF Sound, Cut
<1>6. \A t \in seen[h] : Known(h, t) \/ t \in Window(h, end, Len(log[h]))
  BY <1>0, <1>2 DEF Sound, Posted
<1> HIDE DEF cut, end
<1>7. Covered(h, head[h])'
  <2>1. Window(h, end, Len(log[h])) \subseteq Window(h, cut, Len(log[h])) \union Latest(h, end, cut)
    BY <1>0, <1>4, WindowCut
  <2>2. \A t \in seen[h] : Known(h, t)' \/ t \in Window(h, cut, Len(log[h]))
    BY <1>1, <1>2, <1>6, <2>1 DEF Known, Shown
  <2> QED
    BY <1>1, <1>2, <2>2 DEF Covered, Window
<1>8. Overflow(h)'
  <2>1. Latest(h, end, cut) # {} => end < cut
    BY <1>4 DEF Latest
  <2> QED
    BY <1>0, <1>1, <1>2, <1>5, <2>1 DEF Sound, Overflow
<1> QED
  BY <1>1, <1>7, <1>8 DEF Sound, Posted, Cut

\* The map of a new life is empty: it is silent about nothing.
LEMMA SensorRestartsSound ==
  ASSUME IInv, NEW h \in Host, SensorRestarts(h)
  PROVE  Sound(h)'
<1>0. Types
  BY TwoParts DEF IInv
<1>1. seen'[h] = {} /\ lost'[h] = {} /\ request'[h] = "none"
  BY <1>0 DEF SensorRestarts, Types
<1> QED
  BY <1>1 DEF Sound, Covered, Posted, Overflow, Cut

\* A host's step keeps what is known of every host.
LEMMA HostSound ==
  ASSUME IInv, NEW h \in Host, HostStep(h), NEW g \in Host
  PROVE  Sound(g)'
<1>1. CASE g = h
  <2>1. ASSUME NEW t \in Tuple, Hit(h, t) \/ Miss(h, t) PROVE Sound(g)'
    BY <1>1, <2>1, HitSound, MissSound
  <2>2. CASE Consume(h) \/ Answered(h) \/ SensorRestarts(h)
    BY <1>1, <2>2, ConsumeSound, AnsweredSound, SensorRestartsSound
  <2>3. CASE Send(h) \/ SendLost(h) \/ GiveUp(h)
    BY <1>1, <2>3, SendSound
  <2> QED
    BY <2>1, <2>2, <2>3 DEF HostStep
<1>2. CASE g # h
  <2>1. Aside(g) /\ Sound(g)
    BY <1>2, OthersAside DEF IInv
  <2> QED
    BY <2>1, AsideSound
<1> QED
  BY <1>1, <1>2

\* What is ingested is known from now on, and nothing else is forgotten.
LEMMA ProposesKnown ==
  ASSUME Types, NEW h \in Host, NEW t \in Tuple, Proposes(h, t), NEW g \in Host
  PROVE  /\ Known(h, t)'
         /\ \A u \in Tuple : Known(g, u) => Known(g, u)'
         /\ lost'[g] \subseteq lost[g]
<1>1. decided' = decided /\ \A u \in Tuple : g \in queue[u] => g \in queue'[u]
  <2>1. queue' = queue \/ queue' = [queue EXCEPT ![t] = queue[t] \union {h}]
    BY DEF Proposes
  <2>2. queue \in [Tuple -> SUBSET Host]
    BY DEF Types
  <2>3. decided' = decided
    BY DEF Proposes
  <2> QED
    BY <2>1, <2>2, <2>3
<1>2. t \in decided' \/ h \in queue'[t]
  BY DEF Types, Proposes, host
<1>3. \A u : u # t \/ g # h => (u \in lost'[g] <=> u \in lost[g]) /\ (u \in gone'[g] <=> u \in gone[g])
  <2>1. lost' = [lost EXCEPT ![h] = @ \ {t}] /\ gone' = [gone EXCEPT ![h] = @ \ {t}]
    BY DEF Proposes
  <2>2. lost \in [Host -> SUBSET Tuple] /\ gone \in [Host -> SUBSET Tuple]
    BY DEF Types
  <2>3. CASE g = h
    <3>1. lost'[g] = lost[g] \ {t} /\ gone'[g] = gone[g] \ {t}
      BY <2>1, <2>2, <2>3
    <3> QED
      BY <2>3, <3>1
  <2>4. CASE g # h
    BY <2>1, <2>2, <2>4
  <2> QED
    BY <2>3, <2>4
<1>4. Known(h, t)'
  BY <1>2 DEF Known, Shown
<1>5. \A u \in Tuple : Known(g, u) => Known(g, u)'
  BY <1>1, <1>3, <1>4 DEF Known, Shown
<1>6. lost'[g] \subseteq lost[g]
  BY DEF Types, Proposes
<1> QED
  BY <1>4, <1>5, <1>6

\* The steps of Ingest: what leaves the batch is known.
LEMMA IngestSound ==
  ASSUME IInv, NEW h \in Host, NEW t \in Tuple, Ingest(h, t) \/ LateIngest(h, t), NEW g \in Host
  PROVE  Sound(g)'
<1>0. Types /\ Sound(g) /\ seen[g] \subseteq Tuple
  <2>1. Types /\ Sound(g)
    BY TwoParts DEF IInv
  <2> QED
    BY <2>1 DEF Types
<1>1. Proposes(h, t)
  BY DEF Ingest, LateIngest
<1>2. UNCHANGED <<seen, log, read, head, request, from, to, overflown>>
  BY <1>1 DEF Proposes, host
<1>3. Known(h, t)' /\ (\A u \in Tuple : Known(g, u) => Known(g, u)') /\ lost'[g] \subseteq lost[g]
  BY <1>0, <1>1, ProposesKnown
<1>4. \A u \in todo[g] : u \in todo'[g] \/ Known(g, u)'
  <2>1. CASE Ingest(h, t)
    <3>1. todo' = [todo EXCEPT ![h] = @ \ {t}]
      BY <2>1 DEF Ingest
    <3>2. todo \in [Host -> SUBSET Tuple]
      BY <1>0 DEF Types
    <3>3. g # h => todo'[g] = todo[g]
      BY <3>1, <3>2
    <3>4. todo'[h] = todo[h] \ {t}
      BY <3>1, <3>2
    <3> QED
      BY <1>3, <3>3, <3>4
  <2>2. CASE LateIngest(h, t)
    BY <2>2 DEF LateIngest
  <2> QED
    BY <2>1, <2>2
<1>5. Covered(g, head[g])'
  <2>1. \A u \in seen[g] : Known(g, u)' \/ u \in Window(g, head[g], Len(log[g]))
    BY <1>0, <1>3 DEF Sound, Covered
  <2> QED
    BY <1>2, <2>1 DEF Covered, Window
<1>6. Posted(g)'
  <2>1. request[g] = "sent" =>
          \A u \in seen[g] : \/ Known(g, u)' \/ u \in todo'[g]
                             \/ u \in Window(g, Larger(head[g], to[g]), Len(log[g]))
    BY <1>0, <1>3, <1>4 DEF Sound, Posted
  <2> QED
    BY <1>2, <2>1 DEF Posted, Window, Larger
<1> QED
  BY <1>0, <1>2, <1>3, <1>5, <1>6 DEF Sound, Overflow, Cut

\* The reviewer's steps: what is dismissed is gone.
LEMMA ReviewSound ==
  ASSUME IInv, NEW g \in Host,
         \/ \E t \in Tuple : Decide(t)
         \/ \E tuples \in SUBSET Tuple : Dismiss(tuples)
  PROVE  Sound(g)'
<1>0. Types /\ Sound(g) /\ seen[g] \subseteq Tuple
  <2>1. Types /\ Sound(g)
    BY TwoParts DEF IInv
  <2> QED
    BY <2>1 DEF Types
<1>1. UNCHANGED <<seen, log, read, head, request, from, to, todo, lost, overflown>>
  BY DEF Decide, Dismiss, host, past
<1>2. \A u \in Tuple : Known(g, u) => Known(g, u)'
  <2>1. ASSUME NEW t \in Tuple, Decide(t) PROVE \A u \in Tuple : Known(g, u) => Known(g, u)'
    BY <2>1 DEF Decide, Known, Shown, past
  <2>2. ASSUME NEW tuples \in SUBSET Tuple, Dismiss(tuples)
        PROVE  \A u \in Tuple : Known(g, u) => Known(g, u)'
    <3>1. decided' = decided /\ lost' = lost
      BY <2>2 DEF Dismiss
    <3>2. \A u \in Tuple : g \in queue[u] => g \in queue'[u] \/ u \in gone'[g]
      BY <2>2 DEF Dismiss, Remove
    <3>3. \A u \in Tuple : u \in gone[g] => u \in gone'[g]
      BY <2>2 DEF Dismiss, Remove
    <3> QED
      BY <3>1, <3>2, <3>3 DEF Known, Shown
  <2> QED
    BY <2>1, <2>2
<1>3. Covered(g, head[g])'
  <2>1. \A u \in seen[g] : Known(g, u)' \/ u \in Window(g, head[g], Len(log[g]))
    BY <1>0, <1>2 DEF Sound, Covered
  <2> QED
    BY <1>1, <2>1 DEF Covered, Window
<1>4. Posted(g)'
  <2>1. request[g] = "sent" =>
          \A u \in seen[g] : \/ Known(g, u)' \/ u \in todo[g]
                             \/ u \in Window(g, Larger(head[g], to[g]), Len(log[g]))
    BY <1>0, <1>2 DEF Sound, Posted
  <2> QED
    BY <1>1, <2>1 DEF Posted, Window, Larger
<1> QED
  BY <1>0, <1>1, <1>3, <1>4 DEF Sound, Overflow, Cut

\* A restart of central loses the queue and the requests, and the reverted decisions.
LEMMA CentralRestartsSound ==
  ASSUME IInv, NEW tuples \in SUBSET Tuple, CentralRestarts(tuples), NEW g \in Host
  PROVE  Sound(g)'
<1>0. Types /\ Sound(g) /\ seen[g] \subseteq Tuple
  <2>1. Types /\ Sound(g)
    BY TwoParts DEF IInv
  <2> QED
    BY <2>1 DEF Types
<1>1. UNCHANGED <<seen, log, read, head, from, to, lost, overflown>>
  BY DEF CentralRestarts
<1>2. \A u \in Tuple : Known(g, u) => Known(g, u)'
  <2>1. \A u \in Tuple : g \in queue[u] => u \in gone'[g]
    BY DEF CentralRestarts
  <2>2. \A u \in Tuple : u \in gone[g] => u \in gone'[g]
    BY DEF CentralRestarts
  <2>3. \A u \in Tuple : u \in decided => u \in decided' \/ u \in gone'[g]
    BY DEF CentralRestarts
  <2> QED
    BY <1>1, <2>1, <2>2, <2>3 DEF Known, Shown
<1>3. request'[g] # "sent" /\ (request'[g] # "none" => request[g] # "none")
  BY <1>0 DEF CentralRestarts, Types
<1>4. Covered(g, head[g])'
  <2>1. \A u \in seen[g] : Known(g, u)' \/ u \in Window(g, head[g], Len(log[g]))
    BY <1>0, <1>2 DEF Sound, Covered
  <2> QED
    BY <1>1, <2>1 DEF Covered, Window
<1> QED
  BY <1>0, <1>1, <1>3, <1>4 DEF Sound, Posted, Overflow, Cut

\* A step keeps the invariant.
LEMMA SoundStep ==
  ASSUME IInv, [Next]_vars
  PROVE  IInv'
<1>1. TypeOK'
  BY TypeStep DEF IInv
<1>2. ASSUME NEW g \in Host PROVE Sound(g)'
  <2>1. ASSUME NEW h \in Host, HostStep(h) PROVE Sound(g)'
    BY <2>1, HostSound
  <2>2. CASE CentralStep
    <3>1. ASSUME NEW h \in Host, NEW t \in Tuple, Ingest(h, t) \/ LateIngest(h, t)
          PROVE  Sound(g)'
      BY <3>1, IngestSound
    <3>2. CASE (\E t \in Tuple : Decide(t)) \/ (\E tuples \in SUBSET Tuple : Dismiss(tuples))
      BY <3>2, ReviewSound
    <3>3. ASSUME NEW tuples \in SUBSET Tuple, CentralRestarts(tuples) PROVE Sound(g)'
      BY <3>3, CentralRestartsSound
    <3> QED
      BY <2>2, <3>1, <3>2, <3>3 DEF CentralStep
  <2>3. CASE UNCHANGED vars
    <3>1. UNCHANGED <<host, central, past>>
      BY <2>3 DEF vars
    <3>2. Aside(g) /\ Sound(g)
      BY <3>1 DEF Aside, Still, IInv, host, central, past
    <3> QED
      BY <3>2, AsideSound
  <2>4. TypeOK
    BY DEF IInv
  <2> QED
    BY <2>1, <2>2, <2>3, <2>4, Steps
<1> QED
  BY <1>1, <1>2 DEF IInv

\* The invariant holds in every state.
LEMMA SoundAlways == Spec => []IInv
<1> QED
  BY InitSound, SoundStep, PTL DEF Spec

\* Of every tuple a host's kernel is silent about the decision is made, or the
\* proposal names the host, or its report is in the ring, the buffer or the
\* batch: nothing between probe and page forgets it but a full ring or buffer,
\* a dismissal, and a restart of central.
THEOREM SilentKnown == Spec => []SilentIsKnown
<1>1. IInv => SilentIsKnown
  BY DEF IInv, Sound, Covered, Known, SilentIsKnown
<1> QED
  BY <1>1, SoundAlways, PTL

\* A report is dropped only on a host whose ring or upload buffer was full: an
\* answer that removes more than was sent needs an eviction during the request.
THEOREM LossOverflow == Spec => []LossNeedsOverflow
<1>1. IInv => LossNeedsOverflow
  BY DEF IInv, Sound, Overflow, LossNeedsOverflow
<1> QED
  BY <1>1, SoundAlways, PTL

=============================================================================
