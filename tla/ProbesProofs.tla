----------------------------- MODULE ProbesProofs -----------------------------
(* Proofs about Probes, for every set of threads, processes, cgroups and   *)
(* endpoints, every capacity and any number of operations.                 *)
EXTENDS Probes, FiniteSetTheorems, TLAPS

-----------------------------------------------------------------------------
(* The inductive invariant.                                                *)

\* 1 if the tuple is in the dedup map, and 1 if the thread is about to report it.
InMap(t)      == IF t \in seen THEN 1 ELSE 0
Pending(th, t) == IF pc[th] = "reserve" /\ job[th] = t THEN 1 ELSE 0

\* What allows a thread to report the tuple once more: the tuple was evicted,
\* or the thread could not insert it.
Excuses(th, t) == evicted[t] + unmarked[th][t]

\* Every report of a thread but one has its excuse, and the one is in the map
\* still.
Accounted ==
  \A th \in Thread, t \in Tuple : reports[th][t] + Pending(th, t) <= Excuses(th, t) + InMap(t)

\* A thread that missed the tuple has an excuse to spare.
MissPaid ==
  \A th \in Thread : pc[th] = "insert" => reports[th][job[th]] <= Excuses(th, job[th])

IInv == TypeOK /\ Accounted /\ MissPaid /\ SeenIsReported

-----------------------------------------------------------------------------
(* Type correctness, one lemma for each kind of step.                      *)

\* What an update of the dedup map leaves.
LEMMA UpdateType ==
  ASSUME TypeOK, NEW tuples \in SUBSET Tuple, Update(tuples)
  PROVE  /\ seen' \subseteq Tuple
         /\ evicted' \in [Tuple -> Nat]
         /\ seen' \subseteq seen \union tuples
         /\ tuples \subseteq seen'
         /\ \A t \in Tuple : evicted[t] <= evicted'[t]
         /\ \A t \in Tuple : evicted[t] + InMap(t) <= evicted'[t] + InMap(t)'
<1>1. PICK victims \in SUBSET seen :
        /\ seen' = (seen \ victims) \union tuples
        /\ evicted' = [v \in Tuple |-> IF v \in victims THEN evicted[v] + 1 ELSE evicted[v]]
  BY DEF Update
<1>2. evicted \in [Tuple -> Nat] /\ seen \subseteq Tuple
  BY DEF TypeOK
<1>3. \A t \in Tuple : evicted[t] \in Nat
  BY <1>2
<1>4. evicted' \in [Tuple -> Nat]
  BY <1>1, <1>3
<1>5. \A t \in Tuple : evicted'[t] = IF t \in victims THEN evicted[t] + 1 ELSE evicted[t]
  BY <1>1
<1>6. \A t \in Tuple : evicted[t] <= evicted'[t]
  BY <1>3, <1>5
<1>7. \A t \in Tuple : evicted[t] + InMap(t) <= evicted'[t] + InMap(t)'
  BY <1>1, <1>3, <1>5 DEF InMap
<1> QED
  BY <1>1, <1>2, <1>4, <1>6, <1>7

\* A record that a probe reserves.
LEMMA ReserveType ==
  ASSUME TypeOK, NEW th \in Thread, NEW kind \in {"conn", "exec", "raw_socket"}, Reserve(kind, th)
  PROVE  /\ ring' \in Seq(Record)
         /\ Len(ring') = Len(ring) + 1
         /\ Len(ring') - read <= RingCap
         /\ \A i \in 1..Len(ring) : ring'[i] = ring[i]
         /\ ring'[Len(ring) + 1].kind = kind /\ ring'[Len(ring) + 1].tuple = job[th]
         /\ ring'[Len(ring) + 1].proc = ProcOf[th] /\ ring'[Len(ring) + 1].image = image[ProcOf[th]]
         /\ kind # "exec" => ring'[Len(ring) + 1].known = known[ProcOf[th]]
<1> DEFINE p == ProcOf[th]
           r == [kind |-> kind, thread |-> th, proc |-> p, tuple |-> job[th], image |-> image[p],
                 known |-> IF kind = "exec" THEN "yes" ELSE known[p], state |-> "busy"]
<1>0. p \in Proc
  BY ProcAssumption
<1>1. ring' = Append(ring, r) /\ ~ RingFull
  BY DEF Reserve
<1>2. job[th] \in Tuple \union {None} /\ image[p] \in Path \union {None} /\ known[p] \in {"yes", "no"}
  BY <1>0 DEF TypeOK
<1>3. r \in Record
  BY <1>0, <1>2 DEF Record
<1>4. ring \in Seq(Record) /\ read \in 0..Len(ring)
  BY DEF TypeOK
<1>5. RingCap \in Nat
  BY BoundAssumption
<1>6. ring' \in Seq(Record) /\ Len(ring') = Len(ring) + 1
  BY <1>1, <1>3, <1>4
<1>7. /\ \A i \in 1..Len(ring) : ring'[i] = ring[i]
      /\ ring'[Len(ring) + 1] = r
  BY <1>1, <1>3, <1>4
<1>8. Len(ring') - read <= RingCap
  BY <1>1, <1>4, <1>5, <1>6 DEF RingFull
<1> QED
  BY <1>6, <1>7, <1>8

\* What a submission leaves of the ring.
LEMMA SubmitType ==
  ASSUME TypeOK, NEW th \in Thread, Submit(th)
  PROVE  /\ ring' \in Seq(Record) /\ Len(ring') = Len(ring)
         /\ \A i \in 1..Len(ring) : ring'[i].kind = ring[i].kind /\ ring'[i].tuple = ring[i].tuple
         /\ \A i \in 1..Len(ring) : /\ ring'[i].proc = ring[i].proc /\ ring'[i].image = ring[i].image
                                     /\ ring'[i].known = ring[i].known
<1>1. ring \in Seq(Record) /\ Len(ring) \in Nat
  BY DEF TypeOK
<1>2. ring' = [i \in 1..Len(ring) |->
                 IF ring[i].thread = th THEN [ring[i] EXCEPT !.state = "ready"] ELSE ring[i]]
  BY DEF Submit
<1>3. \A r \in Record : /\ [r EXCEPT !.state = "ready"] \in Record
                        /\ [r EXCEPT !.state = "ready"].kind = r.kind
                        /\ [r EXCEPT !.state = "ready"].tuple = r.tuple
                        /\ [r EXCEPT !.state = "ready"].proc = r.proc
                        /\ [r EXCEPT !.state = "ready"].image = r.image
                        /\ [r EXCEPT !.state = "ready"].known = r.known
  BY DEF Record
<1>4. \A i \in 1..Len(ring) : ring[i] \in Record
  BY <1>1
<1>5. \A i \in 1..Len(ring) : ring'[i] =
        IF ring[i].thread = th THEN [ring[i] EXCEPT !.state = "ready"] ELSE ring[i]
  BY <1>2
<1>6. \A i \in 1..Len(ring) : ring'[i] \in Record
  BY <1>3, <1>4, <1>5
<1>7. ring' \in Seq(Record) /\ Len(ring') = Len(ring)
  BY <1>1, <1>2, <1>6
<1> QED
  BY <1>3, <1>4, <1>5, <1>7

LEMMA InitInv == Init => IInv
<1> SUFFICES ASSUME Init PROVE IInv
  OBVIOUS
<1>1. TypeOK
  <2>1. Held = {}
    BY DEF Init, Held
  <2>2. IsFiniteSet(Held) /\ Cardinality(Held) <= LineageCap
    BY <2>1, FS_EmptySet, BoundAssumption
  <2> QED
    BY <2>2, BoundAssumption DEF Init, TypeOK, Point
<1>2. Accounted
  BY DEF Init, Accounted, Excuses, InMap, Pending
<1>3. MissPaid /\ SeenIsReported
  BY DEF Init, MissPaid, SeenIsReported
<1> QED
  BY <1>1, <1>2, <1>3 DEF IInv

\* The steps that begin an operation.
LEMMA BeginType ==
  ASSUME TypeOK, NEW th \in Thread,
         \/ \E e \in Endpoint : Connect(th, e)
         \/ \E path \in Path : Exec(th, path)
         \/ \E s \in Socket : CreateSocket(th, s)
  PROVE  TypeOK'
<1> USE DEF TypeOK, Goto, Begins, Point, Held, sensor
<1>1. ops' \in 0..MaxOps
  BY BoundAssumption DEF Connect, Exec, CreateSocket
<1>2. CASE \E e \in Endpoint : Connect(th, e)
  <2>1. PICK e \in Endpoint : Connect(th, e)
    BY <1>2
  <2>2. TupleOf(th, e) \in Tuple
    <3>1. ProcOf[th] \in Proc
      BY ProcAssumption
    <3> QED
      BY <3>1, ProcAssumption DEF TupleOf, Tuple
  <2> QED
    BY <1>1, <2>1, <2>2 DEF Connect
<1>3. CASE \E path \in Path : Exec(th, path)
  <2>1. ProcOf[th] \in Proc
    BY ProcAssumption
  <2> QED
    BY <1>1, <1>3, <2>1 DEF Exec
<1>4. CASE \E s \in Socket : CreateSocket(th, s)
  BY <1>1, <1>4 DEF CreateSocket
<1> QED
  BY <1>2, <1>3, <1>4

\* The steps of the probes.
LEMMA ProbeType ==
  ASSUME TypeOK, NEW th \in Thread, Probe(th)
  PROVE  TypeOK'
<1> USE DEF TypeOK, Goto, Point, Held, sensor
<1>0. ProcOf[th] \in Proc
  BY ProcAssumption
<1>1. CASE Hit(th)
  <2>1. seen' \subseteq Tuple /\ evicted' \in [Tuple -> Nat]
    BY <1>1, UpdateType DEF Hit
  <2> QED
    BY <1>1, <2>1 DEF Hit
<1>2. CASE Miss(th)
  BY <1>2 DEF Miss
<1>3. CASE MarkSeen(th)
  <2>1. seen' \subseteq Tuple /\ evicted' \in [Tuple -> Nat]
    BY <1>3, UpdateType DEF MarkSeen, Insert
  <2> QED
    BY <1>3, <2>1 DEF MarkSeen
<1>10. CASE MarkFails(th)
  <2>1. seen' \subseteq Tuple /\ evicted' \in [Tuple -> Nat]
    BY <1>10, UpdateType DEF MarkFails
  <2>2. unmarked' \in [Thread -> [Tuple -> Nat]]
    BY <1>10 DEF MarkFails
  <2> QED
    BY <1>10, <2>1, <2>2 DEF MarkFails
<1>4. CASE ReserveConn(th)
  <2>1. ring' \in Seq(Record) /\ read \in 0..Len(ring') /\ Len(ring') - read <= RingCap
    BY <1>4, ReserveType DEF ReserveConn
  <2>2. reports' \in [Thread -> [Tuple -> Nat]]
    BY <1>4 DEF ReserveConn
  <2> QED
    BY <1>4, <2>1, <2>2 DEF ReserveConn
<1>5. CASE DropConn(th)
  BY <1>5 DEF DropConn
<1>6. CASE ReserveExec(th)
  <2>1. ring' \in Seq(Record) /\ read \in 0..Len(ring') /\ Len(ring') - read <= RingCap
    BY <1>6, ReserveType DEF ReserveExec
  <2> QED
    BY <1>0, <1>6, <2>1 DEF ReserveExec
<1>7. CASE ReserveRaw(th)
  <2>1. ring' \in Seq(Record) /\ read \in 0..Len(ring') /\ Len(ring') - read <= RingCap
    BY <1>7, ReserveType DEF ReserveRaw
  <2> QED
    BY <1>7, <2>1 DEF ReserveRaw
<1>8. CASE DropOther(th)
  BY <1>8 DEF DropOther
<1>9. CASE Submit(th)
  <2>1. ring' \in Seq(Record) /\ Len(ring') = Len(ring)
    BY <1>9, SubmitType
  <2> QED
    BY <1>9, <2>1 DEF Submit
<1> QED
  BY <1>1, <1>2, <1>3, <1>4, <1>5, <1>6, <1>7, <1>8, <1>9, <1>10 DEF Probe

\* The lineage table with one entry more, after one was dropped or not.
LEMMA HeldMore ==
  ASSUME TypeOK, NEW room \in [Proc -> Path \union {None}], NEW p \in Proc, NEW x,
         lineage' = [room EXCEPT ![p] = x],
         \/ room = lineage /\ Cardinality(Held) < LineageCap
         \/ \E v \in Held : room = [lineage EXCEPT ![v] = None]
  PROVE  IsFiniteSet(Held') /\ Cardinality(Held') <= LineageCap
<1> DEFINE left == {q \in Proc : room[q] # None}
<1>1. IsFiniteSet(Held) /\ Cardinality(Held) <= LineageCap /\ lineage \in [Proc -> Path \union {None}]
  BY DEF TypeOK
<1>2. LineageCap \in Nat /\ Cardinality(Held) \in Nat
  BY <1>1, BoundAssumption, FS_CardinalityType
<1>3. IsFiniteSet(left) /\ Cardinality(left) \in Nat /\ Cardinality(left) < LineageCap
  <2>1. CASE room = lineage /\ Cardinality(Held) < LineageCap
    BY <1>1, <1>2, <2>1 DEF Held
  <2>2. ASSUME NEW v \in Held, room = [lineage EXCEPT ![v] = None]
        PROVE  IsFiniteSet(left) /\ Cardinality(left) \in Nat /\ Cardinality(left) < LineageCap
    <3>1. left = Held \ {v}
      BY <1>1, <2>2 DEF Held
    <3>2. IsFiniteSet(left) /\ Cardinality(left) = Cardinality(Held) - 1
      BY <1>1, <3>1, FS_RemoveElement
    <3>3. Cardinality(left) \in Nat
      BY <3>2, FS_CardinalityType
    <3> QED
      BY <1>1, <1>2, <3>2, <3>3
  <2> QED
    BY <2>1, <2>2
<1>4. Held' \subseteq left \union {p}
  BY DEF Held
<1>5. IsFiniteSet(left \union {p}) /\ Cardinality(left \union {p}) <= LineageCap
  <2>1. /\ IsFiniteSet(left \union {p})
        /\ Cardinality(left \union {p}) \in {Cardinality(left), Cardinality(left) + 1}
    BY <1>3, FS_AddElement
  <2> QED
    BY <1>2, <1>3, <2>1
<1>6. IsFiniteSet(Held') /\ Cardinality(Held') <= Cardinality(left \union {p})
  BY <1>4, <1>5, FS_Subset
<1>7. Cardinality(Held') \in Nat /\ Cardinality(left \union {p}) \in Nat
  BY <1>5, <1>6, FS_CardinalityType
<1> QED
  BY <1>2, <1>5, <1>6, <1>7

\* The steps of the sensor.
LEMMA ConsumeType ==
  ASSUME TypeOK, Consume
  PROVE  TypeOK'
<1>1. /\ read \in Nat /\ Len(ring) \in Nat /\ read < Len(ring) /\ ring \in Seq(Record)
      /\ ring[read + 1] \in Record
  BY DEF Consume, ConsumeExec, ConsumeOther, Available, TypeOK
<1>2. /\ read' \in 0..Len(ring) /\ Len(ring) - read' <= RingCap /\ read' = read + 1
      /\ UNCHANGED <<kernel, ops>>
  BY <1>1, BoundAssumption DEF Consume, ConsumeExec, ConsumeOther, TypeOK
<1>3. /\ lineage' \in [Proc -> Path \union {None}] /\ forgot' \in Nat
      /\ IsFiniteSet(Held') /\ Cardinality(Held') <= LineageCap
  <2>1. CASE ConsumeOther
    BY <2>1 DEF ConsumeOther, TypeOK, Held
  <2>2. CASE ConsumeExec
    <3>1. ring[read + 1].proc \in Proc /\ ring[read + 1].image \in Path \union {None}
      BY <1>1 DEF Record
    <3>2. lineage \in [Proc -> Path \union {None}] /\ forgot \in Nat
      BY DEF TypeOK
    <3>3. CASE /\ Cardinality(Held) < LineageCap
               /\ lineage' = [lineage EXCEPT ![ring[read + 1].proc] = ring[read + 1].image] /\ UNCHANGED forgot
      <4>1. IsFiniteSet(Held') /\ Cardinality(Held') <= LineageCap
        BY <3>1, <3>2, <3>3, HeldMore
      <4> QED
        BY <3>1, <3>2, <3>3, <4>1
    <3>4. ASSUME NEW v \in Held, forgot' = forgot + 1,
                 lineage' = [lineage EXCEPT ![v] = None, ![ring[read + 1].proc] = ring[read + 1].image]
          PROVE  /\ lineage' \in [Proc -> Path \union {None}] /\ forgot' \in Nat
                 /\ IsFiniteSet(Held') /\ Cardinality(Held') <= LineageCap
      <4> DEFINE room == [lineage EXCEPT ![v] = None]
      <4>1. room \in [Proc -> Path \union {None}] /\ lineage' = [room EXCEPT ![ring[read + 1].proc] = ring[read + 1].image]
        BY <3>2, <3>4
      <4>2. IsFiniteSet(Held') /\ Cardinality(Held') <= LineageCap
        BY <3>1, <4>1, HeldMore
      <4> QED
        BY <3>1, <3>2, <3>4, <4>1, <4>2
    <3> QED
      BY <2>2, <3>3, <3>4, Zenon DEF ConsumeExec
  <2> QED
    BY <2>1, <2>2 DEF Consume
<1>4. joined' \in Seq(Path \union {None}) /\ Len(joined') = read'
  <2>1. joined \in Seq(Path \union {None}) /\ Len(joined) = read
    BY DEF TypeOK
  <2>2. PICK x \in Path \union {None} : joined' = Append(joined, x)
    <3>1. \A q \in Proc : lineage[q] \in Path \union {None}
      BY DEF TypeOK
    <3>2. ring[read + 1].proc \in Proc
      BY <1>1 DEF Record
    <3> QED
      BY <3>1, <3>2 DEF Consume, ConsumeExec, ConsumeOther
  <2> QED
    BY <1>2, <2>1, <2>2
<1> QED
  BY <1>2, <1>3, <1>4 DEF TypeOK, kernel

LEMMA NextType == TypeOK /\ [Next]_vars => TypeOK'
<1> SUFFICES ASSUME TypeOK, [Next]_vars PROVE TypeOK'
  OBVIOUS
<1>1. CASE UNCHANGED vars
  BY <1>1 DEF vars, kernel, sensor, TypeOK, Held
<1>2. CASE Consume
  BY <1>2, ConsumeType
<1>3. CASE \E th \in Thread : Probe(th)
  BY <1>3, ProbeType
<1>4. ASSUME NEW th \in Thread,
             \/ \E e \in Endpoint : Connect(th, e)
             \/ \E path \in Path : Exec(th, path)
             \/ \E s \in Socket : CreateSocket(th, s)
      PROVE  TypeOK'
  BY <1>4, BeginType
<1> QED
  BY <1>1, <1>2, <1>3, <1>4 DEF Next

-----------------------------------------------------------------------------
(* Reports are bounded by evictions.                                       *)

\* The quantities of the account are numbers.
LEMMA Numbers ==
  ASSUME TypeOK, NEW th \in Thread, NEW t \in Tuple
  PROVE  /\ reports[th][t] \in Nat /\ evicted[t] \in Nat /\ unmarked[th][t] \in Nat
         /\ InMap(t) \in {0, 1} /\ Pending(th, t) \in {0, 1}
BY DEF TypeOK, InMap, Pending

\* A step that reserves nothing for a connection, marks nothing, and lets no
\* thread miss a tuple keeps the account.
LEMMA QuietAccount ==
  ASSUME TypeOK, TypeOK', Accounted, MissPaid,
         reports' = reports, unmarked' = unmarked,
         \A t \in Tuple : evicted[t] <= evicted'[t],
         \A t \in Tuple : evicted[t] + InMap(t) <= evicted'[t] + InMap(t)',
         \A q \in Thread : pc'[q] \in {"insert", "reserve"} => pc'[q] = pc[q] /\ job'[q] = job[q]
  PROVE  Accounted' /\ MissPaid'
<1>1. ASSUME NEW th \in Thread, NEW t \in Tuple
      PROVE  reports'[th][t] + Pending(th, t)' <= Excuses(th, t)' + InMap(t)'
  <2>1. Pending(th, t)' <= Pending(th, t)
    BY DEF Pending
  <2>2. reports[th][t] + Pending(th, t) <= evicted[t] + unmarked[th][t] + InMap(t)
    BY DEF Accounted, Excuses
  <2>3. evicted[t] + InMap(t) <= evicted'[t] + InMap(t)'
    OBVIOUS
  <2>4. /\ reports[th][t] \in Nat /\ evicted[t] \in Nat /\ evicted'[t] \in Nat /\ unmarked[th][t] \in Nat
        /\ InMap(t) \in {0, 1} /\ InMap(t)' \in {0, 1}
        /\ Pending(th, t) \in {0, 1} /\ Pending(th, t)' \in {0, 1}
    BY DEF TypeOK, InMap, Pending
  <2> QED
    BY <2>1, <2>2, <2>3, <2>4 DEF Excuses
<1>2. ASSUME NEW th \in Thread, pc'[th] = "insert"
      PROVE  reports'[th][job'[th]] <= Excuses(th, job[th])'
  <2> DEFINE t == job[th]
  <2>1. pc[th] = "insert" /\ job'[th] = t
    BY <1>2
  <2>2. t \in Tuple
    BY <2>1 DEF TypeOK
  <2>3. reports[th][t] <= evicted[t] + unmarked[th][t] /\ evicted[t] <= evicted'[t]
    BY <2>1, <2>2 DEF MissPaid, Excuses
  <2>4. reports[th][t] \in Nat /\ evicted[t] \in Nat /\ evicted'[t] \in Nat /\ unmarked[th][t] \in Nat
    BY <2>2 DEF TypeOK
  <2> HIDE DEF t
  <2> QED
    BY <2>1, <2>3, <2>4 DEF Excuses
<1> QED
  BY <1>1, <1>2 DEF Accounted, MissPaid

\* The four steps that the account is about.
LEMMA MissAccount ==
  ASSUME TypeOK, Accounted, MissPaid, NEW th \in Thread, Miss(th)
  PROVE  Accounted' /\ MissPaid'
<1>1. /\ pc[th] = "lookup" /\ job[th] \notin seen /\ job[th] \in Tuple
      /\ UNCHANGED <<seen, job, evicted, unmarked, reports>>
      /\ pc' = [pc EXCEPT ![th] = "insert"]
  BY DEF Miss, Goto, TypeOK
<1>2. /\ pc'[th] = "insert"
      /\ \A q \in Thread : q # th => pc'[q] = pc[q]
  BY <1>1 DEF TypeOK
<1>3. \A q \in Thread, t \in Tuple : Pending(q, t)' = Pending(q, t)
  BY <1>1, <1>2 DEF Pending
<1>4. Accounted'
  BY <1>1, <1>3 DEF Accounted, Excuses, InMap
<1>5. reports[th][job[th]] <= Excuses(th, job[th])
  <2>1. reports[th][job[th]] + Pending(th, job[th]) <= evicted[job[th]] + unmarked[th][job[th]] + InMap(job[th])
    BY <1>1 DEF Accounted, Excuses
  <2>2. Pending(th, job[th]) = 0 /\ InMap(job[th]) = 0
    BY <1>1 DEF Pending, InMap
  <2> QED
    BY <1>1, <2>1, <2>2, Numbers DEF Excuses
<1> QED
  BY <1>1, <1>2, <1>4, <1>5 DEF MissPaid, Excuses

\* A thread that is done with the insertion: the tuple is in the map, or the
\* failure is one more excuse.
LEMMA InsertAccount ==
  ASSUME TypeOK, TypeOK', Accounted, MissPaid, NEW th \in Thread, MarkSeen(th) \/ MarkFails(th)
  PROVE  Accounted' /\ MissPaid'
<1> DEFINE s == job[th]
<1>1. /\ pc[th] = "insert" /\ s \in Tuple
      /\ UNCHANGED <<job, reports>> /\ pc' = [pc EXCEPT ![th] = "reserve"]
  BY DEF MarkSeen, MarkFails, Goto, TypeOK
<1>2. pc'[th] = "reserve" /\ \A q \in Thread : q # th => pc'[q] = pc[q]
  BY <1>1 DEF TypeOK
<1>3. /\ \A t \in Tuple : evicted[t] <= evicted'[t]
      /\ \A t \in Tuple : evicted[t] + InMap(t) <= evicted'[t] + InMap(t)'
  <2>1. CASE MarkSeen(th)
    BY <1>1, <2>1, UpdateType DEF MarkSeen, Insert
  <2>2. CASE MarkFails(th)
    BY <2>2, UpdateType DEF MarkFails
  <2> QED
    BY <2>1, <2>2
<1>4. /\ \A q \in Thread, t \in Tuple : unmarked[q][t] <= unmarked'[q][t]
      /\ evicted'[s] + unmarked'[th][s] + InMap(s)' >= evicted[s] + unmarked[th][s] + 1
  <2>1. CASE MarkSeen(th)
    <3>1. s \in seen' /\ unmarked' = unmarked
      BY <1>1, <2>1, UpdateType DEF MarkSeen, Insert
    <3>2. InMap(s)' = 1
      BY <1>1, <3>1 DEF InMap
    <3>3. \A q \in Thread, t \in Tuple : unmarked[q][t] \in Nat /\ evicted[t] \in Nat /\ evicted'[t] \in Nat
      BY DEF TypeOK
    <3> QED
      BY <1>1, <1>3, <3>1, <3>2, <3>3
  <2>2. CASE MarkFails(th)
    <3>1. unmarked' = [unmarked EXCEPT ![th][s] = @ + 1]
      BY <2>2 DEF MarkFails
    <3>2. /\ \A q \in Thread, t \in Tuple : unmarked[q][t] \in Nat
          /\ \A t \in Tuple : evicted[t] \in Nat /\ evicted'[t] \in Nat
          /\ unmarked \in [Thread -> [Tuple -> Nat]]
          /\ InMap(s)' \in {0, 1}
      BY DEF TypeOK, InMap
    <3>3. \A q \in Thread, t \in Tuple :
            unmarked'[q][t] = IF q = th /\ t = s THEN unmarked[q][t] + 1 ELSE unmarked[q][t]
      BY <1>1, <3>1, <3>2
    <3> QED
      BY <1>1, <1>3, <3>2, <3>3
  <2> QED
    BY <2>1, <2>2
<1>5. ASSUME NEW q \in Thread, NEW t \in Tuple
      PROVE  reports'[q][t] + Pending(q, t)' <= Excuses(q, t)' + InMap(t)'
  <2>1. /\ reports[q][t] \in Nat /\ evicted[t] \in Nat /\ evicted'[t] \in Nat
        /\ unmarked[q][t] \in Nat /\ unmarked'[q][t] \in Nat
        /\ InMap(t) \in {0, 1} /\ InMap(t)' \in {0, 1}
        /\ Pending(q, t) \in {0, 1} /\ Pending(q, t)' \in {0, 1}
    BY DEF TypeOK, InMap, Pending
  <2>2. CASE q = th /\ t = s
    <3>1. reports[th][s] <= evicted[s] + unmarked[th][s]
      BY <1>1 DEF MissPaid, Excuses
    <3> QED
      BY <1>1, <1>4, <2>1, <2>2, <3>1 DEF Excuses
  <2>3. CASE ~ (q = th /\ t = s)
    <3>1. Pending(q, t)' = Pending(q, t)
      BY <1>1, <1>2, <2>3 DEF Pending
    <3>2. reports[q][t] + Pending(q, t) <= evicted[t] + unmarked[q][t] + InMap(t)
      BY DEF Accounted, Excuses
    <3>3. evicted[t] + InMap(t) <= evicted'[t] + InMap(t)' /\ unmarked[q][t] <= unmarked'[q][t]
      BY <1>3, <1>4
    <3> QED
      BY <1>1, <2>1, <3>1, <3>2, <3>3 DEF Excuses
  <2> QED
    BY <2>2, <2>3
<1>6. ASSUME NEW q \in Thread, pc'[q] = "insert"
      PROVE  reports'[q][job'[q]] <= Excuses(q, job[q])'
  <2> DEFINE t == job[q]
  <2>1. pc[q] = "insert" /\ job'[q] = t /\ t \in Tuple
    BY <1>1, <1>2, <1>6 DEF TypeOK
  <2>2. /\ reports[q][t] \in Nat /\ evicted[t] \in Nat /\ evicted'[t] \in Nat
        /\ unmarked[q][t] \in Nat /\ unmarked'[q][t] \in Nat
    BY <2>1 DEF TypeOK
  <2>3. /\ reports[q][t] <= evicted[t] + unmarked[q][t]
        /\ evicted[t] <= evicted'[t] /\ unmarked[q][t] <= unmarked'[q][t]
    BY <1>3, <1>4, <2>1 DEF MissPaid, Excuses
  <2> HIDE DEF t
  <2> QED
    BY <1>1, <2>1, <2>2, <2>3 DEF Excuses
<1> QED
  BY <1>5, <1>6 DEF Accounted, MissPaid

LEMMA ReserveAccount ==
  ASSUME TypeOK, TypeOK', Accounted, MissPaid, NEW th \in Thread, ReserveConn(th)
  PROVE  Accounted' /\ MissPaid'
<1> DEFINE s == job[th]
<1>1. /\ pc[th] = "reserve" /\ s \in Tuple
      /\ UNCHANGED <<seen, job, evicted, unmarked>> /\ pc' = [pc EXCEPT ![th] = "submit"]
      /\ reports' = [reports EXCEPT ![th][s] = @ + 1]
  BY DEF ReserveConn, Goto, TypeOK
<1>2. pc'[th] = "submit" /\ \A q \in Thread : q # th => pc'[q] = pc[q]
  BY <1>1 DEF TypeOK
<1>3. \A q \in Thread, t \in Tuple :
        reports'[q][t] = IF q = th /\ t = s THEN reports[q][t] + 1 ELSE reports[q][t]
  BY <1>1 DEF TypeOK
<1>4. ASSUME NEW q \in Thread, NEW t \in Tuple
      PROVE  reports'[q][t] + Pending(q, t)' = reports[q][t] + Pending(q, t)
  <2>1. reports[q][t] \in Nat
    BY DEF TypeOK
  <2>2. CASE q = th /\ t = s
    <3>1. Pending(q, t) = 1 /\ Pending(q, t)' = 0
      BY <1>1, <1>2, <2>2 DEF Pending
    <3> QED
      BY <1>3, <2>1, <2>2, <3>1
  <2>3. CASE ~ (q = th /\ t = s)
    <3>1. Pending(q, t)' = Pending(q, t)
      BY <1>1, <1>2, <2>3 DEF Pending
    <3> QED
      BY <1>3, <2>3, <3>1
  <2> QED
    BY <2>2, <2>3
<1>5. Accounted'
  BY <1>1, <1>4 DEF Accounted, Excuses, InMap
<1>6. MissPaid'
  <2> SUFFICES ASSUME NEW q \in Thread, pc'[q] = "insert"
               PROVE  reports'[q][job'[q]] <= Excuses(q, job[q])'
    BY DEF MissPaid
  <2>1. pc[q] = "insert" /\ q # th /\ job[q] \in Tuple
    BY <1>2 DEF TypeOK
  <2> QED
    BY <1>1, <1>3, <2>1 DEF MissPaid, Excuses
<1> QED
  BY <1>5, <1>6

LEMMA NextAccount ==
  ASSUME TypeOK, TypeOK', Accounted, MissPaid, [Next]_vars
  PROVE  Accounted' /\ MissPaid'
<1> DEFINE Keeps ==
      \A q \in Thread : pc'[q] \in {"insert", "reserve"} => pc'[q] = pc[q] /\ job'[q] = job[q]
<1>1. ASSUME reports' = reports, evicted' = evicted, unmarked' = unmarked, seen' = seen, Keeps
      PROVE  Accounted' /\ MissPaid'
  <2>1. \A t \in Tuple : InMap(t)' = InMap(t)
    BY <1>1 DEF InMap
  <2>2. \A t \in Tuple : /\ evicted[t] <= evicted'[t]
                         /\ evicted[t] + InMap(t) <= evicted'[t] + InMap(t)'
    BY <1>1, <2>1 DEF TypeOK, InMap
  <2> QED
    BY <1>1, <2>2, QuietAccount
<1>2. CASE UNCHANGED vars
  BY <1>1, <1>2 DEF vars, kernel
<1>3. CASE Consume
  BY <1>1, <1>3 DEF Consume, ConsumeExec, ConsumeOther, kernel
<1>4. ASSUME NEW th \in Thread,
             \/ \E e \in Endpoint : Connect(th, e)
             \/ \E path \in Path : Exec(th, path)
             \/ \E s \in Socket : CreateSocket(th, s)
      PROVE  Accounted' /\ MissPaid'
  <2>1. /\ reports' = reports /\ evicted' = evicted /\ unmarked' = unmarked /\ seen' = seen
        /\ \E x : job' = [job EXCEPT ![th] = x]
        /\ \E x \in {"lookup", "exec", "raw"} : pc' = [pc EXCEPT ![th] = x]
    BY <1>4 DEF Connect, Exec, CreateSocket, Goto
  <2>2. Keeps
    BY <2>1 DEF TypeOK
  <2> QED
    BY <1>1, <2>1, <2>2
<1>5. ASSUME NEW th \in Thread, Probe(th)
      PROVE  Accounted' /\ MissPaid'
  <2>1. CASE Hit(th)
    <3>1. /\ reports' = reports /\ unmarked' = unmarked /\ job' = job
          /\ pc' = [pc EXCEPT ![th] = "idle"] /\ Update({})
      BY <2>1 DEF Hit, Goto
    <3>2. Keeps
      BY <3>1 DEF TypeOK
    <3>3. \A t \in Tuple : /\ evicted[t] <= evicted'[t]
                           /\ evicted[t] + InMap(t) <= evicted'[t] + InMap(t)'
      BY <3>1, UpdateType
    <3> QED
      BY <3>1, <3>2, <3>3, QuietAccount
  <2>2. CASE Miss(th)
    BY <2>2, MissAccount
  <2>3. CASE MarkSeen(th)
    BY <2>3, InsertAccount
  <2>4. CASE ReserveConn(th)
    BY <2>4, ReserveAccount
  <2>6. CASE MarkFails(th)
    BY <2>6, InsertAccount
  <2>5. CASE DropConn(th) \/ ReserveExec(th) \/ ReserveRaw(th) \/ DropOther(th) \/ Submit(th)
    <3>1. /\ reports' = reports /\ evicted' = evicted /\ unmarked' = unmarked /\ seen' = seen /\ job' = job
          /\ \E x \in {"idle", "submit", "execed"} : pc' = [pc EXCEPT ![th] = x]
      BY <2>5 DEF DropConn, ReserveExec, ReserveRaw, DropOther, Submit, Goto
    <3>2. Keeps
      BY <3>1 DEF TypeOK
    <3> QED
      BY <1>1, <3>1, <3>2
  <2> QED
    BY <1>5, <2>1, <2>2, <2>3, <2>4, <2>5, <2>6 DEF Probe
<1> QED
  BY <1>2, <1>3, <1>4, <1>5 DEF Next

-----------------------------------------------------------------------------
(* Deduplication hides nothing.                                            *)

\* What was reported stays reported: the ring is a log.
LEMMA ReportedStays ==
  ASSUME TypeOK, [Next]_vars, NEW t \in Tuple, Reported(t)
  PROVE  Reported(t)'
<1>1. PICK i \in 1..Len(ring) : ring[i].tuple = t /\ ring[i].kind = "conn"
  BY DEF Reported
<1>2. Len(ring) \in Nat
  BY DEF TypeOK
<1>3. CASE ring' = ring
  BY <1>1, <1>3 DEF Reported
<1>4. ASSUME NEW th \in Thread, NEW kind \in {"conn", "exec", "raw_socket"}, Reserve(kind, th)
      PROVE  Reported(t)'
  <2>1. Len(ring') = Len(ring) + 1 /\ \A j \in 1..Len(ring) : ring'[j] = ring[j]
    BY <1>4, ReserveType
  <2>2. i \in 1..Len(ring') /\ ring'[i] = ring[i]
    BY <1>2, <2>1
  <2> QED
    BY <1>1, <2>2 DEF Reported
<1>5. ASSUME NEW th \in Thread, Submit(th)
      PROVE  Reported(t)'
  <2>1. /\ Len(ring') = Len(ring)
        /\ \A j \in 1..Len(ring) : ring'[j].kind = ring[j].kind /\ ring'[j].tuple = ring[j].tuple
    BY <1>5, SubmitType
  <2> QED
    BY <1>1, <2>1 DEF Reported
<1>6. \/ ring' = ring
      \/ \E th \in Thread, kind \in {"conn", "exec", "raw_socket"} : Reserve(kind, th)
      \/ \E th \in Thread : Submit(th)
  <2>1. CASE UNCHANGED vars
    BY <2>1 DEF vars, kernel
  <2>2. CASE Consume
    BY <2>2 DEF Consume, ConsumeExec, ConsumeOther, kernel
  <2>3. ASSUME NEW th \in Thread,
               \/ \E e \in Endpoint : Connect(th, e)
               \/ \E path \in Path : Exec(th, path)
               \/ \E s \in Socket : CreateSocket(th, s)
        PROVE  ring' = ring
    BY <2>3 DEF Connect, Exec, CreateSocket
  <2>4. ASSUME NEW th \in Thread, Probe(th)
        PROVE  \/ ring' = ring
               \/ \E kind \in {"conn", "exec", "raw_socket"} : Reserve(kind, th)
               \/ Submit(th)
    BY <2>4 DEF Probe, Hit, Miss, MarkSeen, MarkFails, ReserveConn, DropConn, ReserveExec, ReserveRaw, DropOther
  <2> QED
    BY <2>1, <2>2, <2>3, <2>4 DEF Next
<1> QED
  BY <1>3, <1>4, <1>5, <1>6

LEMMA NextSeen ==
  ASSUME TypeOK, SeenIsReported, [Next]_vars
  PROVE  SeenIsReported'
<1> SUFFICES ASSUME NEW t \in seen'
             PROVE  Reported(t)' \/ Reporting(t)' \/ t \in dropped'
  BY DEF SeenIsReported
<1>1. t \in Tuple
  BY NextType DEF TypeOK
<1>2. dropped \subseteq dropped'
  BY DEF Next, vars, kernel, Connect, Exec, CreateSocket, Probe, Hit, Miss, MarkSeen, MarkFails, ReserveConn,
         DropConn, ReserveExec, ReserveRaw, DropOther, Submit, Consume, ConsumeExec, ConsumeOther
<1>3. ASSUME t \in seen, \A th \in Thread : pc[th] = "reserve" => pc'[th] = pc[th] /\ job'[th] = job[th]
      PROVE  Reported(t)' \/ Reporting(t)' \/ t \in dropped'
  <2>1. Reporting(t) => Reporting(t)'
    BY <1>3 DEF Reporting
  <2> QED
    BY <1>1, <1>2, <1>3, <2>1, ReportedStays DEF SeenIsReported
<1>4. CASE UNCHANGED vars
  BY <1>3, <1>4 DEF vars, kernel
<1>5. CASE Consume
  BY <1>3, <1>5 DEF Consume, ConsumeExec, ConsumeOther, kernel
<1>6. ASSUME NEW th \in Thread,
             \/ \E e \in Endpoint : Connect(th, e)
             \/ \E path \in Path : Exec(th, path)
             \/ \E s \in Socket : CreateSocket(th, s)
      PROVE  Reported(t)' \/ Reporting(t)' \/ t \in dropped'
  <2>1. /\ pc[th] = "idle" /\ seen' = seen
        /\ \E x : job' = [job EXCEPT ![th] = x]
        /\ \E x : pc' = [pc EXCEPT ![th] = x]
    BY <1>6 DEF Connect, Exec, CreateSocket, Goto, Begins
  <2>2. \A q \in Thread : pc[q] = "reserve" => pc'[q] = pc[q] /\ job'[q] = job[q]
    BY <2>1 DEF TypeOK
  <2> QED
    BY <1>3, <2>1, <2>2
<1>7. ASSUME NEW th \in Thread, Probe(th)
      PROVE  Reported(t)' \/ Reporting(t)' \/ t \in dropped'
  <2>1. CASE MarkSeen(th)
    <3>1. /\ pc' = [pc EXCEPT ![th] = "reserve"] /\ job' = job /\ pc[th] = "insert"
          /\ job[th] \in Tuple /\ Update({job[th]})
      BY <2>1 DEF MarkSeen, Goto, Insert, TypeOK
    <3>2. t \in seen \/ t = job[th]
      BY <3>1, UpdateType
    <3>3. CASE t = job[th]
      BY <3>1, <3>3 DEF Reporting, TypeOK
    <3>4. CASE t \in seen
      BY <1>3, <3>1, <3>4 DEF TypeOK
    <3> QED
      BY <3>2, <3>3, <3>4
  <2>6. CASE MarkFails(th)
    <3>1. /\ pc[th] = "insert" /\ pc' = [pc EXCEPT ![th] = "reserve"] /\ job' = job /\ Update({})
      BY <2>6 DEF MarkFails, Goto
    <3>2. t \in seen
      BY <3>1, UpdateType
    <3> QED
      BY <1>3, <3>1, <3>2 DEF TypeOK
  <2>2. CASE ReserveConn(th)
    <3>1. /\ pc' = [pc EXCEPT ![th] = "submit"] /\ job' = job /\ seen' = seen /\ Reserve("conn", th)
      BY <2>2 DEF ReserveConn, Goto
    <3>2. CASE t = job[th]
      <4>1. /\ Len(ring') = Len(ring) + 1 /\ Len(ring) \in Nat
            /\ ring'[Len(ring) + 1].kind = "conn" /\ ring'[Len(ring) + 1].tuple = job[th]
        BY <3>1, ReserveType DEF TypeOK
      <4> QED
        BY <3>2, <4>1 DEF Reported
    <3>3. CASE t # job[th]
      <4>1. Reporting(t) => Reporting(t)'
        BY <3>1, <3>3 DEF Reporting, TypeOK
      <4> QED
        BY <1>1, <1>2, <3>1, <4>1, ReportedStays DEF SeenIsReported
    <3> QED
      BY <3>2, <3>3
  <2>3. CASE DropConn(th)
    <3>1. /\ pc' = [pc EXCEPT ![th] = "idle"] /\ job' = job /\ seen' = seen
          /\ job[th] \in dropped'
      BY <2>3 DEF DropConn, Goto
    <3>2. CASE t # job[th]
      <4>1. Reporting(t) => Reporting(t)'
        BY <3>1, <3>2 DEF Reporting, TypeOK
      <4> QED
        BY <1>1, <1>2, <3>1, <4>1, ReportedStays DEF SeenIsReported
    <3> QED
      BY <3>1, <3>2
  <2>4. CASE Hit(th)
    <3>1. /\ pc[th] = "lookup" /\ pc' = [pc EXCEPT ![th] = "idle"] /\ job' = job /\ Update({})
      BY <2>4 DEF Hit, Goto
    <3>2. t \in seen
      BY <3>1, UpdateType
    <3> QED
      BY <1>3, <3>1, <3>2 DEF TypeOK
  <2>5. CASE Miss(th) \/ ReserveExec(th) \/ ReserveRaw(th) \/ DropOther(th) \/ Submit(th)
    <3>1. /\ pc[th] # "reserve" /\ seen' = seen /\ job' = job
          /\ \E x : pc' = [pc EXCEPT ![th] = x]
      BY <2>5 DEF Miss, ReserveExec, ReserveRaw, DropOther, Submit, Goto
    <3> QED
      BY <1>3, <3>1 DEF TypeOK
  <2> QED
    BY <1>7, <2>1, <2>2, <2>3, <2>4, <2>5, <2>6 DEF Probe
<1> QED
  BY <1>4, <1>5, <1>6, <1>7 DEF Next

-----------------------------------------------------------------------------
(* The lineage table.                                                      *)

IsExec(recs, i, p) == recs[i].kind = "exec" /\ recs[i].proc = p

\* The last exec record of p among the first n records shows the program x;
\* None if there is none.
LatestIs(recs, p, n, x) ==
  \/ \E i \in 1..n : IsExec(recs, i, p) /\ recs[i].image = x /\ \A j \in (i + 1)..n : ~ IsExec(recs, j, p)
  \/ x = None /\ \A j \in 1..n : ~ IsExec(recs, j, p)

\* A connection comes after the exec record of its program, a process whose
\* program is known likewise, and the table holds the program of the last exec
\* record consumed unless it dropped it.
LineageInv ==
  /\ \A i \in 1..Len(ring) : ring[i].kind = "conn" /\ ring[i].known = "yes" =>
       LatestIs(ring, ring[i].proc, i - 1, ring[i].image)
  /\ \A p \in Proc : known[p] = "yes" => LatestIs(ring, p, Len(ring), image[p])
  /\ \A p \in Proc : \E x \in Path \union {None} :
       LatestIs(ring, p, read, x) /\ (lineage[p] = x \/ (lineage[p] = None /\ forgot > 0))

LEMMA LatestUnique ==
  ASSUME NEW recs, NEW p, NEW n \in Nat, NEW x, NEW y, LatestIs(recs, p, n, x), LatestIs(recs, p, n, y)
  PROVE  x = y
<1>1. CASE \A j \in 1..n : ~ IsExec(recs, j, p)
  BY <1>1 DEF LatestIs
<1>2. CASE ~ \A j \in 1..n : ~ IsExec(recs, j, p)
  <2>1. PICK i \in 1..n :
          IsExec(recs, i, p) /\ recs[i].image = x /\ \A j \in (i + 1)..n : ~ IsExec(recs, j, p)
    BY <1>2 DEF LatestIs
  <2>2. PICK k \in 1..n :
          IsExec(recs, k, p) /\ recs[k].image = y /\ \A j \in (k + 1)..n : ~ IsExec(recs, j, p)
    BY <1>2 DEF LatestIs
  <2>3. ~ (i < k) /\ ~ (k < i)
    BY <2>1, <2>2
  <2> QED
    BY <2>1, <2>2, <2>3
<1> QED
  BY <1>1, <1>2

\* One more record.
LEMMA LatestNext ==
  ASSUME NEW recs, NEW p, NEW n \in Nat, NEW x
  PROVE  /\ LatestIs(recs, p, n, x) /\ ~ IsExec(recs, n + 1, p) => LatestIs(recs, p, n + 1, x)
         /\ IsExec(recs, n + 1, p) => LatestIs(recs, p, n + 1, recs[n + 1].image)
<1>1. ASSUME LatestIs(recs, p, n, x), ~ IsExec(recs, n + 1, p)
      PROVE  LatestIs(recs, p, n + 1, x)
  <2>1. \A m \in Nat : \A j \in m..(n + 1) : j = n + 1 \/ j \in m..n
    OBVIOUS
  <2>2. 1..n \subseteq 1..(n + 1)
    OBVIOUS
  <2> QED
    BY <1>1, <2>1, <2>2 DEF LatestIs
<1>2. ASSUME IsExec(recs, n + 1, p)
      PROVE  LatestIs(recs, p, n + 1, recs[n + 1].image)
  <2>1. n + 1 \in 1..(n + 1) /\ \A j \in (n + 1 + 1)..(n + 1) : FALSE
    OBVIOUS
  <2> QED
    BY <1>2, <2>1 DEF LatestIs
<1> QED
  BY <1>1, <1>2

\* What the records show of execs stays.
LEMMA LatestStays ==
  ASSUME NEW recs, NEW more, NEW p, NEW n \in Nat, NEW x,
         \A i \in 1..n : /\ more[i].kind = recs[i].kind /\ more[i].proc = recs[i].proc
                          /\ more[i].image = recs[i].image,
         LatestIs(recs, p, n, x)
  PROVE  LatestIs(more, p, n, x)
<1>1. \A i \in 1..n : IsExec(more, i, p) <=> IsExec(recs, i, p)
  BY DEF IsExec
<1>2. \A i \in 1..n : \A j \in (i + 1)..n : j \in 1..n
  OBVIOUS
<1> QED
  BY <1>1, <1>2 DEF LatestIs

\* A step that reserves and consumes nothing.
LEMMA QuietLineage ==
  ASSUME TypeOK, LineageInv /\ LineageIsRight,
         Len(ring') = Len(ring), UNCHANGED sensor,
         \A i \in 1..Len(ring) :
           /\ ring'[i].kind = ring[i].kind /\ ring'[i].proc = ring[i].proc
           /\ ring'[i].image = ring[i].image /\ ring'[i].known = ring[i].known,
         \A p \in Proc : known'[p] = "yes" => known[p] = "yes" /\ image'[p] = image[p]
  PROVE  LineageInv' /\ LineageIsRight'
<1>1. /\ Len(ring) \in Nat /\ read \in 0..Len(ring)
      /\ read' = read /\ lineage' = lineage /\ joined' = joined /\ forgot' = forgot
  BY DEF TypeOK, sensor
<1>2. ASSUME NEW i \in 1..Len(ring'), ring'[i].kind = "conn", ring'[i].known = "yes"
      PROVE  LatestIs(ring', ring'[i].proc, i - 1, ring'[i].image)
  <2>1. LatestIs(ring, ring[i].proc, i - 1, ring[i].image)
    BY <1>2 DEF LineageInv
  <2>2. i - 1 \in Nat /\ 1..(i - 1) \subseteq 1..Len(ring)
    BY <1>1
  <2>3. LatestIs(ring', ring[i].proc, i - 1, ring[i].image)
    BY <2>1, <2>2, LatestStays
  <2> QED
    BY <2>1, <2>3
<1>3. ASSUME NEW p \in Proc, known'[p] = "yes"
      PROVE  LatestIs(ring', p, Len(ring'), image'[p])
  <2>1. LatestIs(ring, p, Len(ring), image'[p])
    BY <1>3 DEF LineageInv
  <2> QED
    BY <1>1, <2>1, LatestStays
<1>4. ASSUME NEW p \in Proc
      PROVE  \E x \in Path \union {None} :
               LatestIs(ring', p, read', x) /\ (lineage'[p] = x \/ (lineage'[p] = None /\ forgot' > 0))
  <2>1. PICK x \in Path \union {None} :
          LatestIs(ring, p, read, x) /\ (lineage[p] = x \/ (lineage[p] = None /\ forgot > 0))
    BY DEF LineageInv
  <2>2. 1..read \subseteq 1..Len(ring)
    BY <1>1
  <2>3. LatestIs(ring', p, read, x)
    BY <1>1, <2>1, <2>2, LatestStays
  <2> QED
    BY <1>1, <2>1, <2>3
<1>5. LineageIsRight'
  BY <1>1 DEF LineageIsRight
<1> QED
  BY <1>2, <1>3, <1>4, <1>5 DEF LineageInv

\* A reservation: an exec record makes the program of its process known, and
\* the record of a connection comes after it.
LEMMA ReserveLineage ==
  ASSUME TypeOK, LineageInv /\ LineageIsRight,
         NEW th \in Thread, NEW kind \in {"conn", "exec", "raw_socket"}, Reserve(kind, th),
         UNCHANGED <<sensor, image>>,
         kind # "exec" => known' = known,
         kind = "exec" => known' = [known EXCEPT ![ProcOf[th]] = "yes"]
  PROVE  LineageInv' /\ LineageIsRight'
<1> DEFINE n == Len(ring)
           p == ProcOf[th]
<1>0. p \in Proc
  BY ProcAssumption
<1>1. /\ n \in Nat /\ read \in 0..n
      /\ read' = read /\ lineage' = lineage /\ joined' = joined /\ forgot' = forgot
  BY DEF TypeOK, sensor
<1>2. /\ Len(ring') = n + 1
      /\ \A i \in 1..n : ring'[i] = ring[i]
      /\ ring'[n + 1].kind = kind /\ ring'[n + 1].proc = p /\ ring'[n + 1].image = image[p]
      /\ kind # "exec" => ring'[n + 1].known = known[p]
  BY ReserveType
<1> HIDE DEF n
<1>3. ASSUME NEW q, NEW m \in 0..n, NEW x, LatestIs(ring, q, m, x)
      PROVE  LatestIs(ring', q, m, x)
  <2>1. m \in Nat /\ 1..m \subseteq 1..n
    BY <1>1
  <2> QED
    BY <1>2, <1>3, <2>1, LatestStays
<1>4. ASSUME NEW i \in 1..Len(ring'), ring'[i].kind = "conn", ring'[i].known = "yes"
      PROVE  LatestIs(ring', ring'[i].proc, i - 1, ring'[i].image)
  <2>1. CASE i \in 1..n
    <3>1. LatestIs(ring, ring[i].proc, i - 1, ring[i].image)
      BY <1>2, <1>4, <2>1 DEF LineageInv, n
    <3>2. i - 1 \in 0..n
      BY <1>1, <2>1
    <3> QED
      BY <1>2, <1>3, <2>1, <3>1, <3>2
  <2>2. CASE i = n + 1
    <3>1. known[p] = "yes" /\ i - 1 = n /\ n \in 0..n
      BY <1>1, <1>2, <1>4, <2>2
    <3>2. LatestIs(ring, p, n, image[p])
      BY <1>0, <3>1 DEF LineageInv, n
    <3>3. LatestIs(ring', p, n, image[p])
      BY <1>3, <3>1, <3>2
    <3> QED
      BY <1>2, <2>2, <3>1, <3>3
  <2> QED
    BY <1>1, <1>2, <2>1, <2>2
<1>5. ASSUME NEW q \in Proc, known'[q] = "yes"
      PROVE  LatestIs(ring', q, Len(ring'), image'[q])
  <2>1. /\ LatestIs(ring', q, n, image[q]) /\ ~ IsExec(ring', n + 1, q) => LatestIs(ring', q, n + 1, image[q])
        /\ IsExec(ring', n + 1, q) => LatestIs(ring', q, n + 1, ring'[n + 1].image)
    BY <1>1, LatestNext
  <2>2. CASE kind = "exec" /\ q = p
    BY <1>2, <2>1, <2>2 DEF IsExec
  <2>3. CASE ~ (kind = "exec" /\ q = p)
    <3>1. known[q] = "yes"
      BY <1>5, <2>3 DEF TypeOK
    <3>2. LatestIs(ring, q, n, image[q])
      BY <3>1 DEF LineageInv, n
    <3>3. n \in 0..n
      BY <1>1
    <3>4. LatestIs(ring', q, n, image[q])
      BY <1>3, <3>2, <3>3
    <3>5. ~ IsExec(ring', n + 1, q)
      BY <1>2, <2>3 DEF IsExec
    <3> QED
      BY <1>2, <2>1, <3>4, <3>5
  <2> QED
    BY <2>2, <2>3
<1>6. ASSUME NEW q \in Proc
      PROVE  \E x \in Path \union {None} :
               LatestIs(ring', q, read', x) /\ (lineage'[q] = x \/ (lineage'[q] = None /\ forgot' > 0))
  <2>1. PICK x \in Path \union {None} :
          LatestIs(ring, q, read, x) /\ (lineage[q] = x \/ (lineage[q] = None /\ forgot > 0))
    BY DEF LineageInv
  <2> QED
    BY <1>1, <1>3, <2>1
<1>7. LineageIsRight'
  BY <1>1, <1>2 DEF LineageIsRight
<1> QED
  BY <1>4, <1>5, <1>6, <1>7 DEF LineageInv

\* The table follows the records as they are consumed, and a connection is
\* joined with what it holds.
LEMMA ConsumeLineage ==
  ASSUME TypeOK, LineageInv /\ LineageIsRight, Consume
  PROVE  LineageInv' /\ LineageIsRight'
<1> DEFINE n == read + 1
<1>1. /\ n \in 1..Len(ring) /\ read \in Nat /\ forgot \in Nat /\ read' = n
      /\ ring' = ring /\ known' = known /\ image' = image
  BY DEF TypeOK, Consume, ConsumeExec, ConsumeOther, Available, kernel
<1>2. ring[n] \in Record
  BY <1>1 DEF TypeOK
<1> HIDE DEF n
<1>3. ASSUME NEW q \in Proc
      PROVE  \E x \in Path \union {None} :
               LatestIs(ring, q, n, x) /\ (lineage'[q] = x \/ (lineage'[q] = None /\ forgot' > 0))
  <2>1. PICK x \in Path \union {None} :
          LatestIs(ring, q, read, x) /\ (lineage[q] = x \/ (lineage[q] = None /\ forgot > 0))
    BY DEF LineageInv
  <2>2. /\ ~ IsExec(ring, n, q) => LatestIs(ring, q, n, x)
        /\ IsExec(ring, n, q) => LatestIs(ring, q, n, ring[n].image)
    BY <1>1, <2>1, LatestNext DEF n
  <2>3. CASE ConsumeOther
    <3>1. ~ IsExec(ring, n, q) /\ lineage' = lineage /\ forgot' = forgot
      BY <2>3 DEF ConsumeOther, Available, IsExec, n
    <3> QED
      BY <2>1, <2>2, <3>1
  <2>4. CASE ConsumeExec
    <3>1. /\ ring[n].kind = "exec" /\ ring[n].proc \in Proc
          /\ ring[n].image \in Path \union {None}
      BY <1>2, <2>4 DEF ConsumeExec, Available, Record, n
    <3>2. /\ lineage'[ring[n].proc] = ring[n].image
          /\ q # ring[n].proc =>
               \/ lineage'[q] = lineage[q] /\ forgot' >= forgot
               \/ lineage'[q] = None /\ forgot' > 0
      <4>1. \/ lineage' = [lineage EXCEPT ![ring[n].proc] = ring[n].image] /\ forgot' = forgot
            \/ \E v \in Proc :
                 /\ lineage' = [lineage EXCEPT ![v] = None, ![ring[n].proc] = ring[n].image]
                 /\ forgot' = forgot + 1
        BY <2>4 DEF ConsumeExec, Held, n
      <4>2. lineage \in [Proc -> Path \union {None}]
        BY DEF TypeOK
      <4> QED
        BY <1>1, <3>1, <4>1, <4>2
    <3>3. CASE q = ring[n].proc
      <4>1. IsExec(ring, n, q)
        BY <3>1, <3>3 DEF IsExec
      <4> QED
        BY <2>2, <3>1, <3>2, <3>3, <4>1
    <3>4. CASE q # ring[n].proc
      <4>1. ~ IsExec(ring, n, q)
        BY <3>4 DEF IsExec
      <4>2. lineage'[q] = x \/ (lineage'[q] = None /\ forgot' > 0)
        <5>1. forgot' \in Nat /\ forgot \in Nat
          BY <1>1, <2>4 DEF ConsumeExec
        <5> QED
          BY <2>1, <3>2, <3>4, <5>1
      <4> QED
        BY <2>2, <4>1, <4>2
    <3> QED
      BY <3>3, <3>4
  <2> QED
    BY <2>3, <2>4 DEF Consume
<1>4. LineageInv'
  BY <1>1, <1>3 DEF LineageInv
<1>5. /\ Len(joined') = n /\ \A i \in 1..read : joined'[i] = joined[i]
      /\ ring[n].kind = "conn" => joined'[n] = lineage[ring[n].proc] /\ forgot' = forgot
      /\ forgot > 0 => forgot' > 0
  <2>1. joined \in Seq(Path \union {None}) /\ Len(joined) = read
    BY DEF TypeOK
  <2>2. CASE ConsumeExec
    BY <1>1, <2>1, <2>2 DEF ConsumeExec, Available, n
  <2>3. CASE ConsumeOther
    BY <1>1, <2>1, <2>3 DEF ConsumeOther, n
  <2> QED
    BY <2>2, <2>3 DEF Consume
<1>6. ASSUME ring[n].kind = "conn", ring[n].known = "yes"
      PROVE  joined'[n] = ring[n].image \/ (joined'[n] = None /\ forgot' > 0)
  <2> DEFINE q == ring[n].proc
  <2>1. q \in Proc
    BY <1>2 DEF Record
  <2>2. LatestIs(ring, q, n - 1, ring[n].image) /\ n - 1 = read
    BY <1>1, <1>6 DEF LineageInv, n
  <2>3. PICK x \in Path \union {None} :
          LatestIs(ring, q, read, x) /\ (lineage[q] = x \/ (lineage[q] = None /\ forgot > 0))
    BY <2>1 DEF LineageInv
  <2>4. x = ring[n].image
    BY <1>1, <2>2, <2>3, LatestUnique
  <2> QED
    BY <1>5, <1>6, <2>3, <2>4
<1>7. LineageIsRight'
  <2> SUFFICES ASSUME NEW i \in 1..read', ring'[i].kind = "conn", ring'[i].known = "yes"
               PROVE  joined'[i] = ring'[i].image \/ (joined'[i] = None /\ forgot' > 0)
    BY DEF LineageIsRight
  <2>1. CASE i = n
    BY <1>1, <1>6, <2>1
  <2>2. CASE i # n
    <3>1. i \in 1..read
      BY <1>1, <2>2 DEF n
    <3> QED
      BY <1>1, <1>5, <3>1 DEF LineageIsRight
  <2> QED
    BY <2>1, <2>2
<1> QED
  BY <1>4, <1>7

LEMMA NextLineage ==
  TypeOK /\ (LineageInv /\ LineageIsRight) /\ [Next]_vars => (LineageInv /\ LineageIsRight)'
<1> SUFFICES ASSUME TypeOK, LineageInv /\ LineageIsRight, [Next]_vars
             PROVE  LineageInv' /\ LineageIsRight'
  OBVIOUS
<1>1. ASSUME UNCHANGED <<ring, sensor>>,
             \A p \in Proc : known'[p] = "yes" => known[p] = "yes" /\ image'[p] = image[p]
      PROVE  LineageInv' /\ LineageIsRight'
  BY <1>1, QuietLineage
<1>2. ASSUME NEW th \in Thread,
             (\E e \in Endpoint : Connect(th, e)) \/ (\E s \in Socket : CreateSocket(th, s))
      PROVE  LineageInv' /\ LineageIsRight'
  BY <1>1, <1>2 DEF Connect, CreateSocket
<1>3. ASSUME NEW th \in Thread, NEW path \in Path, Exec(th, path)
      PROVE  LineageInv' /\ LineageIsRight'
  <2>1. \A q \in Proc : known'[q] = "yes" => known[q] = "yes" /\ image'[q] = image[q]
    BY <1>3 DEF Exec, TypeOK
  <2> QED
    BY <1>1, <1>3, <2>1 DEF Exec
<1>4. ASSUME NEW th \in Thread,
             Hit(th) \/ Miss(th) \/ MarkSeen(th) \/ MarkFails(th) \/ DropConn(th) \/ DropOther(th)
      PROVE  LineageInv' /\ LineageIsRight'
  BY <1>1, <1>4 DEF Hit, Miss, MarkSeen, MarkFails, DropConn, DropOther
<1>5. ASSUME NEW th \in Thread, ReserveConn(th) \/ ReserveExec(th) \/ ReserveRaw(th)
      PROVE  LineageInv' /\ LineageIsRight'
  BY <1>5, ReserveLineage DEF ReserveConn, ReserveExec, ReserveRaw
<1>6. ASSUME NEW th \in Thread, Submit(th)
      PROVE  LineageInv' /\ LineageIsRight'
  <2>1. UNCHANGED <<sensor, known, image>>
    BY <1>6 DEF Submit
  <2> QED
    BY <1>6, <2>1, SubmitType, QuietLineage
<1>7. CASE Consume
  BY <1>7, ConsumeLineage
<1>8. CASE UNCHANGED vars
  BY <1>1, <1>8 DEF vars, kernel
<1> QED
  BY <1>2, <1>3, <1>4, <1>5, <1>6, <1>7, <1>8 DEF Next, Probe

LEMMA InitLineage == Init => LineageInv /\ LineageIsRight
<1> SUFFICES ASSUME Init PROVE LineageInv /\ LineageIsRight
  OBVIOUS
<1>1. Len(ring) = 0 /\ read = 0
  BY DEF Init
<1>2. \A p \in Proc : LatestIs(ring, p, 0, None)
  BY DEF LatestIs
<1> QED
  BY <1>1, <1>2 DEF Init, LineageInv, LineageIsRight

-----------------------------------------------------------------------------
(* The theorems.                                                           *)

LEMMA Invariance == Spec => []IInv
<1>1. IInv /\ [Next]_vars => IInv'
  BY NextType, NextAccount, NextSeen DEF IInv
<1> QED
  BY <1>1, InitInv, PTL DEF Spec

\* The type of the state; the ring never holds more than fits it, nor does the
\* lineage table.
THEOREM TypeCorrect == Spec => []TypeOK
<1>1. IInv => TypeOK
  BY DEF IInv
<1> QED
  BY <1>1, Invariance, PTL

\* A tuple that observe's fast path is silent about was reported, is about to
\* be, or found the ring full (bpf/probes.c, observe).
THEOREM NothingHidden == Spec => []SeenIsReported
<1>1. IInv => SeenIsReported
  BY DEF IInv
<1> QED
  BY <1>1, Invariance, PTL

\* "an evicted tuple simply re-reports once", for every thread: however the
\* lookups and updates of observe interleave, and whichever of the updates fail,
\* a thread reports a tuple at most once more than the tuple was evicted and the
\* thread's own insertions of it failed.
THEOREM BoundedReports == Spec => []ReportsBounded
<1>1. IInv => ReportsBounded
  <2> SUFFICES ASSUME IInv, NEW th \in Thread, NEW t \in Tuple
               PROVE  reports[th][t] <= evicted[t] + unmarked[th][t] + 1
    BY DEF ReportsBounded
  <2>1. reports[th][t] + Pending(th, t) <= evicted[t] + unmarked[th][t] + InMap(t)
    BY DEF IInv, Accounted, Excuses
  <2>2. /\ reports[th][t] \in Nat /\ evicted[t] \in Nat /\ unmarked[th][t] \in Nat
        /\ InMap(t) \in {0, 1} /\ Pending(th, t) \in {0, 1}
    BY Numbers DEF IInv
  <2> QED
    BY <2>1, <2>2
<1> QED
  BY <1>1, Invariance, PTL

\* A connection is joined with the program that made it, or with none after the
\* table dropped an entry (cmd/sensor/main.go, lineageTable), if the program's
\* exec record got into the ring.
THEOREM RightLineage == Spec => []LineageIsRight
<1>1. IInv => TypeOK
  BY DEF IInv
<1> QED
  BY <1>1, Invariance, InitLineage, NextLineage, PTL DEF Spec

=============================================================================
