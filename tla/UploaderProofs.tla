--------------------------- MODULE UploaderProofs ---------------------------
(* Proofs about Uploader, for every Cap, MaxEvents and MaxLate.            *)
EXTENDS UploaderOutbox, FiniteSetTheorems, TLAPS

-----------------------------------------------------------------------------
(* The inductive invariant.                                                *)

InFlight(d) == pc[d] # "idle"

\* A batch is a non-empty window of events that were in the buffer when it
\* was copied; the front of the buffer has only moved forward since.
BatchOK(d) ==
  InFlight(d) => /\ req[d].from < req[d].to
                 /\ req[d].from <= head
                 /\ req[d].to <= tail

\* Central has seen what it acknowledged.
AckedSeen(d) ==
  pc[d] \in {"ingested", "ok"} => Events(req[d]) \subseteq received

\* The last drain took everything there was, and nothing is enqueued after it.
FinalBatchOK ==
  InFlight("final") => phase = "draining" /\ req["final"].to = tail

\* Only removal empties the buffer, so it is not empty while u.run is waiting
\* for an answer and the last drain has not begun.
RunBatchOK ==
  phase \in {"reading", "closing"} /\ InFlight("run") => head < tail

\* What was unseen when u.run copied its batch, and every event by which the
\* front has moved since, was paid for by an eviction, unless the last drain
\* has emptied the buffer meanwhile.
RunPaid ==
  InFlight("run") /\ (phase \in {"reading", "closing"} \/ head < tail) =>
    Cardinality(Unseen(req["run"].from)) + (head - req["run"].from) <= evicted

FinalPaid ==
  InFlight("final") => Cardinality(Unseen(req["final"].from)) <= evicted

LateOK == \A w \in late : w.to <= tail

IInv ==
  /\ TypeOK
  /\ evicted <= head
  /\ LateOK
  /\ \A d \in Drain : BatchOK(d) /\ AckedSeen(d)
  /\ FinalBatchOK
  /\ RunBatchOK
  /\ RunPaid
  /\ FinalPaid
  /\ LossPaidByEviction

-----------------------------------------------------------------------------
(* Counting the events 1..k outside a set R.                               *)

Outside(k, R) == (1 .. k) \ R

LEMMA OutsideType ==
  ASSUME NEW k \in Nat, NEW R
  PROVE  IsFiniteSet(Outside(k, R)) /\ Cardinality(Outside(k, R)) \in Nat
<1>1. IsFiniteSet(1 .. k)
  BY FS_Interval
<1>2. IsFiniteSet(Outside(k, R))
  BY <1>1, FS_Subset DEF Outside
<1> QED
  BY <1>2, FS_CardinalityType

\* Seeing more, or looking less far, counts less.
LEMMA OutsideMono ==
  ASSUME NEW a \in Nat, NEW b \in Nat, NEW R, NEW Q,
         Outside(a, Q) \subseteq Outside(b, R)
  PROVE  Cardinality(Outside(a, Q)) <= Cardinality(Outside(b, R))
BY OutsideType, FS_Subset

\* Looking from a to b adds at most the events after m, if a+1..m are in R.
LEMMA OutsideGap ==
  ASSUME NEW a \in Nat, NEW m \in Nat, NEW b \in Nat, NEW R,
         a <= m, m <= b, (a + 1) .. m \subseteq R
  PROVE  Cardinality(Outside(b, R)) <= Cardinality(Outside(a, R)) + (b - m)
<1> DEFINE G == (m + 1) .. b
<1>1. IsFiniteSet(G) /\ Cardinality(G) = b - m
  <2>1. m + 1 \in Int /\ b \in Int
    OBVIOUS
  <2>2. /\ IsFiniteSet((m + 1) .. b)
        /\ Cardinality((m + 1) .. b) = IF m + 1 > b THEN 0 ELSE b - (m + 1) + 1
    BY <2>1, FS_Interval
  <2> QED
    BY <2>2
<1>2. IsFiniteSet(Outside(a, R)) /\ Cardinality(Outside(a, R)) \in Nat
  BY OutsideType
<1>3. Outside(b, R) \subseteq Outside(a, R) \cup G
  BY DEF Outside
<1>4. /\ IsFiniteSet(Outside(a, R) \cup G)
      /\ Cardinality(Outside(a, R) \cup G)
           = Cardinality(Outside(a, R)) + Cardinality(G) - Cardinality(Outside(a, R) \cap G)
  BY <1>1, <1>2, FS_Union
<1>5. Cardinality(Outside(a, R) \cap G) \in Nat
  <2>1. Outside(a, R) \cap G \in SUBSET G
    OBVIOUS
  <2>2. IsFiniteSet(Outside(a, R) \cap G)
    BY <1>1, <2>1, FS_Subset
  <2> QED
    BY <2>2, FS_CardinalityType
<1>6. Cardinality(Outside(b, R)) <= Cardinality(Outside(a, R) \cup G)
  BY <1>3, <1>4, FS_Subset
<1>7. Cardinality(Outside(b, R)) \in Nat
  BY OutsideType
<1> HIDE DEF G
<1> QED
  BY <1>1, <1>2, <1>4, <1>5, <1>6, <1>7

-----------------------------------------------------------------------------
(* Each action preserves the invariant.                                    *)

LEMMA InitInv == Init => IInv
<1> SUFFICES ASSUME Init PROVE IInv
  OBVIOUS
<1> USE CapAssumption, MaxEventsAssumption, MaxLateAssumption
<1>1. TypeOK
  BY DEF Init, TypeOK, Phase, Point, Window, Drain
<1>2. LossPaidByEviction
  <2>1. Lost = {}
    BY DEF Init, Lost, Unseen
  <2> QED
    BY <2>1, FS_EmptySet DEF Init, LossPaidByEviction
<1> QED
  BY <1>1, <1>2 DEF Init, IInv, LateOK, BatchOK, AckedSeen, FinalBatchOK, RunBatchOK,
     RunPaid, FinalPaid, InFlight, Drain

\* The facts about types that arithmetic on the state needs.
LEMMA Types ==
  ASSUME TypeOK
  PROVE  /\ head \in Nat /\ tail \in Nat /\ evicted \in Nat
         /\ Cap \in Nat /\ Cap > 0 /\ MaxEvents \in Nat
         /\ \A d \in Drain : req[d].from \in Nat /\ req[d].to \in Nat
         /\ \A d \in Drain : Cardinality(Unseen(req[d].from)) \in Nat
         /\ Cardinality(Lost) \in Nat
<1> USE CapAssumption, MaxEventsAssumption, MaxLateAssumption
<1>1. /\ head \in Nat /\ tail \in Nat /\ evicted \in Nat
      /\ \A d \in Drain : req[d].from \in Nat /\ req[d].to \in Nat
  BY DEF TypeOK, Window
<1>2. \A k \in Nat : Cardinality(Unseen(k)) \in Nat
  BY OutsideType DEF Unseen, Outside
<1> QED
  BY <1>1, <1>2 DEF Lost

LEMMA EventsEnqueued ==
  ASSUME NEW w, w.from \in Nat, w.to \in Nat, w.to <= tail, tail \in Nat
  PROVE  Events(w) \subseteq 1..tail
BY DEF Events

LEMMA EnqueueInv ==
  ASSUME IInv, Enqueue
  PROVE  IInv'
<1> USE CapAssumption, MaxEventsAssumption, MaxLateAssumption DEF IInv
<1>1. TypeOK' /\ (evicted <= head)'
  BY DEF Enqueue, TypeOK, Phase, Window
<1>2. LateOK' /\ FinalBatchOK' /\ FinalPaid'
  BY Types DEF Enqueue, LateOK, FinalBatchOK, FinalPaid, InFlight, TypeOK, Window
<1>3. ASSUME NEW d \in Drain PROVE BatchOK(d)' /\ AckedSeen(d)'
  BY <1>3, Types DEF Enqueue, BatchOK, AckedSeen, InFlight, Events
<1>4. RunBatchOK'
  BY Types DEF Enqueue, RunBatchOK, TypeOK
<1>5. RunPaid'
  <2> SUFFICES ASSUME InFlight("run")' PROVE
        Cardinality(Unseen(req["run"].from)') + (head' - req["run"].from) <= evicted'
    BY DEF RunPaid, Enqueue
  <2>1. Cardinality(Unseen(req["run"].from)) + (head - req["run"].from) <= evicted
    BY DEF RunPaid, Enqueue, InFlight
  <2>2. Unseen(req["run"].from)' = Unseen(req["run"].from)
    BY DEF Unseen, Enqueue
  <2> QED
    BY <2>1, <2>2, Types DEF Enqueue, Drain
<1>6. LossPaidByEviction'
  <2>1. CASE tail - head >= Cap
    <3>1. Cardinality(Outside(head + 1, received)) <= Cardinality(Outside(head, received)) + 1
      BY OutsideGap, Types, (head + 1) .. head = {}
    <3>2. Lost = Outside(head, received) /\ Lost' = Outside(head + 1, received)
      BY <2>1 DEF Lost, Unseen, Outside, Enqueue
    <3>3. Cardinality(Outside(head + 1, received)) \in Nat
      BY OutsideType, Types
    <3> QED
      BY <2>1, <3>1, <3>2, <3>3, Types DEF Enqueue, LossPaidByEviction
  <2>2. CASE ~ (tail - head >= Cap)
    BY <2>2 DEF Enqueue, LossPaidByEviction, Lost, Unseen
  <2> QED
    BY <2>1, <2>2
<1> QED
  BY <1>1, <1>2, <1>3, <1>4, <1>5, <1>6

\* Steps that touch neither the buffer nor what central has seen, and begin
\* no drain.
LEMMA QuietInv ==
  ASSUME IInv,
         UNCHANGED <<head, tail, req, received, evicted>>,
         TypeOK', LateOK',
         \A d \in Drain : pc'[d] = pc[d] \/ pc'[d] = "idle" \/ (pc[d] = "ingested" /\ pc'[d] = "ok"),
         phase' = phase \/ phase = "reading" \/ (phase = "draining" /\ pc'["final"] = "idle"),
         phase' # "reading" \/ phase = "reading",
         phase' # "closing" \/ phase \in {"reading", "closing"}
  PROVE  IInv'
<1> USE DEF IInv
<1>1. ASSUME NEW d \in Drain PROVE BatchOK(d)' /\ AckedSeen(d)'
  BY <1>1 DEF BatchOK, AckedSeen, InFlight, Events
<1>2. FinalBatchOK' /\ RunBatchOK' /\ RunPaid' /\ FinalPaid' /\ LossPaidByEviction'
  BY DEF FinalBatchOK, RunBatchOK, RunPaid, FinalPaid, LossPaidByEviction, InFlight, Drain,
     Unseen, Lost
<1> QED
  BY <1>1, <1>2

LEMMA SeenInv ==
  ASSUME IInv,
         UNCHANGED <<phase, head, tail, req, evicted>>,
         TypeOK', LateOK', received \subseteq received',
         \A d \in Drain : pc'[d] = pc[d] \/ pc'[d] = "idle"
                           \/ (pc[d] = "sent" /\ pc'[d] = "ingested" /\ Events(req[d]) \subseteq received')
  PROVE  IInv'
<1> USE DEF IInv
<1>1. ASSUME NEW d \in Drain PROVE BatchOK(d)' /\ AckedSeen(d)'
  BY <1>1 DEF BatchOK, AckedSeen, InFlight, Events
<1>2. FinalBatchOK' /\ RunBatchOK'
  BY DEF FinalBatchOK, RunBatchOK, InFlight, Drain
<1>3. \A k \in Nat : /\ Cardinality(Unseen(k)') <= Cardinality(Unseen(k))
                     /\ Cardinality(Unseen(k)') \in Nat
  <2> TAKE k \in Nat
  <2>1. Unseen(k)' = Outside(k, received') /\ Unseen(k) = Outside(k, received)
    BY DEF Unseen, Outside
  <2>2. Outside(k, received') \subseteq Outside(k, received)
    BY DEF Outside
  <2> QED
    BY <2>1, <2>2, OutsideMono, OutsideType
<1>4. RunPaid' /\ FinalPaid' /\ LossPaidByEviction'
  <2>1. /\ Cardinality(Unseen(req["run"].from)') <= Cardinality(Unseen(req["run"].from))
        /\ Cardinality(Unseen(req["run"].from)') \in Nat
        /\ Cardinality(Unseen(req["final"].from)') <= Cardinality(Unseen(req["final"].from))
        /\ Cardinality(Unseen(req["final"].from)') \in Nat
    BY <1>3, Types DEF Drain
  <2>2. /\ Cardinality(Lost') <= Cardinality(Lost)
        /\ Cardinality(Lost') \in Nat
    <3>1. Lost' = Unseen(head)'
      BY DEF Lost, Unseen
    <3> QED
      BY <1>3, <3>1, Types DEF Lost
  <2>3. RunPaid'
    BY <2>1, Types DEF RunPaid, InFlight, Drain
  <2>4. FinalPaid'
    BY <2>1, Types DEF FinalPaid, InFlight, Drain
  <2>5. LossPaidByEviction'
    BY <2>2, Types DEF LossPaidByEviction
  <2> QED
    BY <2>3, <2>4, <2>5
<1> QED
  BY <1>1, <1>2, <1>4

LEMMA SnapshotInv ==
  ASSUME IInv, Snapshot
  PROVE  IInv'
<1> USE DEF IInv
<1>1. TypeOK' /\ (evicted <= head)' /\ LateOK'
  BY DEF Snapshot, Copy, TypeOK, Phase, Window, Point, Drain, LateOK
<1>2. \A d \in Drain : BatchOK(d)' /\ AckedSeen(d)'
  BY Types DEF Snapshot, Copy, BatchOK, AckedSeen, InFlight, Events, TypeOK, Drain
<1>3. FinalBatchOK' /\ RunBatchOK' /\ FinalPaid' /\ LossPaidByEviction'
  BY DEF Snapshot, Copy, FinalBatchOK, RunBatchOK, FinalPaid, LossPaidByEviction, InFlight,
     TypeOK, Drain, Unseen, Lost
<1>4. RunPaid'
  <2>1. req'["run"].from = head
    BY DEF Snapshot, Copy, TypeOK, Drain
  <2>2. Unseen(req["run"].from)' = Lost
    BY <2>1 DEF Unseen, Lost, Snapshot
  <2> QED
    BY <2>1, <2>2, Types DEF RunPaid, LossPaidByEviction, Snapshot
<1> QED
  BY <1>1, <1>2, <1>3, <1>4

LEMMA FinalSnapshotInv ==
  ASSUME IInv, FinalSnapshot
  PROVE  IInv'
<1> USE DEF IInv
<1>1. TypeOK' /\ (evicted <= head)' /\ LateOK'
  BY DEF FinalSnapshot, Copy, TypeOK, Phase, Window, Point, Drain, LateOK
<1>2. \A d \in Drain : BatchOK(d)' /\ AckedSeen(d)'
  BY Types DEF FinalSnapshot, Copy, BatchOK, AckedSeen, InFlight, Events, TypeOK, Drain
<1>3. FinalBatchOK' /\ RunBatchOK' /\ LossPaidByEviction'
  BY DEF FinalSnapshot, Copy, FinalBatchOK, RunBatchOK, LossPaidByEviction, InFlight,
     TypeOK, Drain, Unseen, Lost
<1>4. RunPaid'
  <2>1. req'["run"] = req["run"] /\ pc'["run"] = pc["run"]
    BY DEF FinalSnapshot, Copy, TypeOK, Drain
  <2>2. Unseen(req["run"].from)' = Unseen(req["run"].from)
    BY <2>1 DEF Unseen, FinalSnapshot
  <2> QED
    BY <2>1, <2>2 DEF RunPaid, FinalSnapshot, InFlight
<1>5. FinalPaid'
  <2>1. CASE head < tail
    <3>1. req'["final"].from = head
      BY <2>1 DEF FinalSnapshot, Copy, TypeOK, Drain
    <3>2. Unseen(req["final"].from)' = Lost
      BY <3>1 DEF Unseen, Lost, FinalSnapshot
    <3> QED
      BY <3>2, Types DEF FinalPaid, LossPaidByEviction, FinalSnapshot
  <2>2. CASE ~ (head < tail)
    BY <2>2 DEF FinalPaid, FinalSnapshot, InFlight, Unseen
  <2> QED
    BY <2>1, <2>2
<1> QED
  BY <1>1, <1>2, <1>3, <1>4, <1>5

\* Where Remove(d) leaves the front of the buffer: past the whole batch, and
\* past the batch only by as much as evictions had moved it meanwhile.
LEMMA RemoveHead ==
  ASSUME IInv, NEW d \in Drain, Remove(d)
  PROVE  /\ head' \in Nat /\ head <= head' /\ head' <= tail
         /\ req[d].to <= head'
         /\ head' <= req[d].to + (head - req[d].from)
         /\ d = "final" => head' = tail
<1> USE DEF IInv
<1>1. /\ req[d].from < req[d].to /\ req[d].from <= head /\ req[d].to <= tail
  BY DEF BatchOK, InFlight, Remove
<1>2. d = "final" => req[d].to = tail
  BY DEF FinalBatchOK, InFlight, Remove
<1>3. /\ head \in Nat /\ tail \in Nat /\ req[d].from \in Nat /\ req[d].to \in Nat
      /\ head <= tail
  BY Types DEF TypeOK
<1>4. head' = IF tail - head >= req[d].to - req[d].from
                THEN head + (req[d].to - req[d].from) ELSE tail
  BY DEF Remove
<1> QED
  BY <1>1, <1>2, <1>3, <1>4

LEMMA RemoveInv ==
  ASSUME IInv, NEW d \in Drain, Remove(d)
  PROVE  IInv'
<1> USE DEF IInv
<1> DEFINE f == req[d].from
           t == req[d].to
<1>h. /\ head' \in Nat /\ head <= head' /\ head' <= tail /\ t <= head'
      /\ head' <= t + (head - f)
      /\ d = "final" => head' = tail
  BY RemoveHead
<1>t. /\ head \in Nat /\ tail \in Nat /\ evicted \in Nat /\ Cap \in Nat /\ MaxEvents \in Nat
      /\ f \in Nat /\ t \in Nat /\ head <= tail
  BY Types DEF TypeOK
<1>1. TypeOK'
  BY <1>h, <1>t DEF Remove, TypeOK, Point, Drain
<1>2. (evicted <= head)' /\ LateOK'
  BY <1>h, <1>t DEF Remove, LateOK
<1>3. \A e \in Drain : BatchOK(e)' /\ AckedSeen(e)'
  <2> SUFFICES ASSUME NEW e \in Drain PROVE BatchOK(e)' /\ AckedSeen(e)'
    OBVIOUS
  <2>1. req[e].from \in Nat /\ (pc'[e] = pc[e] \/ pc'[e] = "idle")
    BY Types DEF Remove, TypeOK
  <2> QED
    BY <1>h, <1>t, <2>1 DEF Remove, BatchOK, AckedSeen, InFlight, Events
<1>4. FinalBatchOK' /\ FinalPaid'
  BY DEF Remove, FinalBatchOK, FinalPaid, InFlight, TypeOK, Drain, Unseen
<1>5. RunBatchOK'
  BY DEF Remove, RunBatchOK, FinalBatchOK, InFlight, TypeOK, Drain
<1>6. RunPaid'
  <2>1. CASE d = "run"
    BY <2>1 DEF Remove, RunPaid, InFlight, TypeOK, Drain
  <2>2. CASE d = "final"
    BY <1>h, <1>t, <2>2 DEF Remove, RunPaid, FinalBatchOK, InFlight
  <2> QED
    BY <2>1, <2>2 DEF Drain
<1>7. LossPaidByEviction'
  <2>1. f <= t /\ (f + 1) .. t \subseteq received
    BY <1>t DEF BatchOK, AckedSeen, InFlight, Remove, Events
  <2>2. /\ Lost' = Outside(head', received) /\ Lost = Outside(head, received)
        /\ Unseen(f) = Outside(f, received)
    BY DEF Remove, Lost, Unseen, Outside
  <2>3. Cardinality(Outside(head', received)) <= Cardinality(Outside(f, received)) + (head' - t)
    BY <1>h, <1>t, <2>1, OutsideGap
  <2>4. /\ Cardinality(Outside(head', received)) \in Nat
        /\ Cardinality(Outside(f, received)) \in Nat
    BY <1>h, <1>t, OutsideType
  <2>5. CASE d = "final"
    <3>1. f <= head /\ t = tail /\ Cardinality(Unseen(f)) <= evicted
      BY <2>5 DEF Remove, BatchOK, FinalBatchOK, FinalPaid, InFlight
    <3> QED
      BY <1>h, <1>t, <2>2, <2>3, <2>4, <2>5, <3>1 DEF LossPaidByEviction, Remove
  <2>6. CASE d = "run" /\ head < tail
    <3>1. Cardinality(Unseen(f)) + (head - f) <= evicted
      BY <2>6 DEF Remove, RunPaid, InFlight
    <3> QED
      BY <1>h, <1>t, <2>2, <2>3, <2>4, <3>1 DEF LossPaidByEviction, Remove
  <2>7. CASE ~ (head < tail)
    <3>1. head' = head
      BY <1>h, <1>t, <2>7
    <3> QED
      BY <2>2, <3>1 DEF LossPaidByEviction, Remove
  <2> QED
    BY <2>5, <2>6, <2>7 DEF Drain
<1> QED
  BY <1>1, <1>2, <1>3, <1>4, <1>5, <1>6, <1>7

-----------------------------------------------------------------------------
(* The theorems.                                                           *)

LEMMA NextInv ==
  ASSUME IInv, [Next]_vars
  PROVE  IInv'
<1> USE DEF IInv, LateOK
<1>1. CASE Enqueue
  BY <1>1, EnqueueInv
<1>2. CASE Stop \/ ReadError \/ Exit
  <2>1. TypeOK' /\ LateOK'
    BY <1>2 DEF Stop, ReadError, Exit, TypeOK, Phase
  <2> QED
    BY <1>2, <2>1, QuietInv DEF Stop, ReadError, Exit
<1>3. CASE Snapshot
  BY <1>3, SnapshotInv
<1>4. CASE FinalSnapshot
  BY <1>4, FinalSnapshotInv
<1>5. ASSUME NEW d \in Drain, DrainStep(d)
      PROVE  IInv'
  <2>1. CASE Ingest(d) \/ CentralDies(d)
    <3>1. req[d].from \in Nat /\ req[d].to \in Nat /\ req[d].to <= tail /\ tail \in Nat
      BY <2>1, Types DEF BatchOK, InFlight, Ingest, CentralDies
    <3>2. received' \subseteq 1..tail /\ received \subseteq received'
      <4>1. received' \subseteq received \cup Events(req[d]) /\ received \subseteq received'
        BY <2>1, <3>1 DEF Ingest, CentralDies, Events
      <4>2. Events(req[d]) \subseteq 1..tail
        BY <3>1, EventsEnqueued
      <4> QED
        BY <4>1, <4>2 DEF TypeOK
    <3>3. TypeOK' /\ LateOK'
      BY <2>1, <3>2 DEF Ingest, CentralDies, TypeOK, Point, Drain
    <3> QED
      BY <2>1, <3>2, <3>3, SeenInv DEF Ingest, CentralDies, TypeOK
  <2>2. CASE Fail(d) \/ Reject(d) \/ Accept(d)
    <3>1. late' \subseteq late \cup {req[d]}
      BY <2>2 DEF Fail, Reject, Accept
    <3>2. req[d] \in Window /\ req[d].to <= tail
      BY <2>2 DEF TypeOK, BatchOK, InFlight, Fail, Reject, Accept
    <3>3. TypeOK' /\ LateOK'
      BY <2>2, <3>1, <3>2 DEF Fail, Reject, Accept, TypeOK, Point, Drain
    <3> QED
      BY <2>2, <3>3, QuietInv DEF Fail, Reject, Accept, TypeOK
  <2>3. CASE Remove(d)
    BY <2>3, RemoveInv
  <2> QED
    BY <1>5, <2>1, <2>2, <2>3 DEF DrainStep
<1>6. CASE LateIngest
  <2>1. PICK w \in late : received' = received \union Events(w) /\ late' = late \ {w}
    BY <1>6 DEF LateIngest
  <2>2. w.from \in Nat /\ w.to \in Nat /\ w.to <= tail /\ tail \in Nat
    BY Types DEF TypeOK, Window
  <2>3. received' \subseteq 1..tail /\ received \subseteq received'
    <3>1. Events(w) \subseteq 1..tail
      BY <2>2, EventsEnqueued
    <3> QED
      BY <2>1, <3>1 DEF TypeOK
  <2>4. TypeOK' /\ LateOK'
    BY <1>6, <2>1, <2>3 DEF LateIngest, TypeOK
  <2> QED
    BY <1>6, <2>3, <2>4, SeenInv DEF LateIngest
<1>7. CASE LateDrop
  <2>1. TypeOK' /\ LateOK'
    BY <1>7 DEF LateDrop, TypeOK
  <2> QED
    BY <1>7, <2>1, QuietInv DEF LateDrop
<1>8. CASE UNCHANGED vars
  <2>1. TypeOK' /\ LateOK'
    BY <1>8 DEF vars, TypeOK
  <2> QED
    BY <1>8, <2>1, QuietInv DEF vars
<1> QED
  BY <1>1, <1>2, <1>3, <1>4, <1>5, <1>6, <1>7, <1>8 DEF Next

LEMMA Invariance == Spec => []IInv
<1>1. Init => IInv
  BY InitInv
<1>2. IInv /\ [Next]_vars => IInv'
  BY NextInv
<1> QED
  BY <1>1, <1>2, PTL DEF Spec

\* Every state of the buffer is well-formed: it never holds more than Cap
\* events (enqueue), and central has seen nothing that was not enqueued.
THEOREM TypeCorrect == Spec => []TypeOK
<1>1. IInv => TypeOK
  BY DEF IInv
<1> QED
  BY <1>1, Invariance, PTL

\* drain's imprecise removal never loses more events than enqueue evicted.
THEOREM LossBounded == Spec => []LossPaidByEviction
<1>1. IInv => LossPaidByEviction
  BY DEF IInv
<1> QED
  BY <1>1, Invariance, PTL

\* A shutdown whose last request is acknowledged leaves nothing behind.
THEOREM FinalDrain == Spec => []FinalDrainComplete
<1>1. IInv => FinalDrainComplete
  <2> SUFFICES ASSUME IInv, pc["final"] = "ok" PROVE Buffered \subseteq received
    BY DEF FinalDrainComplete
  <2>1. /\ Events(req["final"]) \subseteq received
        /\ req["final"].from <= head /\ req["final"].to = tail
    BY DEF IInv, AckedSeen, BatchOK, FinalBatchOK, InFlight, Drain
  <2> QED
    BY <2>1, Types DEF Events, Buffered, Drain, IInv
<1> QED
  BY <1>1, Invariance, PTL

\* Handling an acknowledgement cuts the whole batch off the buffer, whatever
\* happened to it during the request, and what is cut stays cut.
THEOREM AckClears == Spec => AckClearsBatch
<1>1. IInv /\ [Next]_vars =>
        [/\ head' >= head
         /\ \A d \in Drain : pc[d] = "ok" /\ pc'[d] = "idle" => head' >= req[d].to]_vars
  <2> SUFFICES ASSUME IInv, Next
               PROVE  /\ head' >= head
                      /\ \A d \in Drain : pc[d] = "ok" /\ pc'[d] = "idle" => head' >= req[d].to
    BY DEF vars
  <2>1. ASSUME NEW d \in Drain, pc[d] = "ok", pc'[d] = "idle"
        PROVE  head' >= req[d].to
    <3>1. pc' # pc /\ pc \in [Drain -> Point]
      BY <2>1 DEF IInv, TypeOK
    <3>2. PICK e \in Drain : DrainStep(e) \/ Snapshot \/ FinalSnapshot
      BY <3>1 DEF Next, Enqueue, Stop, ReadError, Exit, LateIngest, LateDrop, Drain
    <3>3. ~ Snapshot /\ ~ FinalSnapshot
      BY <2>1, <3>1 DEF Snapshot, FinalSnapshot, Copy, IInv, FinalBatchOK, InFlight, Drain
    <3>4. Remove(d)
      BY <2>1, <3>1, <3>2, <3>3 DEF DrainStep, Ingest, CentralDies, Fail, Reject, Accept, Remove
    <3> QED
      BY <3>4, RemoveHead, Types DEF IInv
  <2>2. head' >= head
    <3>1. head \in Nat
      BY Types DEF IInv
    <3>2. CASE Enqueue
      BY <3>1, <3>2 DEF Enqueue
    <3>3. ASSUME NEW d \in Drain, Remove(d)
          PROVE  head' >= head
      BY <3>3, RemoveHead, Types DEF IInv
    <3>4. CASE UNCHANGED head
      BY <3>1, <3>4
    <3>5. Enqueue \/ (\E d \in Drain : Remove(d)) \/ UNCHANGED head
      BY DEF Next, DrainStep, Snapshot, FinalSnapshot, Copy, Ingest, CentralDies, Fail, Reject,
             Accept, Stop, ReadError, Exit, LateIngest, LateDrop
    <3> QED
      BY <3>2, <3>3, <3>4, <3>5
  <2> QED
    BY <2>1, <2>2
<1> QED
  BY <1>1, Invariance, PTL DEF Spec, AckClearsBatch

\* The detailed buffer implements the abstract outbox.
THEOREM Refinement == Spec => RefinesOutbox
<1>1. Init => O!Init
  BY DEF Init, O!Init
<1>2. IInv /\ IInv' /\ [Next]_vars => [O!Next]_(O!vars)
  <2> SUFFICES ASSUME IInv, IInv', [Next]_vars PROVE O!Next \/ UNCHANGED <<tail, received, head, evicted>>
    BY DEF O!vars
  <2>t. head \in Nat /\ tail \in Nat /\ evicted \in Nat
    BY Types DEF IInv
  <2>1. CASE Enqueue
    BY <2>1, <2>t DEF Enqueue, O!Next, O!Accept
  <2>2. ASSUME NEW d \in Drain, Remove(d) PROVE O!Next
    <3>1. head <= head' /\ head' <= tail
      BY <2>2, RemoveHead
    <3>2. O!Cardinality(O!Undelivered(head')) <= evicted
      <4>1. O!Cardinality(O!Undelivered(head')) = Cardinality(O!Undelivered(head'))
        BY DEF O!Cardinality, Cardinality, O!IsFiniteSet, IsFiniteSet
      <4> QED
        BY <2>2, <4>1 DEF IInv, LossPaidByEviction, Lost, Unseen, O!Undelivered, Remove
    <3> QED
      BY <2>2, <3>1, <3>2, <2>t DEF Remove, O!Next, O!Forget
  <2>3. ASSUME NEW d \in Drain, Ingest(d) \/ CentralDies(d) PROVE O!Next
    BY <2>3 DEF Ingest, CentralDies, IInv, TypeOK, O!Next, O!Deliver
  <2>4. CASE LateIngest
    BY <2>4 DEF LateIngest, IInv, TypeOK, O!Next, O!Deliver
  <2> QED
    BY <2>1, <2>2, <2>3, <2>4 DEF Next, DrainStep, Stop, ReadError, Snapshot, FinalSnapshot,
       Fail, Reject, Accept, LateDrop, Exit, vars
<1> QED
  BY <1>1, <1>2, Invariance, PTL DEF Spec, RefinesOutbox, O!Spec

=============================================================================
