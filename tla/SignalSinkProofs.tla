--------------------------- MODULE SignalSinkProofs ---------------------------
(* Proofs about SignalSink, for every size of the ring and any number of   *)
(* signals, restarts and full disks.                                       *)
EXTENDS SignalSink, TLAPS

-----------------------------------------------------------------------------
(* The inductive invariant.                                                *)

Piece == Nat \union {Torn}

Types ==
  /\ disk \in {"ok", "full"} /\ writer \in {"ok", "failed"}
  /\ ring \in Seq(Nat) /\ lines \in Seq(Seq(Piece)) /\ rest \in Seq(Piece)
  /\ emitted \in Nat /\ since \in 0..emitted
  /\ base \in 0..Len(lines)

\* The ring, counted from its end.
RingIsRecent ==
  /\ Len(ring) = IF emitted - since > Ring THEN Ring ELSE emitted - since
  /\ \A i \in 1..Len(ring) : ring[i] = emitted - Len(ring) + i

\* The lines since the restart, and that a writer that has not failed has
\* written them all.
LinesInOrder ==
  /\ \A i \in 1..Len(lines) : Len(lines[i]) > 0
  /\ \A n \in (base + 1)..Len(lines) : lines[n][Len(lines[n])] = since + (n - base)
  /\ writer = "ok" => Len(lines) - base = emitted - since

IInv == Types /\ RingIsRecent /\ LinesInOrder

-----------------------------------------------------------------------------
\* Cutting a sequence to its last Ring elements.
LEMMA LastOfType ==
  ASSUME NEW s \in Seq(Nat)
  PROVE  /\ LastOf(s) \in Seq(Nat)
         /\ Len(LastOf(s)) = IF Len(s) > Ring THEN Ring ELSE Len(s)
         /\ \A i \in 1..Len(LastOf(s)) : LastOf(s)[i] = s[Len(s) - Len(LastOf(s)) + i]
<1>1. Ring \in Nat /\ Ring > 0 /\ Len(s) \in Nat
  BY RingAssumption
<1>2. CASE Len(s) > Ring
  <2>1. LastOf(s) = SubSeq(s, Len(s) - Ring + 1, Len(s))
    BY <1>2 DEF LastOf
  <2>2. Len(s) - Ring + 1 \in 1..(Len(s) + 1)
    BY <1>1, <1>2
  <2>3. Len(LastOf(s)) = Ring /\ LastOf(s) \in Seq(Nat)
    BY <1>1, <1>2, <2>1, <2>2
  <2>4. \A i \in 1..Ring : LastOf(s)[i] = s[Len(s) - Ring + i]
    BY <1>1, <1>2, <2>1, <2>2
  <2> QED
    BY <1>2, <2>3, <2>4
<1>3. CASE ~ (Len(s) > Ring)
  <2>1. LastOf(s) = s
    BY <1>3 DEF LastOf
  <2> QED
    BY <1>1, <1>3, <2>1
<1> QED
  BY <1>2, <1>3

LEMMA InitInv == Init => IInv
BY RingAssumption DEF Init, IInv, Types, RingIsRecent, LinesInOrder

\* Emit puts the signal at the end of the ring, whatever becomes of the file.
LEMMA EmitRing ==
  ASSUME IInv, Emit
  PROVE  ring' \in Seq(Nat) /\ RingIsRecent'
<1>1. /\ emitted' = emitted + 1 /\ ring' = LastOf(Append(ring, emitted + 1)) /\ since' = since
      /\ emitted \in Nat /\ since \in 0..emitted /\ ring \in Seq(Nat)
  BY DEF Emit, IInv, Types
<1> DEFINE s == Append(ring, emitted + 1)
<1>2. /\ s \in Seq(Nat) /\ Len(s) = Len(ring) + 1 /\ Len(ring) \in Nat
      /\ \A i \in 1..Len(ring) : s[i] = ring[i]
      /\ s[Len(ring) + 1] = emitted + 1
  BY <1>1
<1>3. /\ Len(ring) = IF emitted - since > Ring THEN Ring ELSE emitted - since
      /\ \A i \in 1..Len(ring) : ring[i] = emitted - Len(ring) + i
  BY DEF IInv, RingIsRecent
<1>4. \A i \in 1..Len(s) : s[i] = emitted + 1 - Len(s) + i
  <2> SUFFICES ASSUME NEW i \in 1..Len(s) PROVE s[i] = emitted + 1 - Len(s) + i
    OBVIOUS
  <2>1. CASE i = Len(ring) + 1
    BY <1>1, <1>2, <2>1
  <2>2. CASE i \in 1..Len(ring)
    <3>1. s[i] = ring[i] /\ ring[i] = emitted - Len(ring) + i
      BY <1>2, <1>3, <2>2
    <3>2. emitted - Len(ring) + i = emitted + 1 - Len(s) + i
      BY <1>1, <1>2, <2>2
    <3> QED
      BY <3>1, <3>2
  <2> QED
    BY <1>2, <2>1, <2>2
<1>5. /\ ring' \in Seq(Nat)
      /\ Len(ring') = IF Len(s) > Ring THEN Ring ELSE Len(s)
      /\ \A i \in 1..Len(ring') : ring'[i] = s[Len(s) - Len(ring') + i]
  BY <1>1, <1>2, LastOfType
<1>6. Ring \in Nat /\ Ring > 0
  BY RingAssumption
<1>7. Len(ring') = IF emitted' - since' > Ring THEN Ring ELSE emitted' - since'
  BY <1>1, <1>2, <1>3, <1>5, <1>6
<1>8. ASSUME NEW i \in 1..Len(ring')
      PROVE  ring'[i] = emitted' - Len(ring') + i
  <2>1. Len(s) - Len(ring') + i \in 1..Len(s)
    BY <1>2, <1>5, <1>6, <1>8
  <2>2. s[Len(s) - Len(ring') + i] = emitted + 1 - Len(s) + (Len(s) - Len(ring') + i)
    BY <1>4, <2>1
  <2>3. Len(ring') \in Nat /\ Len(s) \in Nat
    BY <1>2, <1>5, <1>6
  <2>4. emitted + 1 - Len(s) + (Len(s) - Len(ring') + i) = emitted + 1 - Len(ring') + i
    BY <1>1, <2>3
  <2>5. ring'[i] = s[Len(s) - Len(ring') + i]
    BY <1>5
  <2>6. emitted' - Len(ring') + i = emitted + 1 - Len(ring') + i
    BY <1>1
  <2> HIDE DEF s
  <2> QED
    BY <2>2, <2>4, <2>5, <2>6, Zenon
<1> QED
  BY <1>5, <1>7, <1>8 DEF RingIsRecent

\* Emit adds a line to the file only while every earlier signal of this run
\* has one.
LEMMA EmitFile ==
  ASSUME IInv, Emit
  PROVE  /\ LinesInOrder' /\ lines' \in Seq(Seq(Piece)) /\ rest' \in Seq(Piece)
         /\ Len(lines') >= Len(lines) /\ writer' \in {"ok", "failed"}
<1>1. /\ emitted' = emitted + 1 /\ since' = since /\ base' = base
      /\ emitted \in Nat /\ since \in 0..emitted
      /\ lines \in Seq(Seq(Piece)) /\ rest \in Seq(Piece) /\ base \in 0..Len(lines)
      /\ Len(lines) \in Nat
  BY DEF Emit, IInv, Types
<1>2. emitted + 1 \in Piece /\ Torn \in Piece
  BY <1>1 DEF Piece
<1>3. LinesInOrder /\ writer \in {"ok", "failed"}
  BY DEF IInv, Types
<1>4. CASE writer = "ok" /\ disk = "ok"
  <2> DEFINE line == Append(rest, emitted + 1)
  <2>1. lines' = Append(lines, line) /\ rest' = <<>> /\ writer' = writer
    BY <1>1, <1>4 DEF Emit
  <2>2. line \in Seq(Piece) /\ Len(line) > 0 /\ line[Len(line)] = emitted + 1
    BY <1>1, <1>2
  <2>3. /\ lines' \in Seq(Seq(Piece)) /\ Len(lines') = Len(lines) + 1
        /\ \A i \in 1..Len(lines) : lines'[i] = lines[i]
        /\ lines'[Len(lines) + 1] = line
    BY <1>1, <2>1, <2>2
  <2>4. \A i \in 1..Len(lines') : Len(lines'[i]) > 0
    <3> SUFFICES ASSUME NEW i \in 1..Len(lines') PROVE Len(lines'[i]) > 0
      OBVIOUS
    <3>1. i \in 1..Len(lines) \/ i = Len(lines) + 1
      BY <1>1, <2>3
    <3> QED
      BY <1>3, <2>2, <2>3, <3>1 DEF LinesInOrder
  <2>5. Len(lines) - base = emitted - since
    BY <1>3, <1>4 DEF LinesInOrder
  <2>6. ASSUME NEW n \in (base + 1)..Len(lines')
        PROVE  lines'[n][Len(lines'[n])] = since + (n - base)
    <3>1. CASE n = Len(lines) + 1
      <4>1. lines'[n][Len(lines'[n])] = emitted + 1
        BY <2>2, <2>3, <3>1
      <4>2. since + (n - base) = emitted + 1
        <5>1. base \in Nat /\ since \in Nat /\ emitted \in Nat /\ Len(lines) \in Nat
          BY <1>1
        <5> QED
          BY <5>1, <2>5, <3>1
      <4> QED
        BY <4>1, <4>2
    <3>2. CASE n \in (base + 1)..Len(lines)
      <4>1. lines[n][Len(lines[n])] = since + (n - base)
        BY <1>3, <3>2 DEF LinesInOrder
      <4>2. lines'[n] = lines[n]
        BY <1>1, <2>3, <3>2
      <4> QED
        BY <4>1, <4>2
    <3>3. n = Len(lines) + 1 \/ n \in (base + 1)..Len(lines)
      BY <1>1, <2>3, <2>6
    <3> QED
      BY <3>1, <3>2, <3>3
  <2>7. Len(lines') - base' = emitted' - since'
    BY <1>1, <2>3, <2>5
  <2>8. LinesInOrder'
    BY <1>1, <2>4, <2>6, <2>7 DEF LinesInOrder
  <2>9. Len(lines') >= Len(lines) /\ writer' \in {"ok", "failed"} /\ rest' \in Seq(Piece)
    BY <1>1, <1>4, <2>1, <2>3
  <2> QED
    BY <2>3, <2>8, <2>9
<1>5. CASE ~ (writer = "ok" /\ disk = "ok")
  <2>1. lines' = lines /\ writer' = "failed"
    BY <1>3, <1>5 DEF Emit
  <2>2. rest' \in {rest, Append(rest, Torn), Append(rest, emitted + 1)}
    BY <1>1, <1>5 DEF Emit
  <2>3. rest' \in Seq(Piece)
    <3> HIDE DEF Piece
    <3>1. Append(rest, Torn) \in Seq(Piece) /\ Append(rest, emitted + 1) \in Seq(Piece)
      BY <1>1, <1>2
    <3> QED
      BY <1>1, <2>2, <3>1
  <2> QED
    BY <1>1, <1>3, <2>1, <2>3 DEF LinesInOrder
<1> QED
  BY <1>4, <1>5

LEMMA NextInv == IInv /\ [Next]_vars => IInv'
<1> SUFFICES ASSUME IInv, [Next]_vars PROVE IInv'
  OBVIOUS
<1>1. CASE Emit
  <2>1. /\ disk' = disk /\ since' = since /\ base' = base /\ emitted' = emitted + 1
    BY <1>1 DEF Emit
  <2>2. /\ lines' \in Seq(Seq(Piece)) /\ rest' \in Seq(Piece) /\ ring' \in Seq(Nat)
        /\ Len(lines') >= Len(lines) /\ writer' \in {"ok", "failed"}
        /\ LinesInOrder' /\ RingIsRecent'
    BY <1>1, EmitFile, EmitRing
  <2>3. Len(lines) \in Nat /\ Len(lines') \in Nat
    BY <2>2 DEF IInv, Types
  <2> QED
    BY <2>1, <2>2, <2>3 DEF IInv, Types
<1>2. CASE Restart
  <2>1. Types'
    BY <1>2 DEF Restart, IInv, Types
  <2>2. RingIsRecent'
    BY <1>2, RingAssumption DEF Restart, IInv, Types, RingIsRecent
  <2>3. LinesInOrder'
    BY <1>2 DEF Restart, IInv, Types, LinesInOrder
  <2> QED
    BY <2>1, <2>2, <2>3 DEF IInv
<1>3. CASE DiskFills \/ DiskFreed \/ UNCHANGED vars
  BY <1>3 DEF DiskFills, DiskFreed, vars, IInv, Types, RingIsRecent, LinesInOrder
<1> QED
  BY <1>1, <1>2, <1>3 DEF Next

LEMMA Invariance == Spec => []IInv
BY InitInv, NextInv, PTL DEF Spec

-----------------------------------------------------------------------------
(* The theorems.                                                           *)

\* Emit's ring is what Recent promises the dashboard: the latest signals of
\* this run of central, newest first, without a gap.
THEOREM Dashboard == Spec => []DashboardIsRecent
<1>1. IInv => DashboardIsRecent
  <2> SUFFICES ASSUME IInv, NEW i \in 1..Len(ring) PROVE Recent[i] = emitted + 1 - i
    BY DEF DashboardIsRecent, IInv, RingIsRecent
  <2>1. Len(ring) \in Nat /\ emitted \in Nat
    BY DEF IInv, Types
  <2>2. Recent[i] = ring[Len(ring) + 1 - i]
    BY DEF Recent
  <2>3. Len(ring) + 1 - i \in 1..Len(ring)
    BY <2>1
  <2>4. ring[Len(ring) + 1 - i] = emitted - Len(ring) + (Len(ring) + 1 - i)
    BY <2>3 DEF IInv, RingIsRecent
  <2> QED
    BY <2>1, <2>2, <2>4
<1> QED
  BY <1>1, Invariance, PTL

\* The lines that a run of central completed are the signals it emitted first,
\* in order: Emit loses signals only from the first failure on.
THEOREM NoHoles == Spec => []FileHasNoHoles
<1>1. IInv => FileHasNoHoles
  <2> SUFFICES ASSUME IInv, NEW i \in 1..(Len(lines) - base)
               PROVE  lines[base + i][Len(lines[base + i])] = since + i
    BY DEF FileHasNoHoles
  <2>1. base \in Nat /\ Len(lines) \in Nat /\ since \in Nat
    BY DEF IInv, Types
  <2>2. base + i \in (base + 1)..Len(lines)
    BY <2>1
  <2>3. lines[base + i][Len(lines[base + i])] = since + ((base + i) - base)
    BY <2>2 DEF IInv, LinesInOrder
  <2> QED
    BY <2>1, <2>3
<1> QED
  BY <1>1, Invariance, PTL

=============================================================================
