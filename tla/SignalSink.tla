----------------------------- MODULE SignalSink -----------------------------
(***************************************************************************)
(* Central's signal stream: cmd/central/signals.go.                        *)
(*                                                                         *)
(* Emit holds s.mu throughout, so it is one step: the signal's line goes   *)
(* through a bufio.Writer to the end of a file, and the signal to the ring *)
(* that feeds the dashboard.  None of the writer's errors is looked at.    *)
(* A bufio.Writer that failed once refuses everything from then on.        *)
(*                                                                         *)
(* Signals are numbered as they are emitted.  A line of the file is a      *)
(* sequence of what was written to it: signals, and torn ones.             *)
(***************************************************************************)
EXTENDS Integers, Sequences

CONSTANTS Ring,         \* signalRingSize
          Torn,         \* a part of a signal's line
          MaxSignals,   \* bound: signals emitted
          MaxRestarts,  \* bound: restarts of central
          MaxFull       \* bound: times the disk fills up

ASSUME RingAssumption  == Ring \in Nat \ {0}
ASSUME BoundAssumption == {MaxSignals, MaxRestarts, MaxFull} \subseteq Nat
ASSUME TornAssumption  == Torn \notin Nat

VARIABLES
  disk,      \* "ok" or "full"
  writer,    \* the bufio.Writer: "ok", or "failed" for good
  ring,      \* SignalSink.ring, most recent last
  lines,     \* the complete lines of the file
  rest,      \* what follows the last newline
  emitted,   \* signals emitted
  since,     \* history: signals emitted before central last started
  base,      \* history: complete lines when central last started
  restarts, fulls

vars == <<disk, writer, ring, lines, rest, emitted, since, base, restarts, fulls>>

Init ==
  /\ disk = "ok" /\ writer = "ok"
  /\ ring = <<>> /\ lines = <<>> /\ rest = <<>>
  /\ emitted = 0 /\ since = 0 /\ base = 0
  /\ restarts = 0 /\ fulls = 0

\* (A faulty variant.) The ring is cut before the signal is appended.
LastBefore(s) == IF Len(s) > Ring + 1 THEN SubSeq(s, Len(s) - Ring + 1, Len(s)) ELSE s

\* The last signals that the ring holds.
LastOf(s) == IF Len(s) > Ring THEN SubSeq(s, Len(s) - Ring + 1, Len(s)) ELSE s

Recent == [i \in 1..Len(ring) |-> ring[Len(ring) + 1 - i]]

\* (A faulty variant.) A failed writer is replaced by a fresh one.
EmitFresh ==
  /\ emitted < MaxSignals
  /\ emitted' = emitted + 1
  /\ ring' = LastOf(Append(ring, emitted'))
  /\ IF disk = "ok"
       THEN lines' = Append(lines, Append(rest, emitted')) /\ rest' = <<>>
       ELSE /\ rest' \in {rest, Append(rest, Torn), Append(rest, emitted')}
            /\ UNCHANGED lines
  /\ UNCHANGED <<disk, writer, since, base, restarts, fulls>>

\* Emit: the line is written and flushed.  On a full disk the flush writes
\* none of it, a part of it, or all but the newline.
Emit ==
  /\ emitted < MaxSignals
  /\ emitted' = emitted + 1
  /\ ring' = LastOf(Append(ring, emitted'))
  /\ \/ /\ writer = "ok" /\ disk = "ok"
        /\ lines' = Append(lines, Append(rest, emitted')) /\ rest' = <<>>
        /\ UNCHANGED writer
     \/ /\ writer = "ok" /\ disk = "full"
        /\ writer' = "failed"
        /\ rest' \in {rest, Append(rest, Torn), Append(rest, emitted')}
        /\ UNCHANGED lines
     \/ /\ writer = "failed"
        /\ UNCHANGED <<writer, lines, rest>>
  /\ UNCHANGED <<disk, since, base, restarts, fulls>>

\* newSignalSink: central starts again and appends to the file.
Restart ==
  /\ restarts < MaxRestarts
  /\ restarts' = restarts + 1
  /\ writer' = "ok" /\ ring' = <<>>
  /\ since' = emitted /\ base' = Len(lines)
  /\ UNCHANGED <<disk, lines, rest, emitted, fulls>>

DiskFills ==
  /\ disk = "ok" /\ fulls < MaxFull
  /\ disk' = "full" /\ fulls' = fulls + 1
  /\ UNCHANGED <<writer, ring, lines, rest, emitted, since, base, restarts>>

DiskFreed ==
  /\ disk = "full"
  /\ disk' = "ok"
  /\ UNCHANGED <<writer, ring, lines, rest, emitted, since, base, restarts, fulls>>

Next == Emit \/ Restart \/ DiskFills \/ DiskFreed

Spec == Init /\ [][Next]_vars

-----------------------------------------------------------------------------
(* Properties.                                                             *)

\* The dashboard shows the signals of this run of central, newest first, up
\* to the size of the ring and without a gap, whatever became of the file.
DashboardIsRecent ==
  /\ Len(ring) = IF emitted - since > Ring THEN Ring ELSE emitted - since
  /\ \A i \in 1..Len(ring) : Recent[i] = emitted + 1 - i

\* The file has no holes: the lines that a run of central completed end in the
\* signals it emitted first, in their order; what is missing is missing from
\* the first failure on.
FileHasNoHoles ==
  \A i \in 1..(Len(lines) - base) :
    LET line == lines[base + i] IN line[Len(line)] = since + i

=============================================================================
