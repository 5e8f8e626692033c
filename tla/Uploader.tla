------------------------------ MODULE Uploader ------------------------------
(***************************************************************************)
(* The sensor's local event buffer and its upload to central:              *)
(* cmd/sensor/upload.go, with the parts of run() in cmd/sensor/main.go     *)
(* that start it, stop it and drain it a last time.                        *)
(*                                                                         *)
(* Events are numbered in the order the read loop enqueues them.  The Go   *)
(* slice u.buf is only ever appended to and cut at the front, so it is the *)
(* window head+1 .. tail of that numbering; a batch copied from it is a    *)
(* window from+1 .. to.                                                    *)
(*                                                                         *)
(* Two goroutines drain: "run" (u.run, one drain per tick until ctx is     *)
(* done) and "final" (the single drain of main's run() after the read loop *)
(* ended).  The lock u.mu is released while a request is in flight.        *)
(***************************************************************************)
EXTENDS Integers, FiniteSets

CONSTANTS Cap,        \* maxUploadBufferEvents
          MaxEvents,  \* bound: events the read loop enqueues
          MaxLate     \* bound: abandoned requests central may still be handling

ASSUME CapAssumption       == Cap \in Nat \ {0}
ASSUME MaxEventsAssumption == MaxEvents \in Nat
ASSUME MaxLateAssumption   == MaxLate \in Nat

VARIABLES
  phase,     \* main's run(): where the sensor process is
  head,      \* events that have left the front of u.buf
  tail,      \* events enqueued so far
  pc,        \* pc[d]: where drain d is
  req,       \* req[d]: the batch drain d copied, as the window from+1 .. to
  late,      \* batches of requests the sensor gave up on but central may still handle
  received,  \* events central's handler passed to Store.Ingest
  evicted    \* history: events enqueue dropped from a full buffer

vars == <<phase, head, tail, pc, req, late, received, evicted>>

Drain   == {"run", "final"}
Phase   == {"reading", "closing", "draining", "stopped", "aborted"}
Point   == {"idle", "sent", "ingested", "ok"}
Window  == [from : 0..MaxEvents, to : 0..MaxEvents]
Events(w) == (w.from + 1) .. w.to

\* The events still in u.buf, and those no longer in it that central never saw.
Buffered  == (head + 1) .. tail
Unseen(k) == (1 .. k) \ received
Lost      == Unseen(head)

\* The sensor process exists.
Live == phase \in {"reading", "closing", "draining"}

Init ==
  /\ phase = "reading"
  /\ head = 0 /\ tail = 0
  /\ pc = [d \in Drain |-> "idle"]
  /\ req = [d \in Drain |-> [from |-> 0, to |-> 0]]
  /\ late = {}
  /\ received = {}
  /\ evicted = 0

-----------------------------------------------------------------------------
(* Faulty variants of the actions below: each makes one mistake that       *)
(* upload.go or run() could easily make, and breaks one property.          *)

\* enqueue compares with > and holds one event too many.
EnqueueOffByOne ==
  /\ phase \in {"reading", "closing"}
  /\ tail < MaxEvents
  /\ IF tail - head > Cap
       THEN head' = head + 1 /\ evicted' = evicted + 1
       ELSE UNCHANGED <<head, evicted>>
  /\ tail' = tail + 1
  /\ UNCHANGED <<phase, pc, req, late, received>>

\* The read loop is still running while the last drain is.
EnqueueWhileDraining ==
  /\ phase \in {"reading", "closing", "draining"}
  /\ tail < MaxEvents
  /\ IF tail - head >= Cap
       THEN head' = head + 1 /\ evicted' = evicted + 1
       ELSE UNCHANGED <<head, evicted>>
  /\ tail' = tail + 1
  /\ UNCHANGED <<phase, pc, req, late, received>>

\* A tick drains only a full buffer.
SnapshotWhenFull ==
  /\ phase = "reading"
  /\ pc["run"] = "idle"
  /\ tail - head >= Cap
  /\ pc' = [pc EXCEPT !["run"] = "sent"]
  /\ req' = [req EXCEPT !["run"] = [from |-> head, to |-> tail]]
  /\ UNCHANGED <<phase, head, tail, late, received, evicted>>

\* The status of the answer is not looked at.
RejectIgnored(d) ==
  /\ Live
  /\ pc[d] = "sent"
  /\ pc' = [pc EXCEPT ![d] = "ok"]
  /\ UNCHANGED <<phase, head, tail, req, late, received, evicted>>

\* The whole buffer is cleared after a successful send.
RemoveAll(d) ==
  /\ Live
  /\ pc[d] = "ok"
  /\ head' = tail
  /\ pc' = [pc EXCEPT ![d] = "idle"]
  /\ UNCHANGED <<phase, tail, req, late, received, evicted>>

\* A buffer shorter than the batch is left alone.
RemoveIfLonger(d) ==
  /\ Live
  /\ pc[d] = "ok"
  /\ LET n == req[d].to - req[d].from
     IN  head' = IF tail - head > n THEN head + n ELSE head
  /\ pc' = [pc EXCEPT ![d] = "idle"]
  /\ UNCHANGED <<phase, tail, req, late, received, evicted>>

\* The process waits for an empty buffer before it ends.
ExitWhenEmpty ==
  /\ phase = "draining"
  /\ pc["final"] = "idle"
  /\ head = tail
  /\ phase' = "stopped"
  /\ UNCHANGED <<head, tail, pc, req, late, received, evicted>>

-----------------------------------------------------------------------------
(* The event loop of run() and enqueue.                                    *)

\* SIGTERM closes the ring reader from another goroutine, so the loop may
\* still emit the record it is holding while phase is "closing".
Enqueue ==
  /\ phase \in {"reading", "closing"}
  /\ tail < MaxEvents
  /\ IF tail - head >= Cap
       THEN head' = head + 1 /\ evicted' = evicted + 1
       ELSE UNCHANGED <<head, evicted>>
  /\ tail' = tail + 1
  /\ UNCHANGED <<phase, pc, req, late, received>>

\* SIGTERM or SIGINT: ctx is done.
Stop ==
  /\ phase = "reading"
  /\ phase' = "closing"
  /\ UNCHANGED <<head, tail, pc, req, late, received, evicted>>

\* rd.Read fails otherwise than by being closed: run() returns at once,
\* without the last drain.
ReadError ==
  /\ phase = "reading"
  /\ phase' = "aborted"
  /\ UNCHANGED <<head, tail, pc, req, late, received, evicted>>

-----------------------------------------------------------------------------
(* drain: copy the buffer, send it, remove what was sent.                  *)

Copy(d) ==
  /\ pc' = [pc EXCEPT ![d] = "sent"]
  /\ req' = [req EXCEPT ![d] = [from |-> head, to |-> tail]]

\* A tick of u.run.  A drain begun after ctx is done fails in client.Do
\* before anything is sent and changes nothing, so it is not a step.
Snapshot ==
  /\ phase = "reading"
  /\ pc["run"] = "idle"
  /\ head < tail
  /\ Copy("run")
  /\ UNCHANGED <<phase, head, tail, late, received, evicted>>

\* The loop saw ErrClosed: the last drain starts, under its own context.
\* The drain of u.run may still be in flight.
FinalSnapshot ==
  /\ phase = "closing"
  /\ phase' = "draining"
  /\ IF head < tail THEN Copy("final") ELSE UNCHANGED <<pc, req>>
  /\ UNCHANGED <<head, tail, late, received, evicted>>

\* Central decodes the whole batch and ingests it; the answer is on its way.
\* Central does not depend on the sensor still being there.
Ingest(d) ==
  /\ pc[d] = "sent"
  /\ received' = received \union Events(req[d])
  /\ pc' = [pc EXCEPT ![d] = "ingested"]
  /\ UNCHANGED <<phase, head, tail, req, late, evicted>>

\* Central dies while it ingests the batch event by event.
CentralDies(d) ==
  /\ pc[d] = "sent"
  /\ \E k \in req[d].from .. (req[d].to - 1) :
       received' = received \union ((req[d].from + 1) .. k)
  /\ pc' = [pc EXCEPT ![d] = "idle"]
  /\ UNCHANGED <<phase, head, tail, req, late, evicted>>

\* client.Do returns an error: no connection, the 5 s timeout, ctx done, or
\* the answer was lost.  A request that was already sent may still be
\* handled by central later.
Fail(d) ==
  /\ Live
  /\ pc[d] \in {"sent", "ingested"}
  /\ pc' = [pc EXCEPT ![d] = "idle"]
  /\ \/ late' = late
     \/ /\ pc[d] = "sent" /\ Cardinality(late) < MaxLate
        /\ late' = late \union {req[d]}
  /\ UNCHANGED <<phase, head, tail, req, received, evicted>>

\* Status >= 300: the buffer is left as it is.
Reject(d) ==
  /\ Live
  /\ pc[d] = "sent"
  /\ pc' = [pc EXCEPT ![d] = "idle"]
  /\ UNCHANGED <<phase, head, tail, req, late, received, evicted>>

\* Status < 300 reached the sensor; u.mu is not held yet.
Accept(d) ==
  /\ Live
  /\ pc[d] = "ingested"
  /\ pc' = [pc EXCEPT ![d] = "ok"]
  /\ UNCHANGED <<phase, head, tail, req, late, received, evicted>>

\* Cut len(batch) events off whatever the front of the buffer now is.
Remove(d) ==
  /\ Live
  /\ pc[d] = "ok"
  /\ LET n == req[d].to - req[d].from
     IN  head' = IF tail - head >= n THEN head + n ELSE tail
  /\ pc' = [pc EXCEPT ![d] = "idle"]
  /\ UNCHANGED <<phase, tail, req, late, received, evicted>>

\* Central's handler does not notice that the client has gone.
LateIngest ==
  \E w \in late :
    /\ received' = received \union Events(w)
    /\ late' = late \ {w}
    /\ UNCHANGED <<phase, head, tail, pc, req, evicted>>

\* ... or the request died on its way.
LateDrop ==
  \E w \in late :
    /\ late' = late \ {w}
    /\ UNCHANGED <<phase, head, tail, pc, req, received, evicted>>

\* run() returns: the one attempt of the last drain is over.
Exit ==
  /\ phase = "draining"
  /\ pc["final"] = "idle"
  /\ phase' = "stopped"
  /\ UNCHANGED <<head, tail, pc, req, late, received, evicted>>

-----------------------------------------------------------------------------
DrainStep(d) ==
  Ingest(d) \/ CentralDies(d) \/ Fail(d) \/ Reject(d) \/ Accept(d) \/ Remove(d)

Next ==
  \/ Enqueue \/ Stop \/ ReadError
  \/ Snapshot \/ FinalSnapshot \/ Exit
  \/ \E d \in Drain : DrainStep(d)
  \/ LateIngest \/ LateDrop

Spec == Init /\ [][Next]_vars

(***************************************************************************)
(* The ticker of u.run fires for ever and the runtime schedules every      *)
(* goroutine.  A drain ends: its request has a 5 s timeout.  The only      *)
(* assumption on central is that an outage does not last for ever: a       *)
(* request that is sent again and again is handled and answered in time    *)
(* once.  Nothing makes central handle the single last drain.              *)
(***************************************************************************)
Fairness ==
  /\ WF_vars(Snapshot)
  /\ SF_vars(Ingest("run")) /\ SF_vars(Accept("run"))
  /\ \A d \in Drain : WF_vars(Fail(d)) /\ WF_vars(Remove(d))
  /\ WF_vars(FinalSnapshot) /\ WF_vars(Exit)

FairSpec == Spec /\ Fairness

-----------------------------------------------------------------------------
(* Properties.                                                             *)

\* The type of the state: at most Cap events buffered, batches are windows
\* of what was enqueued.
TypeOK ==
  /\ phase \in Phase
  /\ head \in 0..MaxEvents /\ tail \in 0..MaxEvents
  /\ head <= tail /\ tail - head <= Cap
  /\ pc \in [Drain -> Point]
  /\ req \in [Drain -> Window]
  /\ late \subseteq Window
  /\ received \subseteq 1..tail
  /\ evicted \in 0..MaxEvents

\* The imprecise removal in drain ("slightly imprecise") costs at most one
\* event per event enqueue evicted: never more events are lost than were
\* evicted.
LossPaidByEviction == Cardinality(Lost) <= evicted

\* When the last drain is acknowledged, nothing central has not seen is left
\* in the buffer, even if a drain of u.run overlaps with it: a shutdown whose
\* last request succeeds leaves nothing behind.
FinalDrainComplete == pc["final"] = "ok" => Buffered \subseteq received

\* The step that handles an acknowledgement cuts the whole of the batch off the
\* buffer, whatever evictions and the other drain have done to it during the
\* request, and nothing ever comes back: a drain that copies the buffer after that
\* step does not send the batch again.  (One that copied before the step, as the
\* last drain may, does; so does a retry when the answer was lost.)
AckClearsBatch ==
  [][/\ head' >= head
     /\ \A d \in Drain :
          pc[d] = "ok" /\ pc'[d] = "idle" => head' >= req[d].to]_vars

\* "restart it and the backlog drains": while the sensor runs, every event
\* leaves the buffer, however often central fails before it recovers.
BacklogDrains ==
  \A i \in 1..MaxEvents : (tail >= i) ~> (head >= i \/ phase # "reading")

\* A shutdown ends although central may never answer: the last drain is one
\* attempt with a timeout.
ShutdownTerminates == (phase = "closing") ~> (phase = "stopped")

=============================================================================
