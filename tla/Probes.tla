------------------------------- MODULE Probes -------------------------------
(***************************************************************************)
(* The kernel side of the sensor, bpf/probes.c, and the read loop of       *)
(* cmd/sensor/main.go that consumes what it emits and joins connections    *)
(* with the program that made them.                                        *)
(*                                                                         *)
(* The probes run in the context of the thread that connects, executes a   *)
(* program or creates a socket, on any CPU, so their steps interleave,     *)
(* those of two threads of one process too: in observe the lookup of the   *)
(* tuple, its insertion, the reservation of a record in the ring buffer    *)
(* and its submission.  The ring is consumed in the order of the           *)
(* reservations, and a record that is reserved and not yet submitted holds *)
(* up those behind it.                                                     *)
(*                                                                         *)
(* The ring is the log of all its records; the first `read` of them have   *)
(* been consumed.                                                          *)
(***************************************************************************)
EXTENDS Integers, Sequences, FiniteSets

CONSTANTS Thread,      \* threads
          Proc,        \* processes
          ProcOf,      \* the process of every thread
          Cgroup,      \* cgroups
          CgroupOf,    \* the cgroup of every process
          Endpoint,    \* address, port, protocol and family
          Path,        \* program images
          Socket,      \* calls of socket(2): family, type, protocol
          Sensor,      \* the sensor's own process
          None,        \* no program, no tuple
          SeenCap,     \* max_entries of seen_connections
          RingCap,     \* records that fit the ring
          LineageCap,  \* maxLineageEntries
          MaxOps       \* bound: operations of all processes

Tuple == Cgroup \X Endpoint

ASSUME ProcAssumption  == ProcOf \in [Thread -> Proc] /\ CgroupOf \in [Proc -> Cgroup] /\ Sensor \in Proc
ASSUME NoneAssumption  == None \notin Tuple /\ None \notin Path
ASSUME BoundAssumption == {SeenCap, RingCap, LineageCap} \subseteq Nat \ {0} /\ MaxOps \in Nat

VARIABLES
  seen,     \* the keys of seen_connections
  ring,     \* events: every record ever reserved
  read,     \* how many of them the sensor has consumed
  pc, job,  \* where the probe in each thread is, and the tuple it works on
  image,    \* the program each process runs
  known,    \* history: whether that program's exec record got into the ring
  lineage,  \* the sensor's lineage table, None where there is no entry
  joined,   \* history: what each consumed record was joined with
  evicted,  \* history: evictions of each tuple from seen_connections
  unmarked, \* history: insertions of a tuple by a thread that failed
  reports,  \* history: records a thread reserved for a tuple
  dropped,  \* history: tuples whose report found the ring full
  forgot,   \* history: entries the lineage table dropped
  ops

kernel == <<seen, ring, pc, job, image, known, evicted, unmarked, reports, dropped>>
sensor == <<read, lineage, joined, forgot>>
vars   == <<kernel, sensor, ops>>

Point  == {"idle", "lookup", "insert", "reserve", "submit", "exec", "execed", "raw"}
Record == [kind : {"conn", "exec", "raw_socket"}, thread : Thread, proc : Proc, tuple : Tuple \union {None},
           image : Path \union {None}, known : {"yes", "no"}, state : {"busy", "ready"}]

TupleOf(th, e) == <<CgroupOf[ProcOf[th]], e>>
RingFull       == Len(ring) - read >= RingCap
Held           == {p \in Proc : lineage[p] # None}
Others(th)     == {o \in Thread \ {th} : ProcOf[o] = ProcOf[th]}

\* handle_raw_socket: raw and packet sockets, but for netlink and for the raw
\* ICMPv6 sockets of network managers.
IsRawSocket(s) ==
  /\ s.family # "netlink"
  /\ ~ (s.family = "inet6" /\ s.type = "raw" /\ s.protocol = "icmpv6")
  /\ s.family = "packet" \/ s.type = "raw"

Init ==
  /\ seen = {}
  /\ ring = <<>> /\ read = 0
  /\ pc = [th \in Thread |-> "idle"] /\ job = [th \in Thread |-> None]
  /\ image = [p \in Proc |-> None] /\ known = [p \in Proc |-> "yes"]
  /\ lineage = [p \in Proc |-> None]
  /\ joined = <<>>
  /\ evicted = [t \in Tuple |-> 0]
  /\ unmarked = [th \in Thread |-> [t \in Tuple |-> 0]]
  /\ reports = [th \in Thread |-> [t \in Tuple |-> 0]]
  /\ dropped = {}
  /\ forgot = 0 /\ ops = 0

Goto(th, q) == pc' = [pc EXCEPT ![th] = q]

\* bpf_ringbuf_reserve succeeds, and the record is filled in.
Reserve(kind, th) ==
  /\ ~ RingFull
  /\ LET p == ProcOf[th]
     IN  ring' = Append(ring, [kind |-> kind, thread |-> th, proc |-> p, tuple |-> job[th], image |-> image[p],
                               known |-> IF kind = "exec" THEN "yes" ELSE known[p], state |-> "busy"])

\* bpf_map_update_elem on seen_connections takes a node for the tuple before
\* it looks whether it has one.  That evicts an entry if the map is full, and,
\* since the free lists are per CPU, maybe before.
Update(tuples) ==
  \E victims \in SUBSET seen :
    /\ Cardinality(victims) <= 1
    /\ Cardinality((seen \ victims) \union tuples) <= SeenCap
    /\ seen' = (seen \ victims) \union tuples
    /\ evicted' = [v \in Tuple |-> IF v \in victims THEN evicted[v] + 1 ELSE evicted[v]]

\* BPF_ANY: the tuple is in the map afterwards.
Insert(t) == Update({t})

\* A thread that no probe runs in, of a process that is not just executing a
\* program: until handle_exec is done, such a process has no other threads.
Begins(th) ==
  /\ pc[th] = "idle" /\ \A o \in Others(th) : pc[o] \notin {"exec", "execed"}
  /\ ops < MaxOps /\ ops' = ops + 1

-----------------------------------------------------------------------------
(* Faulty variants of the actions below: each makes one mistake that the   *)
(* probes or the read loop could easily make, and breaks one property.     *)

\* The lookup's result is not used: every call inserts and reports.
LookupIgnored(th) ==
  /\ pc[th] = "lookup"
  /\ Goto(th, "insert")
  /\ UNCHANGED <<seen, ring, job, image, known, evicted, unmarked, reports, dropped, sensor, ops>>

\* The tuple is marked as seen, and a connection of the sensor's own is not reported.
InsertSkipsSensor(th) ==
  /\ pc[th] = "insert"
  /\ Insert(job[th])
  /\ Goto(th, IF ProcOf[th] = Sensor THEN "idle" ELSE "reserve")
  /\ UNCHANGED <<ring, job, image, known, unmarked, reports, dropped, sensor, ops>>

\* The first exec of a process is the one that is kept.
ConsumeExecFirst ==
  /\ read < Len(ring) /\ ring[read + 1].state = "ready" /\ ring[read + 1].kind = "exec"
  /\ LET p == ring[read + 1].proc
     IN  lineage' = IF lineage[p] = None THEN [lineage EXCEPT ![p] = ring[read + 1].image] ELSE lineage
  /\ joined' = Append(joined, None)
  /\ read' = read + 1
  /\ UNCHANGED <<kernel, ops, forgot>>

\* execEvent's check of the table's size is off by one.
ConsumeExecLate ==
  /\ read < Len(ring) /\ ring[read + 1].state = "ready" /\ ring[read + 1].kind = "exec"
  /\ LET r == ring[read + 1]
     IN  IF Cardinality(Held) <= LineageCap
           THEN lineage' = [lineage EXCEPT ![r.proc] = r.image] /\ UNCHANGED forgot
           ELSE /\ \E v \in Held : lineage' = [lineage EXCEPT ![v] = None, ![r.proc] = r.image]
                /\ forgot' = forgot + 1
  /\ joined' = Append(joined, None)
  /\ read' = read + 1
  /\ UNCHANGED <<kernel, ops>>

\* The read loop returns where it should pass over a socket of the sensor's own.
ConsumeReturns ==
  /\ read < Len(ring) /\ ring[read + 1].state = "ready" /\ ring[read + 1].kind # "exec"
  /\ LET r == ring[read + 1]
     IN  /\ ~ (r.kind = "raw_socket" /\ r.proc = Sensor)
         /\ joined' = Append(joined, IF r.kind = "conn" THEN lineage[r.proc] ELSE None)
  /\ read' = read + 1
  /\ UNCHANGED <<kernel, lineage, forgot, ops>>

-----------------------------------------------------------------------------
(* observe.                                                                *)

\* A thread connects, or sends a datagram.
Connect(th, e) ==
  /\ Begins(th)
  /\ job' = [job EXCEPT ![th] = TupleOf(th, e)]
  /\ Goto(th, "lookup")
  /\ UNCHANGED <<seen, ring, image, known, evicted, unmarked, reports, dropped, sensor>>

\* A known tuple is refreshed with BPF_EXIST: nothing is inserted, even if the
\* tuple itself is what the update evicts.
Hit(th) ==
  /\ pc[th] = "lookup" /\ job[th] \in seen
  /\ Update({})
  /\ Goto(th, "idle")
  /\ UNCHANGED <<ring, job, image, known, unmarked, reports, dropped, sensor, ops>>

Miss(th) ==
  /\ pc[th] = "lookup" /\ job[th] \notin seen
  /\ Goto(th, "insert")
  /\ UNCHANGED <<seen, ring, job, image, known, evicted, unmarked, reports, dropped, sensor, ops>>

MarkSeen(th) ==
  /\ pc[th] = "insert"
  /\ Insert(job[th])
  /\ Goto(th, "reserve")
  /\ UNCHANGED <<ring, job, image, known, unmarked, reports, dropped, sensor, ops>>

\* The update finds no free node, or the bucket taken (its result is not
\* looked at): the tuple is not marked, and is reported all the same.
MarkFails(th) ==
  /\ pc[th] = "insert"
  /\ Update({})
  /\ unmarked' = [unmarked EXCEPT ![th][job[th]] = @ + 1]
  /\ Goto(th, "reserve")
  /\ UNCHANGED <<ring, job, image, known, reports, dropped, sensor, ops>>

ReserveConn(th) ==
  /\ pc[th] = "reserve"
  /\ Reserve("conn", th)
  /\ reports' = [reports EXCEPT ![th][job[th]] = @ + 1]
  /\ Goto(th, "submit")
  /\ UNCHANGED <<seen, job, image, known, evicted, unmarked, dropped, sensor, ops>>

\* "ring full: drop the report, never the connection".
DropConn(th) ==
  /\ pc[th] = "reserve" /\ RingFull
  /\ dropped' = dropped \union {job[th]}
  /\ Goto(th, "idle")
  /\ UNCHANGED <<seen, ring, job, image, known, evicted, unmarked, reports, sensor, ops>>

\* bpf_ringbuf_submit, of all three probes.
Submit(th) ==
  /\ pc[th] \in {"submit", "execed"}
  /\ ring' = [i \in 1..Len(ring) |->
                IF ring[i].thread = th THEN [ring[i] EXCEPT !.state = "ready"] ELSE ring[i]]
  /\ Goto(th, "idle")
  /\ UNCHANGED <<seen, job, image, known, evicted, unmarked, reports, dropped, sensor, ops>>

-----------------------------------------------------------------------------
(* handle_exec and handle_raw_socket.                                      *)

\* A thread executes a program: the probe runs once the new image is set up,
\* when the other threads of the process have ended, out of any probe.
Exec(th, path) ==
  /\ Begins(th) /\ \A o \in Others(th) : pc[o] = "idle"
  /\ image' = [image EXCEPT ![ProcOf[th]] = path] /\ known' = [known EXCEPT ![ProcOf[th]] = "no"]
  /\ job' = [job EXCEPT ![th] = None]
  /\ Goto(th, "exec")
  /\ UNCHANGED <<seen, ring, evicted, unmarked, reports, dropped, sensor>>

ReserveExec(th) ==
  /\ pc[th] = "exec"
  /\ Reserve("exec", th)
  /\ known' = [known EXCEPT ![ProcOf[th]] = "yes"]
  /\ Goto(th, "execed")
  /\ UNCHANGED <<seen, job, image, evicted, unmarked, reports, dropped, sensor, ops>>

\* A thread creates a socket that the probe is interested in.
CreateSocket(th, s) ==
  /\ Begins(th) /\ IsRawSocket(s)
  /\ job' = [job EXCEPT ![th] = None]
  /\ Goto(th, "raw")
  /\ UNCHANGED <<seen, ring, image, known, evicted, unmarked, reports, dropped, sensor>>

ReserveRaw(th) ==
  /\ pc[th] = "raw"
  /\ Reserve("raw_socket", th)
  /\ Goto(th, "submit")
  /\ UNCHANGED <<seen, job, image, known, evicted, unmarked, reports, dropped, sensor, ops>>

DropOther(th) ==
  /\ pc[th] \in {"exec", "raw"} /\ RingFull
  /\ Goto(th, "idle")
  /\ UNCHANGED <<seen, ring, job, image, known, evicted, unmarked, reports, dropped, sensor, ops>>

-----------------------------------------------------------------------------
(* The sensor's read loop.                                                 *)

\* The next record, once it is submitted.
Available(kinds) ==
  /\ read < Len(ring)
  /\ ring[read + 1].state = "ready" /\ ring[read + 1].kind \in kinds

\* execEvent enters the program in the lineage table; a full table drops an
\* arbitrary entry first, even if the process has one already.
ConsumeExec ==
  /\ Available({"exec"})
  /\ LET r == ring[read + 1]
     IN  IF Cardinality(Held) < LineageCap
           THEN lineage' = [lineage EXCEPT ![r.proc] = r.image] /\ UNCHANGED forgot
           ELSE /\ \E v \in Held : lineage' = [lineage EXCEPT ![v] = None, ![r.proc] = r.image]
                /\ forgot' = forgot + 1
  /\ joined' = Append(joined, None)
  /\ read' = read + 1
  /\ UNCHANGED <<kernel, ops>>

\* connEvent joins the connection with the program of its process;
\* rawSockEvent joins with nothing, and a socket of the sensor's is no event.
ConsumeOther ==
  /\ Available({"conn", "raw_socket"})
  /\ LET r == ring[read + 1]
     IN  joined' = Append(joined, IF r.kind = "conn" THEN lineage[r.proc] ELSE None)
  /\ read' = read + 1
  /\ UNCHANGED <<kernel, lineage, forgot, ops>>

-----------------------------------------------------------------------------
Probe(th) ==
  \/ Hit(th) \/ Miss(th) \/ MarkSeen(th) \/ MarkFails(th) \/ ReserveConn(th) \/ DropConn(th)
  \/ ReserveExec(th) \/ ReserveRaw(th) \/ DropOther(th) \/ Submit(th)

Consume == ConsumeExec \/ ConsumeOther

Next ==
  \/ \E th \in Thread : \/ \E e \in Endpoint : Connect(th, e)
                        \/ \E path \in Path : Exec(th, path)
                        \/ \E s \in Socket : CreateSocket(th, s)
                        \/ Probe(th)
  \/ Consume

Spec == Init /\ [][Next]_vars

\* A BPF program that has begun runs to its end, and the sensor keeps reading.
Fairness == WF_vars(Consume) /\ \A th \in Thread : WF_vars(Probe(th))
FairSpec == Spec /\ Fairness

-----------------------------------------------------------------------------
(* Properties.                                                             *)

\* The type of the state, with the ring and the lineage table never over their
\* capacity.
TypeOK ==
  /\ seen \subseteq Tuple
  /\ ring \in Seq(Record)
  /\ read \in 0..Len(ring) /\ Len(ring) - read <= RingCap
  /\ pc \in [Thread -> Point] /\ job \in [Thread -> Tuple \union {None}]
  /\ \A th \in Thread : pc[th] \in {"lookup", "insert", "reserve"} => job[th] \in Tuple
  /\ image \in [Proc -> Path \union {None}] /\ known \in [Proc -> {"yes", "no"}]
  /\ lineage \in [Proc -> Path \union {None}]
  /\ IsFiniteSet(Held) /\ Cardinality(Held) <= LineageCap
  /\ joined \in Seq(Path \union {None}) /\ Len(joined) = read
  /\ evicted \in [Tuple -> Nat]
  /\ {unmarked, reports} \subseteq [Thread -> [Tuple -> Nat]]
  /\ dropped \subseteq Tuple
  /\ forgot \in Nat /\ ops \in 0..MaxOps

\* A report of the tuple is in the ring, or has been.
Reported(t) == \E i \in 1..Len(ring) : ring[i].tuple = t /\ ring[i].kind = "conn"

\* A probe has marked the tuple as seen and is about to report it.
Reporting(t) == \E th \in Thread : pc[th] = "reserve" /\ job[th] = t

\* Deduplication hides nothing: a tuple that later connections will be
\* silent about was reported, is about to be, or found the ring full.
SeenIsReported ==
  \A t \in seen : Reported(t) \/ Reporting(t) \/ t \in dropped

\* "an evicted tuple simply re-reports once": however the threads of however
\* many processes race, each of them reports a tuple at most once more than the
\* tuple was evicted and than the thread's own insertions of it failed.  The
\* bound is that of a thread: threads that miss the tuple together all report
\* it.
ReportsBounded ==
  \A th \in Thread, t \in Tuple : reports[th][t] <= evicted[t] + unmarked[th][t] + 1

\* "to attribute egress to exec lineage": if the exec record of the program
\* that connected got into the ring, the connection is joined with that
\* program, whatever the process ran before or runs by the time the record is
\* consumed; the lineage table gives nothing rather than something else, and
\* that only after it dropped an entry.
LineageIsRight ==
  \A i \in 1..read :
    ring[i].kind = "conn" /\ ring[i].known = "yes" =>
      joined[i] = ring[i].image \/ (joined[i] = None /\ forgot > 0)

\* What is reserved in the ring is consumed: no record stays busy and holds up
\* the rest.
RecordsAreConsumed ==
  \A i \in 1..MaxOps : Len(ring) >= i ~> read >= i

=============================================================================
