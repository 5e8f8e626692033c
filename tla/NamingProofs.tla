----------------------------- MODULE NamingProofs -----------------------------
(* Proofs about Naming, for any sets of processes, cgroups, addresses and  *)
(* names, any paths of the cgroups, every size of the tables, and any      *)
(* number of happenings.                                                   *)
EXTENDS Naming, TLAPS, FiniteSetTheorems

-----------------------------------------------------------------------------
(* The inductive invariant.                                                *)

Event == [kind : {"conn", "exec", "raw_socket"}, cgroup : Cgroup, pid : Pid,
          addr : Addr \union {None}, image : Path \union {None}]
Entry == [host : Host, until : Nat]
Reply == [host : Host, until : Nat, no : Nat]
Packet == [addr : Addr, host : Host, ttl : Ttl, no : Nat]

WorldTypes ==
  /\ where \in [Pid -> Cgroup \union {None}] /\ program \in [Pid -> Path \union {None}]
  /\ left \subseteq Key /\ strays \subseteq Cgroup
  /\ events \in Seq(Event)
  /\ \A i \in 1..Len(events) :
       /\ events[i].kind = "conn" => events[i].addr \in Addr
       /\ events[i].kind = "exec" => events[i].image \in Path

NameTypes ==
  /\ cache \in [Cgroup -> Identities \union {None}]
  /\ told \in [Cgroup -> Identities \union {None}]
  /\ failed \subseteq Cgroup /\ dropped \subseteq Cgroup
  /\ IsFiniteSet(Held(cache)) /\ Cardinality(Held(cache)) <= IdentCap

TableTypes ==
  /\ lineage \in [Key -> Path \union {None}]
  /\ IsFiniteSet(Held(lineage)) /\ Cardinality(Held(lineage)) <= LineageCap

DnsTypes ==
  /\ clock \in Nat /\ ops \in Nat
  /\ wire \in Seq(Packet) /\ Len(wire) <= WireCap
  /\ entries \in [Addr -> Entry \union {None}] /\ answer \in [Addr -> Reply \union {None}]
  /\ lost \subseteq Addr
  /\ IsFiniteSet(Held(entries)) /\ Cardinality(Held(entries)) <= DnsCap

\* The connection in hand.
JobTypes ==
  /\ job.at \in {"idle", "lookup", "check", "done"}
  /\ job.at \in {"lookup", "check"} => job.conn \in Event /\ job.conn.addr \in Addr

\* An event whose process is not where it was makes its cgroup a stray, unless
\* the process has just gone.
EventsPlaced ==
  \A i \in 1..Len(events) :
    where[events[i].pid] \in {None, events[i].cgroup} \/ events[i].cgroup \in strays

\* What was said of a cgroup is what the cache has, until it drops the cgroup,
\* and is the name of its own path.
NamesKept ==
  \A c \in Cgroup :
    /\ cache[c] # None => told[c] = cache[c]
    /\ told[c] # None /\ c \notin dropped => cache[c] = told[c]
    /\ told[c] # None /\ c \notin strays \union failed =>
         PathOf[c] # <<>> /\ told[c] = ClassifyCgroupPath(PathOf[c], TRUE)

\* An answer and the entry that stands for it.
Agrees(entry, reply) ==
  IF reply = None THEN entry = None
  ELSE entry # None /\ entry.host = reply.host /\ entry.until = reply.until

\* The records in the socket, in the order of the answers they come from.
WireInOrder ==
  /\ \A a \in Addr : answer[a] # None => answer[a].no < ops
  /\ \A i \in 1..Len(wire) :
       /\ answer[wire[i].addr] # None /\ wire[i].no <= answer[wire[i].addr].no
       /\ wire[i].no = answer[wire[i].addr].no => wire[i].host = answer[wire[i].addr].host
  /\ \A i, j \in 1..Len(wire) : i < j => wire[i].no < wire[j].no

\* The latest answer for an address is in the socket, in the cache, or lost.
LatestIsKept ==
  \A a \in Addr :
    \/ a \in lost
    \/ \E i \in 1..Len(wire) : wire[i].addr = a /\ wire[i].no = answer[a].no
    \/ ~ OnWire(a) /\ Agrees(entries[a], answer[a])

\* What the lookup has in hand.
JobAgrees ==
  /\ job.at = "check" /\ job.current =>
       /\ Agrees(job.entry, job.truth)
       /\ job.truth = None \/ job.truth \in Reply
  /\ NameIsCurrent

IsExec(s, i, k) == s[i].kind = "exec" /\ <<s[i].cgroup, s[i].pid>> = k

\* The program x is what the exec records of k before place n of the queue s
\* come to, the table having the ones that were consumed.
Before(s, table, n, k, x) ==
  /\ \A j \in 1..(n - 1) :
       IsExec(s, j, k) /\ (\A m \in (j + 1)..(n - 1) : ~ IsExec(s, m, k)) => s[j].image = x
  /\ (\A j \in 1..(n - 1) : ~ IsExec(s, j, k)) => table[k] \in {None, x}

\* The table and the queue tell the programs of processes that never left, and
\* hold nothing of processes that never came.
ProgramsTold ==
  /\ \A i \in 1..Len(events) :
       events[i].kind = "conn" /\ <<events[i].cgroup, events[i].pid>> \notin left =>
         Before(events, lineage, i, <<events[i].cgroup, events[i].pid>>, events[i].image)
  /\ \A p \in Pid :
       where[p] # None /\ <<where[p], p>> \notin left =>
         Before(events, lineage, Len(events) + 1, <<where[p], p>>, program[p])
  /\ \A k \in Key :
       k \notin left /\ where[k[2]] # k[1] =>
         lineage[k] = None /\ \A i \in 1..Len(events) : ~ IsExec(events, i, k)

JobIsOwn ==
  /\ job.at \in {"lookup", "check"} =>
       LET k == <<job.conn.cgroup, job.conn.pid>>
       IN  k \in left \/ lineage[k] \in {None, job.conn.image}
  /\ ProgramIsOwn

IInv ==
  /\ WorldTypes /\ NameTypes /\ TableTypes /\ DnsTypes /\ JobTypes
  /\ EventsPlaced /\ NamesKept
  /\ WireInOrder /\ LatestIsKept /\ JobAgrees
  /\ ProgramsTold /\ JobIsOwn

-----------------------------------------------------------------------------
(* Constants, sequences, and tables with room for one entry more.          *)

\* The sizes of the tables.
LEMMA Bounds ==
  /\ IdentCap \in Nat /\ IdentCap > 0 /\ LineageCap \in Nat /\ LineageCap > 0
  /\ DnsCap \in Nat /\ DnsCap > 0 /\ WireCap \in Nat /\ WireCap > 0
  /\ Ttl \subseteq Nat
<1>1. IdentCap \in Nat \ {0} /\ LineageCap \in Nat \ {0} /\ DnsCap \in Nat \ {0} /\ WireCap \in Nat \ {0}
  BY SizeAssumption, Zenon
<1> QED
  BY <1>1, SizeAssumption

\* The queue after the consumption of its head.
LEMMA TailIs ==
  ASSUME NEW S, NEW s \in Seq(S), s # <<>>
  PROVE  /\ Tail(s) \in Seq(S) /\ Len(s) \in Nat /\ Len(s) > 0 /\ Len(Tail(s)) = Len(s) - 1
         /\ \A i \in 1..(Len(s) - 1) : Tail(s)[i] = s[i + 1]
         /\ Head(s) = s[1] /\ Head(s) \in S
OBVIOUS

\* The queue after the arrival of x.
LEMMA AppendIs ==
  ASSUME NEW S, NEW s \in Seq(S), NEW x \in S
  PROVE  /\ Append(s, x) \in Seq(S) /\ Len(s) \in Nat /\ Len(Append(s, x)) = Len(s) + 1
         /\ \A i \in 1..Len(s) : Append(s, x)[i] = s[i]
         /\ Append(s, x)[Len(s) + 1] = x
OBVIOUS

\* What making room does to a table, and that one entry more fits in then.
LEMMA RoomFits ==
  ASSUME NEW K, NEW V, None \notin V, NEW table \in [K -> V \union {None}],
         NEW cap \in Nat, cap > 0, IsFiniteSet(Held(table)), Cardinality(Held(table)) <= cap,
         NEW room \in Room(table, cap), NEW k \in K, NEW v \in V
  PROVE  /\ room \in [K -> V \union {None}]
         /\ \A x \in K : room[x] = table[x] \/ (room[x] = None /\ table[x] # None)
         /\ [room EXCEPT ![k] = v] \in [K -> V \union {None}]
         /\ IsFiniteSet(Held([room EXCEPT ![k] = v]))
         /\ Cardinality(Held([room EXCEPT ![k] = v])) <= cap
<1>1. /\ room \in [K -> V \union {None}]
      /\ \A x \in K : room[x] = table[x] \/ (room[x] = None /\ table[x] # None)
      /\ IsFiniteSet(Held(room)) /\ Cardinality(Held(room)) < cap
  <2>0. Cardinality(Held(table)) \in Nat
    BY FS_CardinalityType
  <2>1. CASE Cardinality(Held(table)) < cap
    BY <2>1 DEF Room
  <2>2. CASE ~ (Cardinality(Held(table)) < cap)
    <3>1. PICK h \in Held(table) : room = [table EXCEPT ![h] = None]
      BY <2>2 DEF Room
    <3>2. Held(room) = Held(table) \ {h}
      BY <3>1 DEF Held
    <3>3. IsFiniteSet(Held(room)) /\ Cardinality(Held(room)) = Cardinality(Held(table)) - 1
      BY <3>2, FS_RemoveElement
    <3>4. h \in K /\ table[h] # None
      BY DEF Held
    <3>5. \A x \in K : room[x] = IF x = h THEN None ELSE table[x]
      BY <3>1
    <3>6. room \in [K -> V \union {None}]
      BY <3>1
    <3> QED
      BY <2>0, <3>3, <3>4, <3>5, <3>6
  <2> QED
    BY <2>1, <2>2
<1>2. [room EXCEPT ![k] = v] \in [K -> V \union {None}]
  BY <1>1
<1>3. Held([room EXCEPT ![k] = v]) = Held(room) \union {k}
  BY <1>1 DEF Held
<1>4. /\ IsFiniteSet(Held(room) \union {k})
      /\ Cardinality(Held(room) \union {k}) \in {Cardinality(Held(room)), Cardinality(Held(room)) + 1}
  BY <1>1, FS_AddElement
<1>5. Cardinality(Held(room)) \in Nat /\ Cardinality(Held(room)) < cap
  BY <1>1, FS_CardinalityType
<1>6. Cardinality(Held(room) \union {k}) <= cap
  BY <1>4, <1>5
<1>7. IsFiniteSet(Held([room EXCEPT ![k] = v])) /\ Cardinality(Held([room EXCEPT ![k] = v])) <= cap
  BY <1>3, <1>4, <1>6, Zenon
<1> QED
  BY <1>1, <1>2, <1>7

-----------------------------------------------------------------------------
(* The steps, by what they touch.                                          *)

Processes == \E p \in Pid : Exit(p) \/ \E c \in Cgroup : Fork(p, c) \/ Move(p, c)
Records   == \E p \in Pid : \/ CreateSocket(p)
                            \/ \E x \in Path : Exec(p, x)
                            \/ \E a \in Addr : Connect(p, a)
Answers   == \E a \in Addr, h \in Host, ttl \in Ttl : Answer(a, h, ttl)
Consumes3 == ConsumeExec \/ ConsumeRaw \/ ConsumeConn
Lookups   == LookupRead \/ LookupCheck

LEMMA NextIs == Next <=> Processes \/ Records \/ Answers \/ Tick \/ Snoop \/ Consumes3 \/ Lookups
BY Zenon DEF Next, Processes, Records, Answers, Consumes3, Lookups

\* Processes come, go and move: no part of the sensor is touched.
LEMMA ProcessesAside == Processes => UNCHANGED <<names, dns, events, clock, lineage, job>>
BY DEF Processes, Exit, Fork, Move

LEMMA RecordsAside == Records => UNCHANGED <<where, left, strays, names, dns, clock, lineage, job>>
BY DEF Records, CreateSocket, Exec, Connect, world

LEMMA AnswersAside == Answers => UNCHANGED <<world, names, entries, events, clock, lineage, job>>
BY DEF Answers, Answer

LEMMA ConsumesAside == Consumes3 => UNCHANGED <<world, dns, clock, ops>>
BY DEF Consumes3, ConsumeExec, ConsumeRaw, ConsumeConn

LEMMA LookupsAside == Lookups => UNCHANGED <<world, names, dns, events, clock, lineage, ops>>
BY DEF Lookups, LookupRead, LookupCheck

\* What happens is counted.
LEMMA OpsGrow == Processes \/ Records \/ Answers \/ Tick => Happens
BY DEF Processes, Exit, Fork, Move, Records, CreateSocket, Exec, Connect, Answers, Answer, Tick

\* The read loop takes the head of the queue, and resolves its cgroup.
LEMMA ConsumesHead ==
  ASSUME Consumes3
  PROVE  /\ events # <<>> /\ events' = Tail(events)
         /\ Resolve(Head(events).cgroup, Head(events).pid)
         /\ job.at \in {"idle", "done"}
BY DEF Consumes3, ConsumeExec, ConsumeRaw, ConsumeConn, Consumes, Idle

\* A record has the cgroup of the moment.
LEMMA RecordsAppend ==
  ASSUME IInv, Records
  PROVE  \E e \in Event : /\ events' = Append(events, e)
                          /\ where[e.pid] = e.cgroup
                          /\ e.kind = "conn" => e.addr \in Addr /\ e.image = program[e.pid] /\ program' = program
                          /\ e.kind = "exec" => e.image \in Path /\ program' = [program EXCEPT ![e.pid] = e.image]
                          /\ e.kind = "raw_socket" => program' = program
<1> USE DEF Event, IInv, WorldTypes
<1>1. ASSUME NEW p \in Pid, CreateSocket(p)
      PROVE  /\ where[p] \in Cgroup /\ program' = program
             /\ events' = Append(events, [kind |-> "raw_socket", cgroup |-> where[p], pid |-> p, addr |-> None, image |-> None])
  BY <1>1 DEF CreateSocket, Record, world
<1>2. ASSUME NEW p \in Pid, NEW x \in Path, Exec(p, x)
      PROVE  /\ where[p] \in Cgroup /\ program' = [program EXCEPT ![p] = x]
             /\ events' = Append(events, [kind |-> "exec", cgroup |-> where[p], pid |-> p, addr |-> None, image |-> x])
  BY <1>2 DEF Exec, Record
<1>3. ASSUME NEW p \in Pid, NEW a \in Addr, Connect(p, a)
      PROVE  /\ where[p] \in Cgroup /\ program' = program
             /\ events' = Append(events, [kind |-> "conn", cgroup |-> where[p], pid |-> p, addr |-> a, image |-> program[p]])
  BY <1>3 DEF Connect, Record, world
<1>4. CASE \E p \in Pid : CreateSocket(p)
  <2>1. PICK p \in Pid : CreateSocket(p)
    BY <1>4
  <2> DEFINE e == [kind |-> "raw_socket", cgroup |-> where[p], pid |-> p, addr |-> None, image |-> None]
  <2>2. e \in Event /\ events' = Append(events, e) /\ where[e.pid] = e.cgroup /\ program' = program
    BY <1>1, <2>1
  <2>3. e.kind = "raw_socket"
    OBVIOUS
  <2> QED
    BY <2>2, <2>3
<1>5. CASE \E p \in Pid, x \in Path : Exec(p, x)
  <2>1. PICK p \in Pid, x \in Path : Exec(p, x)
    BY <1>5
  <2> DEFINE e == [kind |-> "exec", cgroup |-> where[p], pid |-> p, addr |-> None, image |-> x]
  <2>2. e \in Event /\ events' = Append(events, e) /\ where[e.pid] = e.cgroup
    BY <1>2, <2>1
  <2>3. e.kind = "exec" /\ e.pid = p /\ e.image = x /\ program' = [program EXCEPT ![p] = x]
    BY <1>2, <2>1
  <2> QED
    BY <2>2, <2>3
<1>6. CASE \E p \in Pid, a \in Addr : Connect(p, a)
  <2>1. PICK p \in Pid, a \in Addr : Connect(p, a)
    BY <1>6
  <2> DEFINE e == [kind |-> "conn", cgroup |-> where[p], pid |-> p, addr |-> a, image |-> program[p]]
  <2>2. e \in Event /\ events' = Append(events, e) /\ where[e.pid] = e.cgroup
    BY <1>3, <2>1
  <2>3. e.kind = "conn" /\ e.addr = a /\ e.image = program[e.pid] /\ program' = program
    BY <1>3, <2>1
  <2> QED
    BY <2>2, <2>3
<1> QED
  BY <1>4, <1>5, <1>6 DEF Records

-----------------------------------------------------------------------------
(* Each part of the invariant, in turn.                                    *)

LEMMA InitInv == Init => IInv
<1> SUFFICES ASSUME Init PROVE IInv
  OBVIOUS
<1>1. WorldTypes
  BY CgroupAssumption DEF Init, WorldTypes
<1>2. NameTypes /\ TableTypes
  <2>1. Held(cache) = {} /\ Held(lineage) = {}
    BY DEF Init, Held
  <2>2. IsFiniteSet(Held(cache)) /\ Cardinality(Held(cache)) <= IdentCap
    BY <2>1, Bounds, FS_EmptySet
  <2>3. IsFiniteSet(Held(lineage)) /\ Cardinality(Held(lineage)) <= LineageCap
    BY <2>1, Bounds, FS_EmptySet
  <2> QED
    BY <2>2, <2>3 DEF Init, NameTypes, TableTypes
<1>3. DnsTypes
  <2>1. Held(entries) = {}
    BY DEF Init, Held
  <2>2. IsFiniteSet(Held(entries)) /\ Cardinality(Held(entries)) = 0
    BY <2>1, FS_EmptySet
  <2>3. wire \in Seq(Packet) /\ Len(wire) = 0
    BY DEF Init
  <2> QED
    BY <2>2, <2>3, Bounds DEF Init, DnsTypes
<1>4. JobTypes /\ EventsPlaced /\ NamesKept
  BY DEF Init, JobTypes, EventsPlaced, NamesKept
<1>5. WireInOrder /\ LatestIsKept
  BY DEF Init, WireInOrder, LatestIsKept, OnWire, Agrees
<1>6. JobAgrees /\ JobIsOwn
  BY DEF Init, JobAgrees, JobIsOwn, NameIsCurrent, ProgramIsOwn
<1>7. ProgramsTold
  <2>1. Len(events) = 0 /\ (\A i : i \in 1..Len(events) => FALSE) /\ (\A i : i \in 1..(Len(events) + 1 - 1) => FALSE)
    BY DEF Init
  <2>2. \A k \in Key : lineage[k] = None
    BY DEF Init
  <2>3. \A p \in Pid : where[p] # None => <<where[p], p>> \in Key
    BY CgroupAssumption DEF Init, Key
  <2> HIDE DEF Init
  <2> QED
    BY <2>1, <2>2, <2>3 DEF ProgramsTold, Before
<1> QED
  BY <1>1, <1>2, <1>3, <1>4, <1>5, <1>6, <1>7 DEF IInv

\* The world.
LEMMA WorldStep ==
  ASSUME IInv, [Next]_vars
  PROVE  WorldTypes' /\ EventsPlaced'
<1> USE DEF IInv, WorldTypes, EventsPlaced
<1>1. CASE Processes
  <2>1. UNCHANGED events
    BY <1>1, ProcessesAside
  <2>2. ASSUME NEW p \in Pid, NEW c \in Cgroup, Enters(p, c)
        PROVE  strays' \subseteq Cgroup /\ where' \in [Pid -> Cgroup \union {None}] /\ EventsPlaced'
    <3>1. where' = [where EXCEPT ![p] = c]
      BY <2>2 DEF Enters
    <3>2. strays' = strays \union {e.cgroup : e \in {events[i] : i \in {j \in DOMAIN events :
                                    events[j].pid = p /\ events[j].cgroup # c}}}
      BY <2>2 DEF Enters
    <3>3. DOMAIN events = 1..Len(events) /\ \A i \in 1..Len(events) : events[i] \in Event
      OBVIOUS
    <3>4. strays' \subseteq Cgroup
      BY <3>2, <3>3 DEF Event
    <3>5. strays \subseteq strays' /\ \A i \in 1..Len(events) : events[i].pid = p => events[i].cgroup \in strays' \union {c}
      BY <3>2, <3>3
    <3>6. \A i \in 1..Len(events) : events[i].pid # p => where'[events[i].pid] = where[events[i].pid]
      BY <3>1, <3>3 DEF Event
    <3>7. EventsPlaced'
      BY <2>1, <3>1, <3>5, <3>6
    <3> QED
      BY <3>1, <3>4, <3>7
  <2>3. ASSUME NEW p \in Pid, Exit(p)
        PROVE  WorldTypes' /\ EventsPlaced'
    <3>1. where' = [where EXCEPT ![p] = None] /\ UNCHANGED <<program, strays>>
      BY <2>3 DEF Exit
    <3>2. left' = left \union {<<where[p], p>>} /\ where[p] \in Cgroup
      BY <2>3 DEF Exit
    <3>3. \A i \in 1..Len(events) : where'[events[i].pid] \in {where[events[i].pid], None}
      BY <3>1 DEF Event
    <3> QED
      BY <2>1, <3>1, <3>2, <3>3 DEF Key
  <2>4. ASSUME NEW p \in Pid, NEW c \in Cgroup, Fork(p, c)
        PROVE  WorldTypes' /\ EventsPlaced'
    <3>1. Enters(p, c) /\ program' = [program EXCEPT ![p] = None] /\ left' = left
      BY <2>4 DEF Fork
    <3> QED
      BY <2>1, <2>2, <3>1
  <2>5. ASSUME NEW p \in Pid, NEW c \in Cgroup, Move(p, c)
        PROVE  WorldTypes' /\ EventsPlaced'
    <3>1. Enters(p, c) /\ program' = program /\ left' = left \union {<<where[p], p>>} /\ where[p] \in Cgroup
      BY <2>5 DEF Move
    <3> QED
      BY <2>1, <2>2, <3>1 DEF Key
  <2> QED
    BY <1>1, <2>3, <2>4, <2>5 DEF Processes
<1>2. CASE Records
  <2>1. PICK e \in Event : /\ events' = Append(events, e)
                           /\ where[e.pid] = e.cgroup
                           /\ e.kind = "conn" => e.addr \in Addr /\ e.image = program[e.pid] /\ program' = program
                           /\ e.kind = "exec" => e.image \in Path /\ program' = [program EXCEPT ![e.pid] = e.image]
                           /\ e.kind = "raw_socket" => program' = program
    BY <1>2, RecordsAppend
  <2>2. UNCHANGED <<where, left, strays>>
    BY <1>2, RecordsAside
  <2>3. /\ events' \in Seq(Event) /\ Len(events) \in Nat /\ Len(events') = Len(events) + 1
        /\ \A i \in 1..Len(events) : events'[i] = events[i]
        /\ events'[Len(events) + 1] = e
    BY <2>1, AppendIs
  <2>4. program' \in [Pid -> Path \union {None}]
    BY <2>1 DEF Event
  <2>5. \A i \in 1..Len(events') : i \in 1..Len(events) \/ i = Len(events) + 1
    BY <2>3
  <2> QED
    BY <2>1, <2>2, <2>3, <2>4, <2>5
<1>3. CASE Consumes3
  <2>1. UNCHANGED world /\ events # <<>> /\ events' = Tail(events)
    BY <1>3, ConsumesAside, ConsumesHead
  <2>2. /\ events' \in Seq(Event) /\ Len(events) \in Nat /\ Len(events') = Len(events) - 1
        /\ \A i \in 1..(Len(events) - 1) : events'[i] = events[i + 1]
    BY <2>1, TailIs
  <2>3. \A i \in 1..Len(events') : i + 1 \in 1..Len(events) /\ events'[i] = events[i + 1]
    BY <2>2
  <2> QED
    BY <2>1, <2>2, <2>3 DEF world
<1>4. CASE Answers \/ Tick \/ Snoop \/ Lookups \/ UNCHANGED vars
  <2>1. UNCHANGED <<world, events>>
    BY <1>4, AnswersAside, LookupsAside DEF Tick, Snoop, vars
  <2> QED
    BY <2>1 DEF world
<1> QED
  BY <1>1, <1>2, <1>3, <1>4, NextIs

\* What Resolve does: the cached name again, nothing, or a new entry.
LEMMA ResolveIs ==
  ASSUME IInv, NEW c \in Cgroup, NEW p \in Pid, Resolve(c, p)
  PROVE  \/ cache[c] # None /\ told' = [told EXCEPT ![c] = cache[c]] /\ UNCHANGED <<cache, failed, dropped>>
         \/ cache[c] = None /\ (where[p] = None \/ PathOf[where[p]] = <<>>) /\ UNCHANGED names
         \/ /\ cache[c] = None /\ where[p] \in Cgroup /\ PathOf[where[p]] # <<>>
            /\ \E ok \in BOOLEAN, room \in Room(cache, IdentCap) :
                 /\ cache' = [room EXCEPT ![c] = ClassifyCgroupPath(PathOf[where[p]], ok)]
                 /\ told' = [told EXCEPT ![c] = ClassifyCgroupPath(PathOf[where[p]], ok)]
                 /\ failed' = IF ok THEN failed ELSE failed \union {where[p]}
                 /\ dropped' = dropped \union {k \in Held(cache) : room[k] = None}
<1>0. where[p] \in Cgroup \union {None}
  BY DEF IInv, WorldTypes
<1>1. CASE cache[c] # None
  BY <1>1, Zenon DEF Resolve
<1>2. CASE cache[c] = None /\ CgroupPathForPID(p) = <<>>
  BY <1>2 DEF Resolve, CgroupPathForPID
<1>3. CASE cache[c] = None /\ CgroupPathForPID(p) # <<>>
  <2>1. where[p] \in Cgroup /\ PathOf[where[p]] # <<>> /\ CgroupPathForPID(p) = PathOf[where[p]]
    BY <1>0, <1>3 DEF CgroupPathForPID
  <2>2. Inspections(PathOf[where[p]]) \subseteq BOOLEAN
    BY Zenon DEF Inspections
  <2>3. \E ok \in Inspections(CgroupPathForPID(p)), room \in Room(cache, IdentCap) :
                 /\ cache' = [room EXCEPT ![c] = ClassifyCgroupPath(CgroupPathForPID(p), ok)]
                 /\ told' = [told EXCEPT ![c] = ClassifyCgroupPath(CgroupPathForPID(p), ok)]
                 /\ failed' = IF ok THEN failed ELSE failed \union {where[p]}
                 /\ dropped' = dropped \union {k \in Held(cache) : room[k] = None}
    BY <1>3, Zenon DEF Resolve
  <2> QED
    BY <1>3, <2>1, <2>2, <2>3
<1> QED
  BY <1>1, <1>2, <1>3

\* The names after Resolve.  Only the third case needs a look: whoever is asked
\* is a process of the cgroup, or the cgroup is a stray.
LEMMA ResolveStep ==
  ASSUME IInv, NEW c \in Cgroup, NEW p \in Pid, Resolve(c, p),
         where[p] \in {None, c} \/ c \in strays, UNCHANGED strays
  PROVE  NameTypes' /\ NamesKept'
<1> USE DEF IInv
<1>1. CASE cache[c] # None /\ told' = [told EXCEPT ![c] = cache[c]] /\ UNCHANGED <<cache, failed, dropped>>
  <2>1. told[c] = cache[c]
    BY <1>1 DEF NamesKept
  <2>2. told' = told
    BY <1>1, <2>1 DEF NameTypes
  <2> QED
    BY <1>1, <2>2 DEF NameTypes, NamesKept, Held
<1>2. CASE UNCHANGED names
  BY <1>2 DEF names, NameTypes, NamesKept, Held
<1>3. CASE /\ cache[c] = None /\ where[p] \in Cgroup /\ PathOf[where[p]] # <<>>
           /\ \E ok \in BOOLEAN, room \in Room(cache, IdentCap) :
                 /\ cache' = [room EXCEPT ![c] = ClassifyCgroupPath(PathOf[where[p]], ok)]
                 /\ told' = [told EXCEPT ![c] = ClassifyCgroupPath(PathOf[where[p]], ok)]
                 /\ failed' = IF ok THEN failed ELSE failed \union {where[p]}
                 /\ dropped' = dropped \union {k \in Held(cache) : room[k] = None}
  <2>1. PICK ok \in BOOLEAN, room \in Room(cache, IdentCap) :
                 /\ cache' = [room EXCEPT ![c] = ClassifyCgroupPath(PathOf[where[p]], ok)]
                 /\ told' = [told EXCEPT ![c] = ClassifyCgroupPath(PathOf[where[p]], ok)]
                 /\ failed' = IF ok THEN failed ELSE failed \union {where[p]}
                 /\ dropped' = dropped \union {k \in Held(cache) : room[k] = None}
    BY <1>3
  <2> DEFINE id == ClassifyCgroupPath(PathOf[where[p]], ok)
  <2>2. id \in Identities /\ id # None
    BY <1>3, CgroupAssumption DEF Identities
  <2> HIDE DEF id
  <2>3. /\ cache' = [room EXCEPT ![c] = id] /\ told' = [told EXCEPT ![c] = id]
    BY <2>1 DEF id
  <2>4. /\ room \in [Cgroup -> Identities \union {None}]
        /\ \A x \in Cgroup : room[x] = cache[x] \/ (room[x] = None /\ cache[x] # None)
        /\ [room EXCEPT ![c] = id] \in [Cgroup -> Identities \union {None}]
        /\ IsFiniteSet(Held([room EXCEPT ![c] = id])) /\ Cardinality(Held([room EXCEPT ![c] = id])) <= IdentCap
    <3>1. /\ cache \in [Cgroup -> Identities \union {None}] /\ None \notin Identities
          /\ IsFiniteSet(Held(cache)) /\ Cardinality(Held(cache)) <= IdentCap
          /\ IdentCap \in Nat /\ IdentCap > 0
      BY Bounds, CgroupAssumption DEF NameTypes
    <3> QED
      BY <2>2, <3>1, RoomFits
  <2>5. failed \subseteq failed' /\ failed' \subseteq Cgroup /\ (~ ok => where[p] \in failed')
    BY <1>3, <2>1 DEF NameTypes
  <2>6. dropped \subseteq dropped' /\ dropped' \subseteq Cgroup
    BY <2>1 DEF NameTypes, Held
  <2>7. \A x \in Cgroup : x \notin dropped' => room[x] = cache[x]
    <3> SUFFICES ASSUME NEW x \in Cgroup, room[x] # cache[x] PROVE x \in dropped'
      OBVIOUS
    <3>1. room[x] = None /\ cache[x] # None
      BY <2>4
    <3>2. x \in Held(cache)
      BY <3>1 DEF NameTypes, Held
    <3> QED
      BY <2>1, <3>1, <3>2
  <2>8. told' \in [Cgroup -> Identities \union {None}]
    BY <2>2, <2>3 DEF NameTypes
  <2>9. NameTypes'
    BY <2>3, <2>4, <2>5, <2>6, <2>8, Zenon DEF NameTypes
  <2>10. c \notin strays' \union failed' => PathOf[c] # <<>> /\ id = ClassifyCgroupPath(PathOf[c], TRUE)
    <3> SUFFICES ASSUME c \notin strays' \union failed'
                 PROVE  PathOf[c] # <<>> /\ id = ClassifyCgroupPath(PathOf[c], TRUE)
      OBVIOUS
    <3>1. where[p] = c
      BY <1>3, CgroupAssumption
    <3>2. ok = TRUE
      BY <2>5, <3>1
    <3> QED
      BY <1>3, <3>1, <3>2 DEF id
  <2>11. ASSUME NEW x \in Cgroup
         PROVE  /\ cache'[x] # None => told'[x] = cache'[x]
                /\ told'[x] # None /\ x \notin dropped' => cache'[x] = told'[x]
                /\ told'[x] # None /\ x \notin strays' \union failed' =>
                     PathOf[x] # <<>> /\ told'[x] = ClassifyCgroupPath(PathOf[x], TRUE)
    <3>1. CASE x = c
      <4>1. cache'[x] = id /\ told'[x] = id
        BY <2>3, <2>4, <3>1 DEF NameTypes
      <4> QED
        BY <3>1, <4>1, <2>10
    <3>2. CASE x # c
      <4>1. cache'[x] = room[x] /\ told'[x] = told[x]
        BY <2>3, <2>4, <3>2 DEF NameTypes
      <4>2. /\ cache[x] # None => told[x] = cache[x]
            /\ told[x] # None /\ x \notin dropped => cache[x] = told[x]
            /\ told[x] # None /\ x \notin strays \union failed =>
                 PathOf[x] # <<>> /\ told[x] = ClassifyCgroupPath(PathOf[x], TRUE)
        BY DEF NamesKept
      <4>3. room[x] # None => room[x] = cache[x]
        BY <2>4
      <4>4. x \notin dropped' => x \notin dropped /\ room[x] = cache[x]
        BY <2>6, <2>7
      <4>5. x \notin strays' \union failed' => x \notin strays \union failed
        BY <2>5
      <4> QED
        BY <4>1, <4>2, <4>3, <4>4, <4>5
    <3> QED
      BY <3>1, <3>2
  <2>12. NamesKept'
    BY <2>11, Zenon DEF NamesKept
  <2> QED
    BY <2>9, <2>12
<1> QED
  BY <1>1, <1>2, <1>3, ResolveIs

\* The identities.
LEMMA NamesStep ==
  ASSUME IInv, [Next]_vars
  PROVE  NameTypes' /\ NamesKept'
<1>1. CASE Consumes3
  <2> DEFINE e == Head(events)
  <2>1. Resolve(e.cgroup, e.pid) /\ events # <<>>
    BY <1>1, ConsumesHead
  <2>2. e = events[1] /\ e \in Event /\ 1 \in 1..Len(events)
    BY <2>1 DEF IInv, WorldTypes
  <2>3. where[e.pid] \in {None, e.cgroup} \/ e.cgroup \in strays
    BY <2>2 DEF IInv, EventsPlaced
  <2>4. UNCHANGED strays
    BY <1>1, ConsumesAside DEF world
  <2>5. e.cgroup \in Cgroup /\ e.pid \in Pid
    BY <2>2 DEF Event
  <2> HIDE DEF e
  <2> QED
    BY <2>1, <2>3, <2>4, <2>5, ResolveStep
<1>2. CASE ~ Consumes3
  <2>1. UNCHANGED names
    BY <1>2, NextIs, ProcessesAside, RecordsAside, AnswersAside, LookupsAside DEF Tick, Snoop, vars
  <2>2. strays \subseteq strays'
    <3>1. Processes => strays \subseteq strays'
      BY DEF Processes, Exit, Fork, Move, Enters
    <3>2. Records \/ Answers \/ Tick \/ Snoop \/ Lookups \/ UNCHANGED vars => UNCHANGED strays
      BY RecordsAside, AnswersAside, LookupsAside DEF Tick, Snoop, vars, world
    <3> QED
      BY <1>2, <3>1, <3>2, NextIs
  <2> QED
    BY <2>1, <2>2 DEF names, NameTypes, NamesKept, Held, IInv
<1> QED
  BY <1>1, <1>2

\* The lineage table changes only when an exec record is consumed.
LEMMA LineageIs ==
  ASSUME IInv, ConsumeExec
  PROVE  /\ events # <<>> /\ Head(events).kind = "exec" /\ Head(events) \in Event /\ Head(events).image \in Path
         /\ \E room \in Room(lineage, LineageCap) :
              /\ lineage' = [room EXCEPT ![<<Head(events).cgroup, Head(events).pid>>] = Head(events).image]
              /\ room \in [Key -> Path \union {None}]
              /\ \A k \in Key : room[k] \in {lineage[k], None}
         /\ TableTypes'
<1> DEFINE e == Head(events)
<1>1. events # <<>> /\ e.kind = "exec"
  BY DEF ConsumeExec, Consumes
<1>2. e = events[1] /\ e \in Event /\ 1 \in 1..Len(events)
  BY <1>1 DEF IInv, WorldTypes
<1>3. e.image \in Path
  BY <1>1, <1>2 DEF IInv, WorldTypes
<1>4. PICK room \in Room(lineage, LineageCap) : lineage' = [room EXCEPT ![<<e.cgroup, e.pid>>] = e.image]
  BY DEF ConsumeExec
<1> HIDE DEF e
<1>5. <<e.cgroup, e.pid>> \in Key
  BY <1>2 DEF Event, Key
<1>6. /\ lineage \in [Key -> Path \union {None}] /\ None \notin Path
      /\ IsFiniteSet(Held(lineage)) /\ Cardinality(Held(lineage)) <= LineageCap
      /\ LineageCap \in Nat /\ LineageCap > 0
  BY Bounds, CgroupAssumption DEF IInv, TableTypes
<1>7. /\ room \in [Key -> Path \union {None}]
      /\ \A k \in Key : room[k] = lineage[k] \/ (room[k] = None /\ lineage[k] # None)
      /\ [room EXCEPT ![<<e.cgroup, e.pid>>] = e.image] \in [Key -> Path \union {None}]
      /\ IsFiniteSet(Held([room EXCEPT ![<<e.cgroup, e.pid>>] = e.image]))
      /\ Cardinality(Held([room EXCEPT ![<<e.cgroup, e.pid>>] = e.image])) <= LineageCap
  <2> DEFINE key == <<e.cgroup, e.pid>>
             x   == e.image
  <2>1. key \in Key /\ x \in Path
    BY <1>3, <1>5
  <2> HIDE DEF key, x
  <2>2. /\ room \in [Key -> Path \union {None}]
        /\ \A k \in Key : room[k] = lineage[k] \/ (room[k] = None /\ lineage[k] # None)
        /\ [room EXCEPT ![key] = x] \in [Key -> Path \union {None}]
        /\ IsFiniteSet(Held([room EXCEPT ![key] = x]))
        /\ Cardinality(Held([room EXCEPT ![key] = x])) <= LineageCap
    BY <1>6, <2>1, RoomFits
  <2> QED
    BY <2>2 DEF key, x
<1>8. TableTypes'
  BY <1>4, <1>7, Zenon DEF TableTypes
<1>9. \A k \in Key : room[k] \in {lineage[k], None}
  BY <1>7
<1> QED
  BY <1>1, <1>2, <1>3, <1>4, <1>7, <1>8, <1>9, Zenon DEF e

\* No other step does.
LEMMA LineageAside == [Next]_vars => ConsumeExec \/ UNCHANGED lineage
<1>1. ConsumeRaw \/ ConsumeConn => UNCHANGED lineage
  BY DEF ConsumeRaw, ConsumeConn
<1>2. Tick \/ Snoop \/ UNCHANGED vars => UNCHANGED lineage
  BY DEF Tick, Snoop, vars
<1> QED
  BY <1>1, <1>2, NextIs, ProcessesAside, RecordsAside, AnswersAside, LookupsAside, Zenon DEF Consumes3

LEMMA TableStep ==
  ASSUME IInv, [Next]_vars
  PROVE  TableTypes'
<1>1. CASE ConsumeExec
  BY <1>1, LineageIs
<1>2. CASE UNCHANGED lineage
  BY <1>2 DEF IInv, TableTypes, Held
<1> QED
  BY <1>1, <1>2, LineageAside

-----------------------------------------------------------------------------
(* DNS.                                                                    *)

\* An answer goes into the socket, or is lost.
LEMMA AnswerStep ==
  ASSUME IInv, NEW a \in Addr, NEW h \in Host, NEW ttl \in Ttl, Answer(a, h, ttl)
  PROVE  DnsTypes' /\ WireInOrder' /\ LatestIsKept'
<1> DEFINE reply == [host |-> h, until |-> clock + ttl, no |-> ops]
           r     == [addr |-> a, host |-> h, ttl |-> ttl, no |-> ops]
<1>0. /\ clock \in Nat /\ ops \in Nat /\ ttl \in Nat
      /\ wire \in Seq(Packet) /\ Len(wire) \in Nat
      /\ answer \in [Addr -> Reply \union {None}] /\ lost \subseteq Addr
  BY Bounds DEF IInv, DnsTypes
<1>a. WireInOrder /\ LatestIsKept
  BY DEF IInv
<1>1. ops' = ops + 1 /\ clock' = clock /\ entries' = entries
  BY DEF Answer, Happens
<1>2. answer' = [answer EXCEPT ![a] = reply]
  BY DEF Answer
<1>3. reply \in Reply /\ r \in Packet /\ reply # None
  <2>1. clock + ttl \in Nat
    BY <1>0
  <2>2. reply \in Reply /\ r \in Packet
    BY <1>0, <2>1 DEF Reply, Packet
  <2> QED
    BY <2>2, EntryAssumption DEF Reply
<1>4. reply.host = h /\ reply.no = ops /\ r.addr = a /\ r.host = h /\ r.no = ops
  OBVIOUS
<1>5. \/ wire' = Append(wire, r) /\ Len(wire) < WireCap /\ lost' = lost
      \/ wire' = wire /\ lost' = lost \union {a}
  BY DEF Answer
<1> HIDE DEF reply, r
<1>6. /\ wire' \in Seq(Packet) /\ Len(wire') <= WireCap
      /\ Len(wire') \in {Len(wire), Len(wire) + 1}
      /\ \A i \in 1..Len(wire) : wire'[i] = wire[i]
      /\ Len(wire') = Len(wire) + 1 => wire'[Len(wire) + 1] = r
      /\ Len(wire') = Len(wire) => wire' = wire /\ lost' = lost \union {a}
      /\ Len(wire') = Len(wire) + 1 => lost' = lost
  <2>1. CASE wire' = Append(wire, r) /\ Len(wire) < WireCap /\ lost' = lost
    <3>1. /\ wire' \in Seq(Packet) /\ Len(wire') = Len(wire) + 1
          /\ \A i \in 1..Len(wire) : wire'[i] = wire[i]
          /\ wire'[Len(wire) + 1] = r
      BY <1>0, <1>3, <2>1, AppendIs
    <3> QED
      BY <1>0, <2>1, <3>1, Bounds
  <2>2. CASE wire' = wire /\ lost' = lost \union {a}
    BY <1>0, <2>2 DEF IInv, DnsTypes
  <2> QED
    BY <1>5, <2>1, <2>2
<1>7. \A i \in 1..Len(wire') : i \in 1..Len(wire) \/ (i = Len(wire) + 1 /\ Len(wire') = Len(wire) + 1)
  BY <1>0, <1>6
<1>8. DnsTypes'
  BY <1>0, <1>1, <1>2, <1>3, <1>6 DEF IInv, DnsTypes, Held
<1>9. \A i \in 1..Len(wire) :
        /\ wire[i] \in Packet /\ wire[i].addr \in Addr /\ wire[i].no \in Nat /\ wire[i].no < ops
        /\ answer[wire[i].addr] # None /\ wire[i].no <= answer[wire[i].addr].no
        /\ wire[i].no = answer[wire[i].addr].no => wire[i].host = answer[wire[i].addr].host
  <2> SUFFICES ASSUME NEW i \in 1..Len(wire)
               PROVE  /\ wire[i] \in Packet /\ wire[i].addr \in Addr /\ wire[i].no \in Nat /\ wire[i].no < ops
                      /\ answer[wire[i].addr] # None /\ wire[i].no <= answer[wire[i].addr].no
                      /\ wire[i].no = answer[wire[i].addr].no => wire[i].host = answer[wire[i].addr].host
    OBVIOUS
  <2>0. wire[i] \in Packet
    BY <1>0
  <2>1. wire[i] \in Packet /\ wire[i].addr \in Addr /\ wire[i].no \in Nat
    BY <2>0 DEF Packet
  <2>2. /\ answer[wire[i].addr] # None /\ wire[i].no <= answer[wire[i].addr].no
        /\ answer[wire[i].addr].no < ops
        /\ wire[i].no = answer[wire[i].addr].no => wire[i].host = answer[wire[i].addr].host
    BY <1>a, <2>1 DEF WireInOrder
  <2>3. answer[wire[i].addr].no \in Nat
    BY <1>0, <2>1, <2>2 DEF Reply
  <2>4. wire[i].no < ops
    BY <1>0, <2>1, <2>2, <2>3
  <2> QED
    BY <2>1, <2>2, <2>4
<1>10. WireInOrder'
  <2>1. ASSUME NEW b \in Addr, answer'[b] # None PROVE answer'[b].no < ops'
    <3>1. CASE b = a
      BY <1>0, <1>1, <1>2, <1>4, <3>1
    <3>2. CASE b # a
      <4>1. answer'[b] = answer[b] /\ answer[b].no < ops /\ answer[b] \in Reply
        BY <1>0, <1>2, <2>1, <3>2 DEF IInv, WireInOrder
      <4>2. answer[b].no \in Nat
        BY <4>1 DEF Reply
      <4> QED
        BY <1>0, <1>1, <4>1, <4>2
    <3> QED
      BY <3>1, <3>2
  <2>2. ASSUME NEW i \in 1..Len(wire')
        PROVE  /\ answer'[wire'[i].addr] # None /\ wire'[i].no <= answer'[wire'[i].addr].no
               /\ wire'[i].no = answer'[wire'[i].addr].no => wire'[i].host = answer'[wire'[i].addr].host
    <3>1. CASE i = Len(wire) + 1 /\ Len(wire') = Len(wire) + 1
      BY <1>0, <1>2, <1>3, <1>4, <1>6, <3>1
    <3>2. CASE i \in 1..Len(wire)
      <4>1. wire'[i] = wire[i]
        BY <1>6, <3>2
      <4>0. /\ wire[i].addr \in Addr /\ wire[i].no \in Nat /\ wire[i].no < ops
            /\ answer[wire[i].addr] # None /\ wire[i].no <= answer[wire[i].addr].no
            /\ wire[i].no = answer[wire[i].addr].no => wire[i].host = answer[wire[i].addr].host
        BY <1>9, <3>2, Zenon
      <4>2. CASE wire[i].addr = a
        <5>1. answer'[a] = reply /\ wire[i].no < ops /\ wire[i].no \in Nat
          BY <1>0, <1>2, <4>0
        <5> QED
          BY <1>0, <1>3, <1>4, <4>1, <4>2, <5>1
      <4>3. CASE wire[i].addr # a
        <5>1. answer'[wire[i].addr] = answer[wire[i].addr]
          BY <1>0, <1>2, <4>0, <4>3
        <5> QED
          BY <4>0, <4>1, <5>1
      <4> QED
        BY <4>2, <4>3
    <3> QED
      BY <1>7, <3>1, <3>2
  <2>3. ASSUME NEW i \in 1..Len(wire'), NEW j \in 1..Len(wire'), i < j
        PROVE  wire'[i].no < wire'[j].no
    <3>1. i \in 1..Len(wire) /\ wire'[i] = wire[i]
      BY <1>0, <1>6, <1>7, <2>3
    <3>2. CASE j \in 1..Len(wire)
      <4>1. wire'[j] = wire[j]
        BY <1>6, <3>2
      <4>2. wire[i].no < wire[j].no
        BY <1>a, <2>3, <3>1, <3>2, Zenon DEF WireInOrder
      <4> QED
        BY <3>1, <4>1, <4>2
    <3>3. CASE j = Len(wire) + 1 /\ Len(wire') = Len(wire) + 1
      BY <1>4, <1>6, <1>9, <3>1, <3>3
    <3> QED
      BY <1>7, <3>2, <3>3
  <2> QED
    BY <2>1, <2>2, <2>3 DEF WireInOrder
<1>11. ASSUME NEW b \in Addr, b \notin lost'
       PROVE  \/ \E i \in 1..Len(wire') : wire'[i].addr = b /\ wire'[i].no = answer'[b].no
              \/ ~ OnWire(b)' /\ Agrees(entries'[b], answer'[b])
  <2>1. CASE b = a
    <3>1. Len(wire') = Len(wire) + 1 /\ wire'[Len(wire) + 1] = r
      BY <1>6, <1>11, <2>1
    <3>2. answer'[b] = reply
      BY <1>0, <1>2, <2>1
    <3>3. Len(wire) + 1 \in 1..Len(wire')
      BY <1>0, <3>1
    <3> QED
      BY <1>4, <2>1, <3>1, <3>2, <3>3
  <2>2. CASE b # a
    <3>1. answer'[b] = answer[b] /\ b \notin lost
      BY <1>0, <1>2, <1>5, <1>11, <2>2
    <3>2. CASE \E i \in 1..Len(wire) : wire[i].addr = b /\ wire[i].no = answer[b].no
      <4>1. PICK i \in 1..Len(wire) : wire[i].addr = b /\ wire[i].no = answer[b].no
        BY <3>2
      <4>2. i \in 1..Len(wire') /\ wire'[i] = wire[i]
        BY <1>0, <1>6
      <4> QED
        BY <3>1, <4>1, <4>2
    <3>3. CASE ~ OnWire(b) /\ Agrees(entries[b], answer[b])
      <4>1. \A i \in 1..Len(wire) : wire[i].addr # b
        BY <1>0, <3>3 DEF OnWire
      <4>2. \A i \in 1..Len(wire') : wire'[i].addr # b
        BY <1>4, <1>6, <1>7, <2>2, <4>1
      <4>3. ~ OnWire(b)'
        BY <1>6, <4>2 DEF OnWire
      <4> QED
        BY <1>1, <3>1, <3>3, <4>3
    <3> QED
      BY <1>a, <3>1, <3>2, <3>3 DEF LatestIsKept
  <2> QED
    BY <2>1, <2>2
<1>12. LatestIsKept'
  BY <1>11 DEF LatestIsKept
<1> QED
  BY <1>8, <1>10, <1>12

\* The snooper puts the oldest record of the socket into the cache.  If that is
\* the latest answer for its address, no later record for it is in the socket,
\* and the cache has the answer; if not, the latest one is still in the socket
\* or lost, as before.
LEMMA SnoopStep ==
  ASSUME IInv, Snoop
  PROVE  DnsTypes' /\ WireInOrder' /\ LatestIsKept'
<1> DEFINE r     == Head(wire)
           until == clock + r.ttl
           entry == [host |-> r.host, until |-> until]
<1>0. /\ clock \in Nat /\ ops \in Nat /\ wire \in Seq(Packet) /\ wire # <<>>
      /\ answer \in [Addr -> Reply \union {None}] /\ entries \in [Addr -> Entry \union {None}]
      /\ lost \subseteq Addr /\ Len(wire) <= WireCap /\ WireCap \in Nat
      /\ IsFiniteSet(Held(entries)) /\ Cardinality(Held(entries)) <= DnsCap
      /\ DnsCap \in Nat /\ DnsCap > 0
  BY Bounds DEF IInv, DnsTypes, Snoop
<1>a. WireInOrder /\ LatestIsKept
  BY DEF IInv
<1>1. wire' = Tail(wire) /\ clock' = clock /\ ops' = ops /\ Put(r)
  BY DEF Snoop
<1>2. PICK room \in Room(entries, DnsCap) :
        /\ entries' = [room EXCEPT ![r.addr] = entry]
        /\ IF r.no = answer[r.addr].no
             THEN /\ answer' = [answer EXCEPT ![r.addr].until = until]
                  /\ lost' = (lost \union {a \in Held(entries) : room[a] = None}) \ {r.addr}
             ELSE lost' = lost \union {a \in Held(entries) : room[a] = None} /\ UNCHANGED answer
  BY <1>1 DEF Put
<1>3. /\ wire' \in Seq(Packet) /\ Len(wire) \in Nat /\ Len(wire) > 0 /\ Len(wire') = Len(wire) - 1
      /\ \A i \in 1..(Len(wire) - 1) : wire'[i] = wire[i + 1]
      /\ r = wire[1] /\ r \in Packet
  BY <1>0, <1>1, TailIs
<1>4. r.addr \in Addr /\ r.host \in Host /\ r.ttl \in Nat /\ r.no \in Nat
  BY <1>3, Bounds DEF Packet
<1>5. until \in Nat /\ entry \in Entry /\ entry # None /\ entry.host = r.host /\ entry.until = until
  <2>1. until \in Nat
    BY <1>0, <1>4
  <2>2. entry \in Entry
    BY <1>4, <2>1 DEF Entry
  <2> QED
    BY <2>1, <2>2, EntryAssumption DEF Entry
<1> HIDE DEF entry, until, r
<1>6. /\ room \in [Addr -> Entry \union {None}]
      /\ \A x \in Addr : room[x] = entries[x] \/ (room[x] = None /\ entries[x] # None)
      /\ [room EXCEPT ![r.addr] = entry] \in [Addr -> Entry \union {None}]
      /\ IsFiniteSet(Held([room EXCEPT ![r.addr] = entry]))
      /\ Cardinality(Held([room EXCEPT ![r.addr] = entry])) <= DnsCap
  <2>1. None \notin Entry
    BY EntryAssumption DEF Entry
  <2> DEFINE x == r.addr
  <2>2. x \in Addr
    BY <1>4
  <2> HIDE DEF x
  <2>3. /\ room \in [Addr -> Entry \union {None}]
        /\ \A y \in Addr : room[y] = entries[y] \/ (room[y] = None /\ entries[y] # None)
        /\ [room EXCEPT ![x] = entry] \in [Addr -> Entry \union {None}]
        /\ IsFiniteSet(Held([room EXCEPT ![x] = entry]))
        /\ Cardinality(Held([room EXCEPT ![x] = entry])) <= DnsCap
    BY <1>0, <1>5, <2>1, <2>2, RoomFits
  <2> QED
    BY <2>3 DEF x
<1>7. entries'[r.addr] = entry /\ \A b \in Addr : b # r.addr => entries'[b] = room[b]
  BY <1>2, <1>4, <1>6
<1>8. /\ answer[r.addr] # None /\ answer[r.addr] \in Reply
      /\ r.no = answer[r.addr].no => r.host = answer[r.addr].host
  <2>1. 1 \in 1..Len(wire)
    BY <1>3
  <2> QED
    BY <1>0, <1>3, <1>4, <1>a, <2>1 DEF WireInOrder
<1>9. /\ answer' \in [Addr -> Reply \union {None}]
      /\ \A b \in Addr : b # r.addr => answer'[b] = answer[b]
      /\ answer'[r.addr] # None /\ answer'[r.addr].no = answer[r.addr].no /\ answer'[r.addr].host = answer[r.addr].host
      /\ r.no = answer[r.addr].no => answer'[r.addr].until = until
  <2>1. CASE r.no = answer[r.addr].no
    <3> DEFINE reply == [answer[r.addr] EXCEPT !.until = until]
    <3>1. reply \in Reply /\ reply.no = answer[r.addr].no /\ reply.host = answer[r.addr].host /\ reply.until = until
      BY <1>5, <1>8 DEF Reply
    <3>2. reply # None
      BY <3>1, EntryAssumption DEF Reply
    <3>3. answer' = [answer EXCEPT ![r.addr] = reply]
      BY <1>2, <2>1
    <3> HIDE DEF reply
    <3> QED
      BY <1>0, <1>4, <3>1, <3>2, <3>3
  <2>2. CASE r.no # answer[r.addr].no
    BY <1>0, <1>2, <1>8, <2>2
  <2> QED
    BY <2>1, <2>2
<1>10. lost' \subseteq Addr
  BY <1>0, <1>2 DEF Held
<1>11. DnsTypes'
  <2>1. Len(wire') <= WireCap
    BY <1>0, <1>3
  <2>2. IsFiniteSet(Held(entries')) /\ Cardinality(Held(entries')) <= DnsCap /\ entries' \in [Addr -> Entry \union {None}]
    BY <1>2, <1>6, Zenon
  <2>3. Held(entries)' = Held(entries')
    BY DEF Held
  <2> QED
    BY <1>0, <1>1, <1>3, <1>9, <1>10, <2>1, <2>2, <2>3 DEF DnsTypes
<1>12. ASSUME NEW i \in 1..Len(wire')
       PROVE  /\ i + 1 \in 1..Len(wire) /\ wire'[i] = wire[i + 1] /\ wire'[i].addr \in Addr
              /\ wire'[i].no \in Nat /\ r.no < wire'[i].no
  <2>1. i + 1 \in 1..Len(wire) /\ wire'[i] = wire[i + 1] /\ 1 \in 1..Len(wire) /\ 1 < i + 1
    BY <1>3
  <2>2. wire[1].no < wire[i + 1].no
    BY <1>a, <2>1 DEF WireInOrder
  <2>3. wire[i + 1] \in Packet
    BY <1>0, <2>1
  <2> QED
    BY <1>3, <2>1, <2>2, <2>3 DEF Packet
<1>13. WireInOrder'
  <2>1. ASSUME NEW b \in Addr, answer'[b] # None
        PROVE  answer'[b].no < ops'
    <3>1. answer[b] # None /\ answer'[b].no = answer[b].no
      BY <1>8, <1>9, <2>1
    <3> QED
      BY <1>1, <1>a, <3>1 DEF WireInOrder
  <2>2. ASSUME NEW i \in 1..Len(wire')
        PROVE  /\ answer'[wire'[i].addr] # None /\ wire'[i].no <= answer'[wire'[i].addr].no
               /\ wire'[i].no = answer'[wire'[i].addr].no => wire'[i].host = answer'[wire'[i].addr].host
    <3>1. i + 1 \in 1..Len(wire) /\ wire'[i] = wire[i + 1] /\ wire'[i].addr \in Addr
      BY <1>12
    <3>2. /\ answer[wire[i + 1].addr] # None /\ wire[i + 1].no <= answer[wire[i + 1].addr].no
          /\ wire[i + 1].no = answer[wire[i + 1].addr].no => wire[i + 1].host = answer[wire[i + 1].addr].host
      BY <1>a, <3>1 DEF WireInOrder
    <3>3. /\ answer'[wire'[i].addr] # None /\ answer'[wire'[i].addr].no = answer[wire'[i].addr].no
          /\ answer'[wire'[i].addr].host = answer[wire'[i].addr].host
      BY <1>9, <3>1, <3>2
    <3> QED
      BY <3>1, <3>2, <3>3
  <2>3. ASSUME NEW i \in 1..Len(wire'), NEW j \in 1..Len(wire'), i < j
        PROVE  wire'[i].no < wire'[j].no
    <3>1. /\ i + 1 \in 1..Len(wire) /\ wire'[i] = wire[i + 1]
          /\ j + 1 \in 1..Len(wire) /\ wire'[j] = wire[j + 1]
      BY <1>12
    <3>2. i + 1 < j + 1
      BY <1>3, <2>3
    <3> QED
      BY <1>a, <3>1, <3>2 DEF WireInOrder
  <2> QED
    BY <2>1, <2>2, <2>3 DEF WireInOrder
<1>14. ASSUME NEW b \in Addr, b \notin lost'
       PROVE  \/ \E i \in 1..Len(wire') : wire'[i].addr = b /\ wire'[i].no = answer'[b].no
              \/ ~ OnWire(b)' /\ Agrees(entries'[b], answer'[b])
  <2>0. DOMAIN wire' = 1..Len(wire')
    BY <1>3
  <2>1. CASE b = r.addr /\ r.no = answer[b].no
    <3>1. \A i \in 1..Len(wire') : wire'[i].addr # b
      <4> SUFFICES ASSUME NEW i \in 1..Len(wire'), wire'[i].addr = b PROVE FALSE
        OBVIOUS
      <4>1. i + 1 \in 1..Len(wire) /\ wire'[i] = wire[i + 1] /\ r.no < wire[i + 1].no /\ wire[i + 1].no \in Nat
        BY <1>12
      <4>2. wire[i + 1].no <= answer[b].no
        BY <1>a, <4>1 DEF WireInOrder
      <4> QED
        BY <1>4, <2>1, <4>1, <4>2
    <3>2. ~ OnWire(b)'
      BY <2>0, <3>1 DEF OnWire
    <3>3. entries'[b] = entry /\ answer'[b] # None /\ answer'[b].host = r.host /\ answer'[b].until = until
      BY <1>7, <1>8, <1>9, <2>1
    <3> QED
      BY <1>5, <3>2, <3>3 DEF Agrees
  <2>2. CASE ~ (b = r.addr /\ r.no = answer[b].no)
    <3>1. b \notin lost
      BY <1>2, <1>14, <2>2
    <3>2. answer'[b].no = answer[b].no
      BY <1>9, <2>2
    <3>3. CASE \E i \in 1..Len(wire) : wire[i].addr = b /\ wire[i].no = answer[b].no
      <4>1. PICK i \in 1..Len(wire) : wire[i].addr = b /\ wire[i].no = answer[b].no
        BY <3>3
      <4>2. i # 1
        BY <1>3, <2>2, <4>1
      <4>3. i - 1 \in 1..Len(wire') /\ (i - 1) + 1 = i
        BY <1>3, <4>2
      <4>4. wire'[i - 1] = wire[i]
        BY <1>12, <4>3
      <4> QED
        BY <3>2, <4>1, <4>3, <4>4
    <3>4. CASE ~ OnWire(b) /\ Agrees(entries[b], answer[b])
      <4>1. DOMAIN wire = 1..Len(wire) /\ \A i \in 1..Len(wire) : wire[i].addr # b
        BY <1>0, <3>4 DEF OnWire
      <4>2. b # r.addr
        BY <1>3, <4>1
      <4>3. \A i \in 1..Len(wire') : wire'[i].addr # b
        BY <1>12, <4>1
      <4>4. ~ OnWire(b)'
        BY <2>0, <4>3 DEF OnWire
      <4>5. room[b] = entries[b]
        <5> SUFFICES ASSUME room[b] # entries[b] PROVE FALSE
          OBVIOUS
        <5>1. room[b] = None /\ b \in Held(entries)
          BY <1>0, <1>6 DEF Held
        <5>2. b \in lost'
          BY <1>2, <4>2, <5>1
        <5> QED
          BY <1>14, <5>2
      <4>6. entries'[b] = entries[b] /\ answer'[b] = answer[b]
        BY <1>7, <1>9, <4>2, <4>5
      <4> QED
        BY <3>4, <4>4, <4>6
    <3> QED
      BY <1>a, <3>1, <3>3, <3>4 DEF LatestIsKept
  <2> QED
    BY <2>1, <2>2
<1>15. LatestIsKept'
  BY <1>14 DEF LatestIsKept
<1> QED
  BY <1>11, <1>13, <1>15

LEMMA DnsStep ==
  ASSUME IInv, [Next]_vars
  PROVE  DnsTypes' /\ WireInOrder' /\ LatestIsKept'
<1>1. CASE Answers
  BY <1>1, AnswerStep DEF Answers
<1>2. CASE Snoop
  BY <1>2, SnoopStep
<1>3. CASE ~ Answers /\ ~ Snoop
  <2>0. clock \in Nat /\ ops \in Nat
    BY DEF IInv, DnsTypes
  <2>1. UNCHANGED dns
    BY <1>3, NextIs, ProcessesAside, RecordsAside, ConsumesAside, LookupsAside DEF Tick, vars
  <2>2. ops' \in {ops, ops + 1} /\ clock' \in {clock, clock + 1}
    <3>1. Processes \/ Records => ops' = ops + 1 /\ clock' = clock
      BY OpsGrow, ProcessesAside, RecordsAside DEF Happens
    <3>2. Tick => ops' = ops + 1 /\ clock' = clock + 1
      BY DEF Tick, Happens
    <3>3. Consumes3 \/ Lookups \/ UNCHANGED vars => ops' = ops /\ clock' = clock
      BY ConsumesAside, LookupsAside DEF vars
    <3> QED
      BY <1>3, <3>1, <3>2, <3>3, NextIs
  <2>3. ops' \in Nat /\ clock' \in Nat /\ ops <= ops'
    BY <2>0, <2>2
  <2>4. DnsTypes'
    BY <2>1, <2>3 DEF dns, DnsTypes, Held, IInv
  <2>5. WireInOrder'
    <3>1. \A a \in Addr : answer[a] # None => answer[a].no \in Nat /\ answer[a].no < ops
      BY DEF IInv, DnsTypes, WireInOrder, Reply
    <3>2. \A a \in Addr : answer[a] # None => answer[a].no < ops'
      BY <2>0, <2>3, <3>1
    <3> QED
      BY <2>1, <3>2 DEF dns, WireInOrder, IInv
  <2>6. LatestIsKept'
    BY <2>1 DEF dns, LatestIsKept, IInv, OnWire
  <2> QED
    BY <2>4, <2>5, <2>6
<1> QED
  BY <1>1, <1>2, <1>3

-----------------------------------------------------------------------------
(* The lineage table and the queue.                                        *)

\* What the records before a place come to does not change when one is consumed,
\* as the table takes over what it said.
LEMMA BeforeTail ==
  ASSUME NEW s \in Seq(Event), s # <<>>, NEW n \in 1..Len(s), NEW k, NEW x, NEW old, NEW new,
         Before(s, old, n + 1, k, x),
         IsExec(s, 1, k) => new[k] \in {None, s[1].image},
         ~ IsExec(s, 1, k) => new[k] \in {None, old[k]}
  PROVE  Before(Tail(s), new, n, k, x)
<1>1. /\ Len(s) \in Nat /\ Len(s) > 0 /\ n \in Nat
      /\ \A i \in 1..(Len(s) - 1) : Tail(s)[i] = s[i + 1]
  BY TailIs
<1>2. \A j \in 1..(n - 1) :
        /\ IsExec(Tail(s), j, k) <=> IsExec(s, j + 1, k)
        /\ Tail(s)[j].image = s[j + 1].image
  <2> SUFFICES ASSUME NEW j \in 1..(n - 1)
               PROVE  Tail(s)[j] = s[j + 1]
    BY DEF IsExec
  <2> QED
    BY <1>1
<1>3. /\ \A j \in 1..n : IsExec(s, j, k) /\ (\A m \in (j + 1)..n : ~ IsExec(s, m, k)) => s[j].image = x
      /\ (\A j \in 1..n : ~ IsExec(s, j, k)) => old[k] \in {None, x}
  <2>1. (n + 1) - 1 = n
    BY <1>1
  <2> QED
    BY <2>1 DEF Before
<1>4. ASSUME NEW j \in 1..(n - 1), IsExec(Tail(s), j, k),
             \A m \in (j + 1)..(n - 1) : ~ IsExec(Tail(s), m, k)
      PROVE  Tail(s)[j].image = x
  <2>1. j + 1 \in 1..n /\ IsExec(s, j + 1, k) /\ Tail(s)[j].image = s[j + 1].image
    BY <1>1, <1>2, <1>4
  <2>2. ASSUME NEW m \in ((j + 1) + 1)..n
        PROVE  ~ IsExec(s, m, k)
    <3>1. m - 1 \in (j + 1)..(n - 1) /\ m - 1 \in 1..(n - 1) /\ (m - 1) + 1 = m
      BY <1>1
    <3>2. ~ IsExec(Tail(s), m - 1, k)
      BY <1>4, <3>1
    <3>3. IsExec(Tail(s), m - 1, k) <=> IsExec(s, (m - 1) + 1, k)
      BY <1>2, <3>1
    <3> QED
      BY <3>1, <3>2, <3>3
  <2> QED
    BY <1>3, <2>1, <2>2
<1>5. ASSUME \A j \in 1..(n - 1) : ~ IsExec(Tail(s), j, k)
      PROVE  new[k] \in {None, x}
  <2>1. ASSUME NEW m \in 2..n
        PROVE  ~ IsExec(s, m, k)
    <3>1. m - 1 \in 1..(n - 1) /\ (m - 1) + 1 = m
      BY <1>1
    <3>2. IsExec(Tail(s), m - 1, k) <=> IsExec(s, (m - 1) + 1, k)
      BY <1>2, <3>1
    <3> QED
      BY <1>5, <3>1, <3>2
  <2>2. CASE IsExec(s, 1, k)
    <3>1. 1 \in 1..n /\ 1 + 1 = 2
      BY <1>1
    <3>2. s[1].image = x
      BY <1>3, <2>1, <2>2, <3>1
    <3> QED
      BY <2>2, <3>2
  <2>3. CASE ~ IsExec(s, 1, k)
    <3>1. \A m \in 1..n : m = 1 \/ m \in 2..n
      BY <1>1
    <3>2. old[k] \in {None, x}
      BY <1>3, <2>1, <2>3, <3>1
    <3> QED
      BY <2>3, <3>2
  <2> QED
    BY <2>2, <2>3
<1> QED
  BY <1>4, <1>5 DEF Before

\* What comes later changes nothing.
LEMMA BeforeAppend ==
  ASSUME NEW s \in Seq(Event), NEW e \in Event, NEW n \in 1..(Len(s) + 1), NEW k, NEW x, NEW table,
         Before(s, table, n, k, x)
  PROVE  Before(Append(s, e), table, n, k, x)
<1>1. Len(s) \in Nat /\ \A i \in 1..Len(s) : Append(s, e)[i] = s[i]
  BY AppendIs
<1>2. \A j \in 1..(n - 1) : Append(s, e)[j] = s[j]
  BY <1>1
<1>3. \A j \in 1..(n - 1) : IsExec(Append(s, e), j, k) <=> IsExec(s, j, k)
  BY <1>2 DEF IsExec
<1>4. \A j \in 1..(n - 1) : \A m \in (j + 1)..(n - 1) : m \in 1..(n - 1)
  BY <1>1
<1> QED
  BY <1>2, <1>3, <1>4 DEF Before

\* An exec record at the end is the last one, and one of another key or a record
\* of another kind is none.
LEMMA BeforeEnd ==
  ASSUME NEW s \in Seq(Event), NEW e \in Event, NEW k, NEW x, NEW table,
         \/ e.kind = "exec" /\ <<e.cgroup, e.pid>> = k /\ x = e.image
         \/ ~ (e.kind = "exec" /\ <<e.cgroup, e.pid>> = k) /\ Before(s, table, Len(s) + 1, k, x)
  PROVE  Before(Append(s, e), table, Len(s) + 2, k, x)
<1> DEFINE t == Append(s, e)
<1>1. Len(s) \in Nat /\ (\A i \in 1..Len(s) : t[i] = s[i]) /\ t[Len(s) + 1] = e
  BY AppendIs
<1> HIDE DEF t
<1>2. (Len(s) + 2) - 1 = Len(s) + 1 /\ (Len(s) + 1) - 1 = Len(s) /\ Len(s) + 1 \in 1..(Len(s) + 1)
  BY <1>1
<1>3. IsExec(t, Len(s) + 1, k) <=> e.kind = "exec" /\ <<e.cgroup, e.pid>> = k
  BY <1>1 DEF IsExec
<1>4. \A j \in 1..(Len(s) + 1) : j \in 1..Len(s) \/ j = Len(s) + 1
  BY <1>1
<1>5. CASE e.kind = "exec" /\ <<e.cgroup, e.pid>> = k /\ x = e.image
  <2>1. ASSUME NEW j \in 1..(Len(s) + 1), \A m \in (j + 1)..(Len(s) + 1) : ~ IsExec(t, m, k)
        PROVE  t[j].image = x
    <3>1. CASE j = Len(s) + 1
      BY <1>1, <1>5, <3>1
    <3>2. CASE j \in 1..Len(s)
      <4>1. Len(s) + 1 \in (j + 1)..(Len(s) + 1)
        BY <1>1, <3>2
      <4> QED
        BY <1>3, <1>5, <2>1, <4>1
    <3> QED
      BY <1>4, <3>1, <3>2
  <2>2. ~ (\A j \in 1..(Len(s) + 1) : ~ IsExec(t, j, k))
    BY <1>2, <1>3, <1>5
  <2> QED
    BY <1>2, <2>1, <2>2 DEF Before, t
<1>6. CASE ~ (e.kind = "exec" /\ <<e.cgroup, e.pid>> = k) /\ Before(s, table, Len(s) + 1, k, x)
  <2>1. ~ IsExec(t, Len(s) + 1, k) /\ \A j \in 1..Len(s) : (IsExec(t, j, k) <=> IsExec(s, j, k)) /\ t[j] = s[j]
    BY <1>1, <1>3, <1>6 DEF IsExec
  <2>2. /\ \A j \in 1..Len(s) : IsExec(s, j, k) /\ (\A m \in (j + 1)..Len(s) : ~ IsExec(s, m, k)) => s[j].image = x
        /\ (\A j \in 1..Len(s) : ~ IsExec(s, j, k)) => table[k] \in {None, x}
    BY <1>2, <1>6 DEF Before
  <2>3. ASSUME NEW j \in 1..(Len(s) + 1), IsExec(t, j, k),
               \A m \in (j + 1)..(Len(s) + 1) : ~ IsExec(t, m, k)
        PROVE  t[j].image = x
    <3>1. j \in 1..Len(s)
      BY <1>4, <2>1, <2>3
    <3>2. ASSUME NEW m \in (j + 1)..Len(s)
          PROVE  ~ IsExec(s, m, k)
      <4>1. m \in 1..Len(s) /\ m \in (j + 1)..(Len(s) + 1)
        BY <1>1, <3>1
      <4> QED
        BY <2>1, <2>3, <4>1
    <3>3. IsExec(s, j, k) /\ t[j] = s[j]
      BY <2>1, <2>3, <3>1
    <3> QED
      BY <2>2, <3>1, <3>2, <3>3
  <2>4. ASSUME \A j \in 1..(Len(s) + 1) : ~ IsExec(t, j, k)
        PROVE  table[k] \in {None, x}
    <3>1. \A j \in 1..Len(s) : j \in 1..(Len(s) + 1)
      BY <1>1
    <3> QED
      BY <2>1, <2>2, <2>4, <3>1
  <2> QED
    BY <1>2, <2>3, <2>4 DEF Before, t
<1> QED
  BY <1>5, <1>6

\* Processes come and go.
LEMMA ProcessesPrograms ==
  ASSUME IInv, Processes
  PROVE  ProgramsTold'
<1>0. /\ UNCHANGED <<events, lineage>>
      /\ where \in [Pid -> Cgroup \union {None}] /\ program \in [Pid -> Path \union {None}]
      /\ None \notin Cgroup
  BY ProcessesAside, CgroupAssumption DEF IInv, WorldTypes
<1>a. ProgramsTold
  BY DEF IInv
<1>1. ASSUME NEW p \in Pid, NEW c \in Cgroup \union {None},
             where' = [where EXCEPT ![p] = c], where[p] # c,
             left' = left \/ left' = left \union {<<where[p], p>>},
             where[p] # None => left' = left \union {<<where[p], p>>},
             \A q \in Pid \ {p} : program'[q] = program[q]
      PROVE  ProgramsTold'
  <2>0. left \subseteq left' /\ where'[p] = c /\ \A q \in Pid \ {p} : where'[q] = where[q]
    BY <1>0, <1>1
  <2>1. ASSUME NEW i \in 1..Len(events'), events'[i].kind = "conn", <<events'[i].cgroup, events'[i].pid>> \notin left'
        PROVE  Before(events', lineage', i, <<events'[i].cgroup, events'[i].pid>>, events'[i].image)
    BY <1>0, <1>a, <2>0, <2>1 DEF ProgramsTold
  <2>2. ASSUME NEW k \in Key, k \notin left', where'[k[2]] # k[1]
        PROVE  lineage[k] = None /\ \A i \in 1..Len(events) : ~ IsExec(events, i, k)
    <3>1. k = <<k[1], k[2]>> /\ k[1] \in Cgroup /\ k[2] \in Pid
      BY DEF Key
    <3>2. CASE k[2] = p
      <4>1. where[p] # None => k[1] # where[p]
        BY <1>1, <2>2, <3>1, <3>2
      <4>2. where[k[2]] # k[1]
        BY <1>0, <3>1, <3>2, <4>1
      <4> QED
        BY <1>a, <2>0, <2>2, <4>2 DEF ProgramsTold
    <3>3. CASE k[2] # p
      <4>1. where[k[2]] # k[1]
        BY <2>0, <2>2, <3>1, <3>3
      <4> QED
        BY <1>a, <2>0, <2>2, <4>1 DEF ProgramsTold
    <3> QED
      BY <3>2, <3>3
  <2>3. ASSUME NEW q \in Pid, where'[q] # None, <<where'[q], q>> \notin left'
        PROVE  Before(events', lineage', Len(events') + 1, <<where'[q], q>>, program'[q])
    <3>1. CASE q = p
      <4> DEFINE k == <<c, p>>
      <4>1. where'[q] = c /\ c \in Cgroup /\ k \in Key /\ k[1] = c /\ k[2] = p /\ k \notin left
        BY <1>1, <2>0, <2>3, <3>1 DEF Key
      <4> HIDE DEF k
      <4>2. lineage[k] = None /\ \A i \in 1..Len(events) : ~ IsExec(events, i, k)
        BY <1>a, <1>1, <4>1 DEF ProgramsTold
      <4>3. Len(events) \in Nat /\ (Len(events) + 1) - 1 = Len(events)
        BY DEF IInv, WorldTypes
      <4>4. Before(events, lineage, Len(events) + 1, k, program'[q])
        BY <4>2, <4>3 DEF Before
      <4> QED
        BY <1>0, <3>1, <4>1, <4>4 DEF k
    <3>2. CASE q # p
      <4>1. where'[q] = where[q] /\ program'[q] = program[q]
        BY <1>1, <2>0, <3>2
      <4> QED
        BY <1>0, <1>a, <2>0, <2>3, <4>1 DEF ProgramsTold
    <3> QED
      BY <3>1, <3>2
  <2> QED
    BY <1>0, <2>1, <2>2, <2>3 DEF ProgramsTold
<1>2. ASSUME NEW p \in Pid, Exit(p)
      PROVE  ProgramsTold'
  <2>1. /\ where' = [where EXCEPT ![p] = None] /\ where[p] # None
        /\ left' = left \union {<<where[p], p>>} /\ program' = program
    BY <1>2 DEF Exit
  <2> QED
    BY <1>1, <2>1
<1>3. ASSUME NEW p \in Pid, NEW c \in Cgroup, Fork(p, c)
      PROVE  ProgramsTold'
  <2>1. /\ where' = [where EXCEPT ![p] = c] /\ where[p] = None /\ left' = left
        /\ program' = [program EXCEPT ![p] = None]
    BY <1>3 DEF Fork, Enters
  <2>2. \A q \in Pid \ {p} : program'[q] = program[q]
    BY <1>0, <2>1
  <2>3. where[p] # c
    BY <1>0, <2>1
  <2> QED
    BY <1>1, <2>1, <2>2, <2>3
<1>4. ASSUME NEW p \in Pid, NEW c \in Cgroup, Move(p, c)
      PROVE  ProgramsTold'
  <2>1. /\ where' = [where EXCEPT ![p] = c] /\ where[p] # c
        /\ left' = left \union {<<where[p], p>>} /\ program' = program
    BY <1>4 DEF Move, Enters
  <2> QED
    BY <1>1, <2>1
<1> QED
  BY <1>2, <1>3, <1>4 DEF Processes

\* A record arrives.
LEMMA RecordsPrograms ==
  ASSUME IInv, Records
  PROVE  ProgramsTold'
<1>1. PICK e \in Event : /\ events' = Append(events, e)
                         /\ where[e.pid] = e.cgroup
                         /\ e.kind = "conn" => e.addr \in Addr /\ e.image = program[e.pid] /\ program' = program
                         /\ e.kind = "exec" => e.image \in Path /\ program' = [program EXCEPT ![e.pid] = e.image]
                         /\ e.kind = "raw_socket" => program' = program
  BY RecordsAppend
<1>2. /\ UNCHANGED <<where, left, lineage>>
      /\ events \in Seq(Event) /\ program \in [Pid -> Path \union {None}]
  BY RecordsAside DEF IInv, WorldTypes
<1>3. /\ Len(events) \in Nat /\ Len(events') = Len(events) + 1
      /\ \A i \in 1..Len(events) : events'[i] = events[i]
      /\ events'[Len(events) + 1] = e
  BY <1>1, <1>2, AppendIs
<1>a. ProgramsTold
  BY DEF IInv
<1>b. e.kind \in {"conn", "exec", "raw_socket"} /\ e.pid \in Pid /\ e.cgroup \in Cgroup
  BY DEF Event
<1>4. \A i \in 1..Len(events') : i \in 1..Len(events) \/ i = Len(events) + 1
  BY <1>3
<1>5. ASSUME NEW i \in 1..Len(events'), events'[i].kind = "conn", <<events'[i].cgroup, events'[i].pid>> \notin left
      PROVE  Before(events', lineage, i, <<events'[i].cgroup, events'[i].pid>>, events'[i].image)
  <2>1. i \in 1..(Len(events) + 1)
    BY <1>3
  <2>2. Before(events, lineage, i, <<events'[i].cgroup, events'[i].pid>>, events'[i].image)
    <3>1. CASE i \in 1..Len(events)
      BY <1>3, <1>5, <1>a, <3>1 DEF ProgramsTold
    <3>2. CASE i = Len(events) + 1
      <4>1. events'[i] = e /\ e.kind = "conn" /\ e.image = program[e.pid]
        BY <1>1, <1>3, <1>5, <3>2
      <4>2. where[e.pid] # None /\ <<where[e.pid], e.pid>> = <<events'[i].cgroup, events'[i].pid>>
        BY <1>1, <1>b, <4>1, CgroupAssumption
      <4>3. Before(events, lineage, Len(events) + 1, <<where[e.pid], e.pid>>, program[e.pid])
        BY <1>5, <1>a, <1>b, <4>2 DEF ProgramsTold
      <4> QED
        BY <3>2, <4>1, <4>2, <4>3
    <3> QED
      BY <1>4, <3>1, <3>2
  <2> QED
    BY <1>1, <1>2, <2>1, <2>2, BeforeAppend
<1>6. ASSUME NEW p \in Pid, where[p] # None, <<where[p], p>> \notin left
      PROVE  Before(events', lineage, Len(events') + 1, <<where[p], p>>, program'[p])
  <2>1. Before(events, lineage, Len(events) + 1, <<where[p], p>>, program[p])
    BY <1>6, <1>a DEF ProgramsTold
  <2>2. \/ e.kind = "exec" /\ <<e.cgroup, e.pid>> = <<where[p], p>> /\ program'[p] = e.image
        \/ ~ (e.kind = "exec" /\ <<e.cgroup, e.pid>> = <<where[p], p>>) /\ program'[p] = program[p]
    BY <1>1, <1>2, <1>b
  <2>3. Before(Append(events, e), lineage, Len(events) + 2, <<where[p], p>>, program'[p])
    BY <1>2, <2>1, <2>2, BeforeEnd
  <2>4. Len(events') + 1 = Len(events) + 2
    BY <1>3
  <2> QED
    BY <1>1, <2>3, <2>4
<1>7. ASSUME NEW k \in Key, k \notin left, where[k[2]] # k[1]
      PROVE  lineage[k] = None /\ \A i \in 1..Len(events') : ~ IsExec(events', i, k)
  <2>1. lineage[k] = None /\ \A i \in 1..Len(events) : ~ IsExec(events, i, k)
    BY <1>7, <1>a DEF ProgramsTold
  <2>2. <<e.cgroup, e.pid>> # k
    BY <1>1, <1>7
  <2>3. ~ IsExec(events', Len(events) + 1, k)
    BY <1>3, <2>2 DEF IsExec
  <2> QED
    BY <1>3, <1>4, <2>1, <2>3 DEF IsExec
<1> QED
  BY <1>2, <1>5, <1>6, <1>7 DEF ProgramsTold

\* A record is consumed.
LEMMA ConsumesPrograms ==
  ASSUME IInv, Consumes3
  PROVE  ProgramsTold'
<1>1. /\ events # <<>> /\ events' = Tail(events) /\ UNCHANGED <<where, program, left>>
      /\ events \in Seq(Event)
  BY ConsumesHead, ConsumesAside DEF world, IInv, WorldTypes
<1>2. /\ Len(events) \in Nat /\ Len(events) > 0 /\ Len(events') = Len(events) - 1
      /\ \A i \in 1..(Len(events) - 1) : events'[i] = events[i + 1]
      /\ Head(events) = events[1] /\ events[1] \in Event
  BY <1>1, TailIs
<1>a. ProgramsTold
  BY DEF IInv
<1>3. ASSUME NEW k \in Key
      PROVE  /\ IsExec(events, 1, k) => lineage'[k] \in {None, events[1].image}
             /\ ~ IsExec(events, 1, k) => lineage'[k] \in {None, lineage[k]}
  <2>1. CASE ConsumeExec
    <3>1. PICK room \in Room(lineage, LineageCap) :
            /\ lineage' = [room EXCEPT ![<<events[1].cgroup, events[1].pid>>] = events[1].image]
            /\ room \in [Key -> Path \union {None}]
            /\ \A x \in Key : room[x] \in {lineage[x], None}
      BY <1>2, <2>1, LineageIs
    <3>2. events[1].kind = "exec"
      BY <1>2, <2>1, LineageIs
    <3>3. CASE k = <<events[1].cgroup, events[1].pid>>
      BY <3>1, <3>2, <3>3 DEF IsExec
    <3>4. CASE k # <<events[1].cgroup, events[1].pid>>
      <4>1. lineage'[k] = room[k]
        BY <3>1, <3>4
      <4> QED
        BY <3>1, <3>4, <4>1 DEF IsExec
    <3> QED
      BY <3>3, <3>4
  <2>2. CASE ConsumeRaw \/ ConsumeConn
    <3>1. lineage' = lineage /\ events[1].kind # "exec"
      BY <1>2, <2>2 DEF ConsumeRaw, ConsumeConn, Consumes
    <3> QED
      BY <3>1 DEF IsExec
  <2> QED
    BY <2>1, <2>2 DEF Consumes3
<1>4. ASSUME NEW n \in 1..Len(events), NEW k \in Key, NEW x, Before(events, lineage, n + 1, k, x)
      PROVE  Before(events', lineage', n, k, x)
  <2>1. /\ IsExec(events, 1, k) => lineage'[k] \in {None, events[1].image}
        /\ ~ IsExec(events, 1, k) => lineage'[k] \in {None, lineage[k]}
    BY <1>3
  <2> QED
    BY <1>1, <1>4, <2>1, BeforeTail
<1>5. ASSUME NEW i \in 1..Len(events'), events'[i].kind = "conn", <<events'[i].cgroup, events'[i].pid>> \notin left
      PROVE  Before(events', lineage', i, <<events'[i].cgroup, events'[i].pid>>, events'[i].image)
  <2>1. i \in 1..Len(events) /\ i + 1 \in 1..Len(events) /\ events'[i] = events[i + 1]
    BY <1>2
  <2>2. Before(events, lineage, i + 1, <<events'[i].cgroup, events'[i].pid>>, events'[i].image)
    BY <1>5, <1>a, <2>1 DEF ProgramsTold
  <2>3. events[i + 1] \in Event
    BY <1>1, <2>1
  <2>4. <<events'[i].cgroup, events'[i].pid>> \in Key
    BY <2>1, <2>3 DEF Event, Key
  <2> QED
    BY <1>4, <2>1, <2>2, <2>4
<1>6. ASSUME NEW p \in Pid, where[p] # None, <<where[p], p>> \notin left
      PROVE  Before(events', lineage', Len(events') + 1, <<where[p], p>>, program[p])
  <2>1. Before(events, lineage, Len(events) + 1, <<where[p], p>>, program[p])
    BY <1>6, <1>a DEF ProgramsTold
  <2>2. <<where[p], p>> \in Key
    BY <1>6 DEF Key, IInv, WorldTypes
  <2>3. Len(events) \in 1..Len(events) /\ Len(events') + 1 = Len(events)
    BY <1>2
  <2> QED
    BY <1>4, <2>1, <2>2, <2>3
<1>7. ASSUME NEW k \in Key, k \notin left, where[k[2]] # k[1]
      PROVE  lineage'[k] = None /\ \A i \in 1..Len(events') : ~ IsExec(events', i, k)
  <2>1. lineage[k] = None /\ \A i \in 1..Len(events) : ~ IsExec(events, i, k)
    BY <1>7, <1>a DEF ProgramsTold
  <2>2. 1 \in 1..Len(events) /\ \A i \in 1..Len(events') : i + 1 \in 1..Len(events) /\ events'[i] = events[i + 1]
    BY <1>2
  <2>3. lineage'[k] = None
    BY <1>3, <2>1, <2>2
  <2> QED
    BY <2>1, <2>2, <2>3 DEF IsExec
<1> QED
  BY <1>1, <1>5, <1>6, <1>7 DEF ProgramsTold

LEMMA ProgramsStep ==
  ASSUME IInv, [Next]_vars
  PROVE  ProgramsTold'
<1>1. CASE Answers \/ Tick \/ Snoop \/ Lookups \/ UNCHANGED vars
  <2>1. UNCHANGED <<world, events, lineage>>
    BY <1>1, AnswersAside, LookupsAside DEF Tick, Snoop, vars
  <2> QED
    BY <2>1 DEF world, IInv, ProgramsTold
<1> QED
  BY <1>1, NextIs, ProcessesPrograms, RecordsPrograms, ConsumesPrograms

-----------------------------------------------------------------------------
(* The connection in hand.                                                 *)

\* A connection is taken from the queue: the table has what its process
\* executed before it, or nothing.
LEMMA TakesConn ==
  ASSUME IInv, ConsumeConn
  PROVE  JobTypes' /\ JobAgrees' /\ JobIsOwn'
<1> DEFINE e == Head(events)
<1>1. /\ job' = [at |-> "lookup", conn |-> e] /\ lineage' = lineage /\ left' = left
      /\ events # <<>> /\ e.kind = "conn"
  BY DEF ConsumeConn, Consumes, world
<1>2. e = events[1] /\ e \in Event /\ 1 \in 1..Len(events) /\ e.addr \in Addr
  BY <1>1 DEF IInv, WorldTypes
<1>3. <<e.cgroup, e.pid>> \in left \/ lineage[<<e.cgroup, e.pid>>] \in {None, e.image}
  <2> SUFFICES ASSUME <<e.cgroup, e.pid>> \notin left
               PROVE  lineage[<<e.cgroup, e.pid>>] \in {None, e.image}
    OBVIOUS
  <2>1. Before(events, lineage, 1, <<e.cgroup, e.pid>>, e.image)
    BY <1>1, <1>2 DEF IInv, ProgramsTold
  <2> QED
    BY <2>1 DEF Before
<1> HIDE DEF e
<1>4. job'.at = "lookup" /\ job'.conn = e
  BY <1>1
<1> QED
  BY <1>1, <1>2, <1>3, <1>4 DEF JobTypes, JobAgrees, JobIsOwn, NameIsCurrent, ProgramIsOwn

\* The cache is read: it has the latest answer, unless that one is on its way
\* or lost.
LEMMA ReadsEntry ==
  ASSUME IInv, LookupRead
  PROVE  JobTypes' /\ JobAgrees' /\ JobIsOwn'
<1> DEFINE a == job.conn.addr
<1>1. /\ job.at = "lookup" /\ lineage' = lineage /\ left' = left
      /\ job' = [at |-> "check", conn |-> job.conn, entry |-> entries[a],
                 truth |-> answer[a], current |-> ~ OnWire(a) /\ a \notin lost]
  BY DEF LookupRead, world
<1>2. job.conn \in Event /\ a \in Addr
  BY <1>1 DEF IInv, JobTypes
<1>3. answer[a] \in Reply \union {None}
  BY <1>2 DEF IInv, DnsTypes
<1>4. ~ OnWire(a) /\ a \notin lost => Agrees(entries[a], answer[a])
  <2>1. DOMAIN wire = 1..Len(wire)
    BY DEF IInv, DnsTypes
  <2> QED
    BY <1>2, <2>1 DEF IInv, LatestIsKept, OnWire
<1> HIDE DEF a
<1>5. /\ job'.at = "check" /\ job'.conn = job.conn /\ job'.entry = entries[a] /\ job'.truth = answer[a]
      /\ job'.current => ~ OnWire(a) /\ a \notin lost
  BY <1>1
<1>6. LET k == <<job.conn.cgroup, job.conn.pid>> IN k \in left \/ lineage[k] \in {None, job.conn.image}
  BY <1>1 DEF IInv, JobIsOwn
<1>7. JobTypes'
  BY <1>2, <1>5 DEF JobTypes, a
<1>8. JobAgrees'
  BY <1>3, <1>4, <1>5 DEF JobAgrees, NameIsCurrent
<1>9. JobIsOwn'
  BY <1>1, <1>5, <1>6 DEF JobIsOwn, ProgramIsOwn
<1> QED
  BY <1>7, <1>8, <1>9

\* The connection is named.
LEMMA NamesConn ==
  ASSUME IInv, LookupCheck
  PROVE  JobTypes' /\ JobAgrees' /\ JobIsOwn'
<1> DEFINE fqdn == IF job.entry = None \/ Expired(job.entry) THEN None ELSE job.entry.host
           exec == Joined(job.conn.cgroup, job.conn.pid)
<1>1. /\ job.at = "check" /\ lineage' = lineage /\ left' = left
      /\ job' = [at |-> "done", conn |-> job.conn, truth |-> job.truth, current |-> job.current, now |-> clock,
                 fqdn |-> fqdn, execPath |-> exec]
  BY DEF LookupCheck, world
<1>2. exec \in {None, job.conn.image} \/ <<job.conn.cgroup, job.conn.pid>> \in left
  BY <1>1 DEF IInv, JobIsOwn, Joined
<1>3. job.current => fqdn = IF job.truth # None /\ clock <= job.truth.until THEN job.truth.host ELSE None
  <2> SUFFICES ASSUME job.current
               PROVE  fqdn = IF job.truth # None /\ clock <= job.truth.until THEN job.truth.host ELSE None
    OBVIOUS
  <2>1. Agrees(job.entry, job.truth) /\ (job.truth = None \/ job.truth \in Reply)
    BY <1>1 DEF IInv, JobAgrees
  <2>2. CASE job.truth = None
    BY <2>1, <2>2 DEF Agrees
  <2>3. CASE job.truth # None
    <3>1. job.entry # None /\ job.entry.host = job.truth.host /\ job.entry.until = job.truth.until
      BY <2>1, <2>3 DEF Agrees
    <3>2. clock \in Nat /\ job.truth.until \in Nat
      BY <2>1, <2>3 DEF IInv, DnsTypes, Reply
    <3>3. Expired(job.entry) <=> ~ (clock <= job.truth.until)
      BY <3>1, <3>2 DEF Expired
    <3> QED
      BY <2>3, <3>1, <3>3
  <2> QED
    BY <2>2, <2>3
<1> HIDE DEF fqdn, exec
<1>4. /\ job'.at = "done" /\ job'.conn = job.conn /\ job'.truth = job.truth /\ job'.current = job.current
      /\ job'.now = clock /\ job'.fqdn = fqdn /\ job'.execPath = exec
  BY <1>1
<1>5. NameIsCurrent'
  BY <1>3, <1>4, Zenon DEF NameIsCurrent
<1>6. ProgramIsOwn'
  BY <1>1, <1>2, <1>4 DEF ProgramIsOwn
<1> QED
  BY <1>4, <1>5, <1>6 DEF JobTypes, JobAgrees, JobIsOwn

\* The table does not change while the connection is in hand, and who has left
\* has left.
LEMMA JobStep ==
  ASSUME IInv, [Next]_vars
  PROVE  JobTypes' /\ JobAgrees' /\ JobIsOwn'
<1>1. CASE ConsumeExec \/ ConsumeRaw
  <2>1. job'.at = "idle"
    BY <1>1 DEF ConsumeExec, ConsumeRaw
  <2> QED
    BY <2>1 DEF JobTypes, JobAgrees, JobIsOwn, NameIsCurrent, ProgramIsOwn
<1>2. CASE Processes \/ Records \/ Answers \/ Tick \/ Snoop \/ UNCHANGED vars
  <2>1. Processes => left \subseteq left'
    BY DEF Processes, Exit, Fork, Move
  <2>2. UNCHANGED <<job, lineage>>
    BY <1>2, ProcessesAside, RecordsAside, AnswersAside DEF Tick, Snoop, vars
  <2>3. Records \/ Answers \/ Tick \/ Snoop \/ UNCHANGED vars => left' = left
    BY RecordsAside, AnswersAside DEF Tick, Snoop, vars, world
  <2>4. left \subseteq left'
    BY <1>2, <2>1, <2>3
  <2>5. JobTypes' /\ JobAgrees'
    BY <2>2 DEF IInv, JobTypes, JobAgrees, NameIsCurrent
  <2>6. JobIsOwn'
    BY <2>2, <2>4 DEF IInv, JobIsOwn, ProgramIsOwn
  <2> QED
    BY <2>5, <2>6
<1> QED
  BY <1>1, <1>2, NextIs, TakesConn, ReadsEntry, NamesConn DEF Consumes3, Lookups

-----------------------------------------------------------------------------
(* The theorems.                                                           *)

LEMMA NextInv == IInv /\ [Next]_vars => IInv'
<1> SUFFICES ASSUME IInv, [Next]_vars PROVE IInv'
  OBVIOUS
<1> QED
  BY WorldStep, NamesStep, TableStep, DnsStep, ProgramsStep, JobStep, Zenon DEF IInv

\* Every behaviour of the sensor keeps the invariant.
LEMMA Invariance == Spec => []IInv
BY InitInv, NextInv, PTL DEF Spec

\* Every table has the type it should, and no more entries than fit it.
THEOREM TypeCorrect == Spec => []TypeOK
<1>1. IInv => TypeOK
  <2> SUFFICES ASSUME IInv PROVE TypeOK
    OBVIOUS
  <2>1. \A a \in Held(entries) : entries[a].host \in Host /\ entries[a].until \in Nat
    <3> SUFFICES ASSUME NEW a \in Held(entries) PROVE entries[a].host \in Host /\ entries[a].until \in Nat
      OBVIOUS
    <3>1. a \in Addr /\ entries[a] \in Entry
      BY DEF IInv, DnsTypes, Held
    <3> QED
      BY <3>1 DEF Entry
  <2>2. events \in Seq([kind : {"conn", "exec", "raw_socket"}, cgroup : Cgroup, pid : Pid,
                        addr : Addr \union {None}, image : Path \union {None}])
    BY DEF IInv, WorldTypes, Event
  <2> QED
    BY <2>1, <2>2 DEF IInv, WorldTypes, NameTypes, TableTypes, DnsTypes, TypeOK
<1> QED
  BY <1>1, Invariance, PTL

\* As far as the classifier keeps the workloads apart, their instances are named
\* alike and are told from those of others, but for strays and for containers
\* that podman could not name.
THEOREM NamedAlike ==
  ASSUME WorkloadsTold
  PROVE  Spec => []NamedByWorkload
<1>1. IInv => NamedByWorkload
  <2> SUFFICES ASSUME IInv, NEW c \in Cgroup, NEW d \in Cgroup, told[c] # None, told[d] # None,
                      {c, d} \intersect (strays \union failed) = {}
               PROVE  told[c] = told[d] <=> WorkloadOf[c] = WorkloadOf[d]
    BY DEF NamedByWorkload
  <2>1. c \notin strays \union failed /\ d \notin strays \union failed
    OBVIOUS
  <2>2. /\ PathOf[c] # <<>> /\ told[c] = ClassifyCgroupPath(PathOf[c], TRUE)
        /\ PathOf[d] # <<>> /\ told[d] = ClassifyCgroupPath(PathOf[d], TRUE)
    BY <2>1 DEF IInv, NamesKept
  <2> QED
    BY <2>2, WorkloadsTold DEF WorkloadsTold
<1> QED
  BY <1>1, Invariance, PTL

\* A connection is named by the latest answer for its address, if that has not
\* expired when it is named.
THEOREM NamedByLatest == Spec => []NameIsCurrent
<1>1. IInv => NameIsCurrent
  BY DEF IInv, JobAgrees
<1> QED
  BY <1>1, Invariance, PTL

\* A connection is joined with a program of its own process, or with none, as
\* long as no process of its cgroup and pid has left.
THEOREM JoinedWithOwn == Spec => []ProgramIsOwn
<1>1. IInv => ProgramIsOwn
  BY DEF IInv, JobIsOwn
<1> QED
  BY <1>1, Invariance, PTL

\* A cgroup's name changes only if the full cache has dropped the cgroup.
THEOREM StableNames == Spec => NameIsStable
<1>1. IInv /\ [Next]_vars => [\A c \in Cgroup : told[c] # None /\ told'[c] # told[c] => c \in dropped]_vars
  <2> SUFFICES ASSUME IInv, Next, NEW c \in Cgroup, told[c] # None, told'[c] # told[c]
               PROVE  c \in dropped
    BY DEF vars
  <2>1. CASE Consumes3
    <3> DEFINE e == Head(events)
    <3>1. Resolve(e.cgroup, e.pid) /\ events # <<>>
      BY <2>1, ConsumesHead
    <3>2. e \in Event
      BY <3>1 DEF IInv, WorldTypes
    <3>3. e.cgroup \in Cgroup /\ e.pid \in Pid
      BY <3>2 DEF Event
    <3> HIDE DEF e
    <3>4. told \in [Cgroup -> Identities \union {None}]
      BY DEF IInv, NameTypes
    <3>5. \/ cache[e.cgroup] # None /\ told' = [told EXCEPT ![e.cgroup] = cache[e.cgroup]]
          \/ told' = told
          \/ cache[e.cgroup] = None /\ \E x : told' = [told EXCEPT ![e.cgroup] = x]
      BY <3>1, <3>3, ResolveIs DEF names
    <3>6. c = e.cgroup /\ (cache[c] = None \/ told'[c] = cache[c])
      BY <3>3, <3>4, <3>5
    <3> QED
      BY <3>6 DEF IInv, NamesKept
  <2>2. CASE ~ Consumes3
    <3>1. UNCHANGED told
      BY <2>2, NextIs, ProcessesAside, RecordsAside, AnswersAside, LookupsAside DEF Tick, Snoop, names
    <3> QED
      BY <3>1
  <2> QED
    BY <2>1, <2>2
<1> QED
  BY <1>1, Invariance, PTL DEF Spec, NameIsStable

\* When an event is consumed whose process can still be asked, its cgroup has
\* a name from then on.
THEOREM RetriedNames == Spec => UnknownIsRetried
<1>1. IInv /\ [Next]_vars => [events # <<>> /\ events' = Tail(events) =>
                                LET e == Head(events)
                                IN  where[e.pid] = e.cgroup /\ PathOf[e.cgroup] # <<>> => told'[e.cgroup] # None]_vars
  <2> DEFINE e == Head(events)
  <2> SUFFICES ASSUME IInv, Next, events # <<>>, events' = Tail(events),
                      where[e.pid] = e.cgroup, PathOf[e.cgroup] # <<>>
               PROVE  told'[e.cgroup] # None
    BY DEF vars
  <2>1. events \in Seq(Event) /\ Len(events') = Len(events) - 1 /\ Len(events) \in Nat /\ e \in Event
    BY TailIs DEF IInv, WorldTypes
  <2>2. Consumes3
    <3>1. CASE Records
      <4>1. PICK x \in Event : events' = Append(events, x)
        BY <3>1, RecordsAppend
      <4>2. events \in Seq(Event)
        BY <2>1
      <4>3. Len(Append(events, x)) = Len(events) + 1
        BY <4>2, AppendIs
      <4> QED
        BY <2>1, <4>1, <4>3
    <3>2. CASE UNCHANGED events
      BY <2>1, <3>2
    <3> QED
      BY <3>1, <3>2, NextIs, ProcessesAside, AnswersAside, LookupsAside DEF Tick, Snoop
  <2>3. Resolve(e.cgroup, e.pid) /\ e.cgroup \in Cgroup /\ e.pid \in Pid
    BY <2>1, <2>2, ConsumesHead DEF Event
  <2> HIDE DEF e
  <2>4. told \in [Cgroup -> Identities \union {None}] /\ None \notin Cgroup /\ None \notin Identities
    BY CgroupAssumption DEF IInv, NameTypes
  <2>5. \A ok \in BOOLEAN : ClassifyCgroupPath(PathOf[e.cgroup], ok) \in Identities
    BY <2>3 DEF Identities
  <2>6. PICK x : x # None /\ told' = [told EXCEPT ![e.cgroup] = x]
    <3>1. where[e.pid] # None
      BY <2>3, <2>4
    <3>2. \/ cache[e.cgroup] # None /\ told' = [told EXCEPT ![e.cgroup] = cache[e.cgroup]]
          \/ \E ok \in BOOLEAN : told' = [told EXCEPT ![e.cgroup] = ClassifyCgroupPath(PathOf[e.cgroup], ok)]
      BY <2>3, <3>1, ResolveIs
    <3> QED
      BY <2>4, <2>5, <3>2
  <2> QED
    BY <2>3, <2>4, <2>6
<1> QED
  BY <1>1, Invariance, PTL DEF Spec, UnknownIsRetried

=============================================================================
