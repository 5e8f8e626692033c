------------------------------- MODULE Naming -------------------------------
(***************************************************************************)
(* What the sensor's read loop adds to an event of the kernel: the fleet   *)
(* identity of its cgroup (cmd/sensor/identity.go), the name that DNS last *)
(* gave to its address (cmd/sensor/dns.go) and the program its process     *)
(* executed (the lineage table of cmd/sensor/main.go).                     *)
(*                                                                         *)
(* All three are looked up when the event is consumed, not when it         *)
(* happened.  Meanwhile processes exit, pids are given to other processes, *)
(* processes move to other cgroups, containers come and go, and names      *)
(* expire.  The snooper is a goroutine of its own that shares the DNS      *)
(* cache with the read loop.                                               *)
(*                                                                         *)
(* Packets are sequences of A records, and it is the records that are on   *)
(* the wire here: whatever else a packet holds is skipped.                 *)
(***************************************************************************)
EXTENDS Integers, Sequences, FiniteSets

CONSTANTS Pid,         \* process numbers, given out again after an exit
          Cgroup,      \* cgroup ids, never given out again
          PathOf,      \* the path of a cgroup: its components, [kind, name]
          ImageOf,     \* the image of a container
          WorkloadOf,  \* what a cgroup is an instance of, as its operator sees it
          Started,     \* where processes may be when the sensor starts
          Path,        \* program images
          Addr, Host,  \* addresses, and names in DNS
          Ttl,         \* lifetimes of DNS records
          None,        \* no process, no entry, no name
          IdentCap,    \* maxIdentityCacheEntries
          LineageCap,  \* maxLineageEntries
          DnsCap,      \* maxDNSCacheEntries
          WireCap,     \* records that fit the snooper's socket
          MaxOps       \* bound: what processes, resolvers and the clock do

VARIABLES
  where,    \* the cgroup of the process that has the pid, None if there is none
  program,  \* the program that process has executed itself
  events,   \* conn, exec and raw_socket records not consumed yet
  wire,     \* A records in the snooper's socket
  clock,
  cache,    \* identityResolver.cache
  lineage,  \* the lineage table
  entries,  \* dnsCache.entries
  job,      \* the connection connEvent is at, or was at last
  told,     \* history: the last identity, but for "unknown", given to a cgroup
  strays,   \* history: cgroups with an event whose pid went to another cgroup
            \*   before it was consumed
  failed,   \* history: cgroups whose container podman inspect failed on
  dropped,  \* history: cgroups dropped from the identity cache
  left,     \* history: cgroup and pid of processes that exited or moved
  answer,   \* history: the latest answer for an address, and when it expires,
            \*   counted from the moment it was snooped
  lost,     \* history: addresses whose latest answer the socket or the cache dropped
  ops

world  == <<where, program, left, strays>>
names  == <<cache, told, failed, dropped>>
dns    == <<wire, entries, answer, lost>>
vars   == <<world, names, dns, events, clock, lineage, job, ops>>

Key == Cgroup \X Pid

\* The keys that a table has an entry for.
Held(table) == {k \in DOMAIN table : table[k] # None}

-----------------------------------------------------------------------------
(* Faulty variants of the definitions below: each makes one mistake that   *)
(* the sensor could easily make, and breaks one property.                  *)

\* A table is cut back one insertion too late.
RoomIfOver(table, cap) == IF Cardinality(Held(table)) <= cap THEN {table}
                          ELSE {[table EXCEPT ![k] = None] : k \in Held(table)}

\* The buffer keeps the path of the process that was asked before.
CgroupPathLeftOver(p) == PathOf[IF where[p] = None THEN CHOOSE c \in Cgroup : TRUE ELSE where[p]]

\* The lineage table is keyed by the pid alone.
LineageByPid(c, p) ==
  LET keys == {k \in Held(lineage) : k[2] = p}
  IN  IF keys = {} THEN None ELSE lineage[CHOOSE k \in keys : TRUE]

\* An entry is a miss in the last moment of its lifetime already.
ExpiresEarly(entry) == clock >= entry.until

-----------------------------------------------------------------------------
(* identity.go: from the path of a cgroup to a fleet identity.             *)

Identity(kind, of) == [kind |-> kind, of |-> of]
Unknown == Identity("unknown", <<>>)

\* The components that name a container; the first one counts.
Scopes(path)    == {i \in DOMAIN path : path[i].kind = "libpod"}
Container(path) == path[CHOOSE i \in Scopes(path) : \A j \in Scopes(path) : i <= j].name

\* podman's name of the image, or the container's ID if it cannot tell.
PodmanImageName(id, inspected) == IF inspected THEN ImageOf[id] ELSE id

\* The last component decides, wherever the rest of the path leads.
Reserved(path) == path # <<>> /\ path[Len(path)].kind \in {"session", "crond", "cli"}

\* Sessions, crond and podman's own scopes lose their numbers; a container
\* counts before the unit that runs in it; the last component decides the rest.
ClassifyCgroupPath(path, inspected) ==
  IF path = <<>> THEN Unknown
  ELSE LET last == path[Len(path)]
       IN  IF Reserved(path) THEN Identity(last.kind, <<>>)
           ELSE IF Scopes(path) # {}
                  THEN Identity("podman", <<PodmanImageName(Container(path), inspected)>>)
           ELSE IF last.kind = "service" THEN Identity("systemd", <<last.name>>)
           ELSE Identity("unresolved", path)

Identities == {ClassifyCgroupPath(PathOf[c], ok) : c \in Cgroup, ok \in BOOLEAN}

ASSUME CgroupAssumption ==
  /\ DOMAIN PathOf = Cgroup /\ Started \subseteq [Pid -> Cgroup \union {None}]
  /\ None \notin Identities /\ None \notin Cgroup /\ None \notin Path /\ None \notin Host
ASSUME EntryAssumption ==
  None \notin [host : Host, until : Nat] \union [host : Host, until : Nat, no : Nat]
ASSUME SizeAssumption ==
  /\ {IdentCap, LineageCap, DnsCap, WireCap} \subseteq Nat \ {0}
  /\ Ttl \subseteq Nat /\ MaxOps \in Nat

\* podman inspect is called for what is not reserved and in a container, and may fail.
Inspections(path) == IF Reserved(path) \/ Scopes(path) = {} THEN {TRUE} ELSE BOOLEAN

\* /proc/<pid>/cgroup, as it is now.
CgroupPathForPID(p) == IF where[p] = None THEN <<>> ELSE PathOf[where[p]]

\* The tables before an insertion: a full one drops an arbitrary entry.
Room(table, cap) == IF Cardinality(Held(table)) < cap THEN {table}
                    ELSE {[table EXCEPT ![k] = None] : k \in Held(table)}

-----------------------------------------------------------------------------
(* The world: processes, and answers to their DNS queries.                 *)

Init ==
  /\ where \in Started /\ program = [p \in Pid |-> None]
  /\ events = <<>> /\ wire = <<>> /\ clock = 0
  /\ cache = [c \in Cgroup |-> None] /\ lineage = [k \in Key |-> None]
  /\ entries = [a \in Addr |-> None]
  /\ job = [at |-> "idle"]
  /\ told = [c \in Cgroup |-> None]
  /\ strays = {} /\ failed = {} /\ dropped = {} /\ left = {}
  /\ answer = [a \in Addr |-> None] /\ lost = {}
  /\ ops = 0

Happens == ops < MaxOps /\ ops' = ops + 1

\* From now on the pid stands for a process of c.
Enters(p, c) ==
  /\ where' = [where EXCEPT ![p] = c]
  /\ strays' = strays \union {e.cgroup : e \in {events[i] : i \in {j \in DOMAIN events :
                                events[j].pid = p /\ events[j].cgroup # c}}}

Fork(p, c) ==
  /\ Happens /\ where[p] = None
  /\ Enters(p, c)
  /\ program' = [program EXCEPT ![p] = None]
  /\ UNCHANGED <<left, names, dns, events, clock, lineage, job>>

Exit(p) ==
  /\ Happens /\ where[p] # None
  /\ where' = [where EXCEPT ![p] = None]
  /\ left' = left \union {<<where[p], p>>}
  /\ UNCHANGED <<program, strays, names, dns, events, clock, lineage, job>>

\* systemd, podman or a shell writes the pid into another cgroup.procs.
Move(p, c) ==
  /\ Happens /\ where[p] \notin {None, c}
  /\ Enters(p, c)
  /\ left' = left \union {<<where[p], p>>}
  /\ UNCHANGED <<program, names, dns, events, clock, lineage, job>>

\* The kernel's record: the cgroup is the one of this moment.
Record(kind, p, addr, image) ==
  /\ where[p] # None
  /\ events' = Append(events, [kind |-> kind, cgroup |-> where[p], pid |-> p, addr |-> addr, image |-> image])

Exec(p, x) ==
  /\ Happens /\ Record("exec", p, None, x)
  /\ program' = [program EXCEPT ![p] = x]
  /\ UNCHANGED <<where, left, strays, names, dns, clock, lineage, job>>

Connect(p, a) ==
  /\ Happens /\ Record("conn", p, a, program[p])
  /\ UNCHANGED <<world, names, dns, clock, lineage, job>>

CreateSocket(p) ==
  /\ Happens /\ Record("raw_socket", p, None, None)
  /\ UNCHANGED <<world, names, dns, clock, lineage, job>>

\* A response from port 53 passes the interface.
Answer(a, h, ttl) ==
  /\ Happens
  /\ answer' = [answer EXCEPT ![a] = [host |-> h, until |-> clock + ttl, no |-> ops]]
  /\ IF Len(wire) < WireCap
       THEN wire' = Append(wire, [addr |-> a, host |-> h, ttl |-> ttl, no |-> ops]) /\ UNCHANGED lost
       ELSE lost' = lost \union {a} /\ UNCHANGED wire
  /\ UNCHANGED <<world, names, entries, events, clock, lineage, job>>

Tick ==
  /\ Happens
  /\ clock' = clock + 1
  /\ UNCHANGED <<world, names, dns, events, lineage, job>>

-----------------------------------------------------------------------------
(* dns.go: the snooper.                                                    *)

\* put: the later answer replaces the earlier one, and its time counts from now.
Put(r) ==
  \E room \in Room(entries, DnsCap) :
    LET until   == clock + r.ttl
        victims == {a \in Held(entries) : room[a] = None}
    IN  /\ entries' = [room EXCEPT ![r.addr] = [host |-> r.host, until |-> until]]
        /\ IF r.no = answer[r.addr].no
             THEN answer' = [answer EXCEPT ![r.addr].until = until] /\ lost' = (lost \union victims) \ {r.addr}
             ELSE lost' = lost \union victims /\ UNCHANGED answer

Snoop ==
  /\ wire # <<>>
  /\ Put(Head(wire))
  /\ wire' = Tail(wire)
  /\ UNCHANGED <<world, names, events, clock, lineage, job, ops>>

-----------------------------------------------------------------------------
(* The read loop.                                                          *)

\* A faulty variant: resolve caches "unknown" like any other result.
ResolveCachesUnknown(c, p) ==
  IF cache[c] # None
    THEN /\ told' = IF cache[c] = Unknown THEN told ELSE [told EXCEPT ![c] = cache[c]]
         /\ UNCHANGED <<cache, failed, dropped>>
    ELSE \E room \in Room(cache, IdentCap) :
           LET id == ClassifyCgroupPath(CgroupPathForPID(p), TRUE)
           IN  /\ cache' = [room EXCEPT ![c] = id]
               /\ told' = IF id = Unknown THEN told ELSE [told EXCEPT ![c] = id]
               /\ dropped' = dropped \union {k \in Held(cache) : room[k] = None}
               /\ UNCHANGED failed

\* A faulty variant: resolve asks podman again for every event.
ResolveAlways(c, p) ==
  IF CgroupPathForPID(p) = <<>> THEN UNCHANGED names
  ELSE \E ok \in BOOLEAN :
         /\ cache' = [cache EXCEPT ![c] = ClassifyCgroupPath(CgroupPathForPID(p), ok)]
         /\ told' = [told EXCEPT ![c] = cache'[c]]
         /\ failed' = IF ok THEN failed ELSE failed \union {where[p]}
         /\ UNCHANGED dropped

\* resolve: whoever has the pid now speaks for the cgroup, once and for all;
\* "unknown" is not cached.
Resolve(c, p) ==
  LET path == CgroupPathForPID(p)
  IN  IF cache[c] # None THEN told' = [told EXCEPT ![c] = cache[c]] /\ UNCHANGED <<cache, failed, dropped>>
      ELSE IF path = <<>> THEN UNCHANGED names
      ELSE \E ok \in Inspections(path), room \in Room(cache, IdentCap) :
             /\ cache' = [room EXCEPT ![c] = ClassifyCgroupPath(path, ok)]
             /\ told' = [told EXCEPT ![c] = ClassifyCgroupPath(path, ok)]
             /\ failed' = IF ok THEN failed ELSE failed \union {where[p]}
             /\ dropped' = dropped \union {k \in Held(cache) : room[k] = None}

Consumes(kinds) == events # <<>> /\ Head(events).kind \in kinds /\ events' = Tail(events)
Idle         == job.at \in {"idle", "done"}

ConsumeExec ==
  /\ Idle /\ Consumes({"exec"})
  /\ LET e == Head(events)
     IN  /\ \E room \in Room(lineage, LineageCap) : lineage' = [room EXCEPT ![<<e.cgroup, e.pid>>] = e.image]
         /\ Resolve(e.cgroup, e.pid)
  /\ job' = [at |-> "idle"]
  /\ UNCHANGED <<world, dns, clock, ops>>

ConsumeRaw ==
  /\ Idle /\ Consumes({"raw_socket"})
  /\ Resolve(Head(events).cgroup, Head(events).pid)
  /\ job' = [at |-> "idle"]
  /\ UNCHANGED <<world, dns, clock, lineage, ops>>

ConsumeConn ==
  /\ Idle /\ Consumes({"conn"})
  /\ Resolve(Head(events).cgroup, Head(events).pid)
  /\ job' = [at |-> "lookup", conn |-> Head(events)]
  /\ UNCHANGED <<world, dns, clock, lineage, ops>>

OnWire(a) == \E i \in DOMAIN wire : wire[i].addr = a

\* lookup, under the lock.
LookupRead ==
  /\ job.at = "lookup"
  /\ LET a == job.conn.addr
     IN  job' = [at |-> "check", conn |-> job.conn, entry |-> entries[a],
                 truth |-> answer[a], current |-> ~ OnWire(a) /\ a \notin lost]
  /\ UNCHANGED <<world, names, dns, events, clock, lineage, ops>>

Expired(entry) == clock > entry.until

Joined(c, p) == lineage[<<c, p>>]

\* The rest of lookup, after the lock, and of connEvent.
LookupCheck ==
  /\ job.at = "check"
  /\ job' = [at |-> "done", conn |-> job.conn, truth |-> job.truth, current |-> job.current, now |-> clock,
             fqdn |-> IF job.entry = None \/ Expired(job.entry) THEN None ELSE job.entry.host,
             execPath |-> Joined(job.conn.cgroup, job.conn.pid)]
  /\ UNCHANGED <<world, names, dns, events, clock, lineage, ops>>

-----------------------------------------------------------------------------
Next ==
  \/ \E p \in Pid : \/ \E c \in Cgroup : Fork(p, c) \/ Move(p, c)
                    \/ \E x \in Path : Exec(p, x)
                    \/ \E a \in Addr : Connect(p, a)
                    \/ Exit(p) \/ CreateSocket(p)
  \/ \E a \in Addr, h \in Host, ttl \in Ttl : Answer(a, h, ttl)
  \/ Tick
  \/ Snoop
  \/ ConsumeExec \/ ConsumeRaw \/ ConsumeConn \/ LookupRead \/ LookupCheck

Spec == Init /\ [][Next]_vars

-----------------------------------------------------------------------------
(* Properties.                                                             *)

\* The type of the state: every table within its capacity.
TypeOK ==
  /\ where \in [Pid -> Cgroup \union {None}] /\ program \in [Pid -> Path \union {None}]
  /\ events \in Seq([kind : {"conn", "exec", "raw_socket"}, cgroup : Cgroup, pid : Pid,
                     addr : Addr \union {None}, image : Path \union {None}])
  /\ Len(wire) <= WireCap /\ clock \in Nat
  /\ cache \in [Cgroup -> Identities \union {None}] /\ Cardinality(Held(cache)) <= IdentCap
  /\ lineage \in [Key -> Path \union {None}] /\ Cardinality(Held(lineage)) <= LineageCap
  /\ Cardinality(Held(entries)) <= DnsCap
  /\ \A a \in Held(entries) : entries[a].host \in Host /\ entries[a].until \in Nat
  /\ told \in [Cgroup -> Identities \union {None}]
  /\ strays \union failed \union dropped \subseteq Cgroup /\ left \subseteq Key
  /\ lost \subseteq Addr

\* When podman answers, the classifier keeps the workloads apart.
WorkloadsTold ==
  \A c, d \in Cgroup :
    PathOf[c] # <<>> /\ PathOf[d] # <<>> =>
      (ClassifyCgroupPath(PathOf[c], TRUE) = ClassifyCgroupPath(PathOf[d], TRUE)
         <=> WorkloadOf[c] = WorkloadOf[d])

\* "a stable, instance-agnostic identity": instances of one workload are given
\* one identity, and those of two workloads are told apart, on every host and
\* after every restart.  Not so, for as long as the name stays cached, if an
\* event outlived its process and the pid went to another cgroup before it was
\* consumed, or if podman could not name the image.
NamedByWorkload ==
  \A c, d \in Cgroup :
    /\ told[c] # None /\ told[d] # None
    /\ {c, d} \intersect (strays \union failed) = {}
    => (told[c] = told[d] <=> WorkloadOf[c] = WorkloadOf[d])

\* "Resolved once per cgroup_id": the events of a cgroup have one identity,
\* whichever of its processes they are about and whatever podman says by then,
\* unless the full cache dropped the cgroup.
NameIsStable ==
  [][\A c \in Cgroup : told[c] # None /\ told'[c] # told[c] => c \in dropped]_vars

\* "retried on the next event": that an earlier process was gone when its event
\* was consumed does not keep a cgroup unknown once there is one to ask.
UnknownIsRetried ==
  [][events # <<>> /\ events' = Tail(events) =>
       LET e == Head(events)
       IN  where[e.pid] = e.cgroup /\ PathOf[e.cgroup] # <<>> => told'[e.cgroup] # None]_vars

\* "TTL-bound, expired entries are treated as a cache miss": a connection is
\* named by the latest answer for its address if that has not expired, and by
\* none if it has, unless the snooper lags behind or the entry was dropped.
NameIsCurrent ==
  job.at = "done" /\ job.current =>
    job.fqdn = IF job.truth # None /\ job.now <= job.truth.until THEN job.truth.host ELSE None

\* "pid reuse can mis-attribute": a connection is joined with a program its
\* process has not executed only if an earlier process of the cgroup had the pid.
ProgramIsOwn ==
  job.at = "done" =>
    job.execPath \in {None, job.conn.image} \/ <<job.conn.cgroup, job.conn.pid>> \in left

=============================================================================
