# A formal model of specification-deviation

`specification-deviation` watches the egress of a fleet of hosts. BPF probes on
every host see each new connection of a cgroup once; the *sensor* names the
workload behind it and uploads it to *central*; central proposes endpoints it
has no decision for, a reviewer allows or denies them, each decision becomes a
git commit, and from a workload's first decision on anything undecided is a
*deviation*. The sensor never blocks traffic.

This directory holds TLA+ modules of that program, the TLC runs that check them
on small instances, and TLAPS proofs of the properties that matter most for
every value of the constants. `PROJECT.json` is the index: components, runs,
the source lines every definition stands for, mutants, hazards, findings and
theorems. Paths below are relative to the repository's root (`src/` there).

    tlc -config Uploader.cfg UploaderOutbox.tla         # a run: module and cfg are in PROJECT.json
    tlapm UploaderProofs.tla                            # a proof

## 1. The system

    kernel (per host)            sensor (per host)                     central (one)
    ---------------------        ---------------------------------     -------------------------------
    egress hooks, exec,    ring  read loop -> lineage, identity, HTTP  Ingest (a goroutine per request)
    raw sockets        --------> DNS cache  -> upload buffer --------> proposals <-> page / reviewer
    seen_connections             (ticking drain + last drain)  batch   seeds, decisions (git), signals

### Components, their state and what makes them correct

| component | source | state | operations | correct when | module |
|---|---|---|---|---|---|
| kernel probes | `bpf/probes.c`, `bpf/common.h` | `seen_connections` (LRU), `events` (ring buffer) | `observe` (4 hooks), `handle_exec`, `handle_raw_socket` | deduplication hides nothing; re-reports are bounded by evictions | `Probes` |
| read loop, exec lineage | `cmd/sensor/main.go` | `lineageTable` | `execEvent`, `connEvent`, `rawSockEvent`, shutdown | a connection is joined with the program that made it; every record is consumed | `Probes`, `Naming`, `Uploader`, `Sensor` |
| identity resolver | `cmd/sensor/identity.go` | cache by cgroup | `Resolve` | a workload is named after itself, not after who has its pid now; one cgroup, one name | `Naming` |
| DNS snooper and cache | `cmd/sensor/dns.go` | TTL map, a raw descriptor | `put`, `lookup`, snooper loop, its two closings | a name is attached only while it is valid; no other descriptor is touched before a shutdown | `Naming`, `Sensor` (the packet parser is not modelled) |
| upload buffer | `cmd/sensor/upload.go` | `buf` | `enqueue`, `drain`, `run`, last drain of `run()` | loses no more than it evicts; backlog drains; shutdown ends | `Uploader`, `Outbox` |
| decision store | `cmd/central/decisions.go` | cache, working tree, git index, HEAD, `.git/index.lock` | `newDecisionStore`, `loadAll`, `Ratify`, `Lookup`, `HasAnyDecision` | what is served was committed; what was ratified survives a restart; audit trail = what is in force | `DecisionStore`, `DecisionRegister` |
| proposal queue, drift detection | `cmd/central/store.go`, handlers of `web.go` | `proposals`, decision cache | `Ingest`, `Dismiss*`, `PendingProposals`, decide | an event means what it would mean ingested at one moment; the queue forgets nothing; decisions stay in force | `Store` |
| static seeds | `cmd/central/seeds.go` | exact index, suffix rules | `newSeedStore`, `MatchesWithGroup`, the two parsers | what is declared is suggested, and nothing else; a pool's traffic is one proposal | `Seeds`, `SeedsFile` |
| signal stream | `cmd/central/signals.go` | file, `bufio.Writer`, ring | `Emit`, `Recent` | one line per signal, the dashboard shows the latest | `SignalSink` |
| review UI | `cmd/central/web.go`, templates | none | POST handlers, page | state changes are in `Store`; rendering is not modelled | `Store` (partly) |
| sensor process: start-up, attachment, reload, output, end | `run()` and `main()` of `cmd/sensor/main.go`, `config.go` | log level, attached links, SIGHUP channel, stdout buffer | SIGHUP, SIGTERM, `emit`, `maybeFlush` | no SIGHUP is lost; output is held back within its bounds; no foreign descriptor is closed before a shutdown | `Sensor` |
| the whole path of a report | the above | | | whatever the kernel is silent about is known, or on its way | `Pipeline` |
| flags, routing, throwaway listener, deployment | the two `main.go`, `cmd/throwaway-listener`, `deploy/`, `packaging/` | none that persists | | | not modelled |

### How they interact

* The probes and the read loop share the ring buffer: records are consumed in
  the order of their reservation, whatever the order of their submission.
* The read loop calls `enqueue`; `u.run` and the last drain of a shutdown are
  two goroutines that may both have copied the same events.
* A batch is one POST. Central answers after it has ingested it; an answer that
  is lost makes the sensor send it again.
* Every POST runs on its own goroutine. `ingestConn` takes the lock of the
  decision store and the lock of the queue in turn, never both, so reviewers
  act between its steps. (The page holds the queue's lock while it asks for
  decisions; nothing takes the two in the other order.)
* `Ratify` runs on the request's goroutine without a lock until it updates the
  cache. It runs git as a child process.
* The read loop asks `/proc`, podman, the DNS cache and the lineage table about
  an event when it consumes it, not when it happened. The snooper fills the DNS
  cache from a goroutine of its own.
* The kernel's dedup map is never told what became of a report: it stays silent
  about a tuple whose report was lost later, or whose proposal was dismissed.
* The seeds file decides the *key* under which an event is looked up, proposed
  and decided. It is read at start only.

### What is hard here

Interleaving (two drains, two `Ratify` calls, probes on two CPUs, ingestion and
review), removal by count from a buffer that changed meanwhile, retries of what
was already done, crashes between a write and its commit, a partial write, an
LRU map, a ring and tables at their limits, pids that are reused before their
events are consumed, signals that arrive while the last one is handled, a
descriptor number that is closed twice, keys that depend on a file that is edited
between restarts, and wildcards with the spelling of ordinary values.
`PROJECT.json` "hazards" lists each at its line with the properties aimed at it;
the ones without a property yet say why.

## 2. Plan

Modules in order of weight, and where they stand.

1. `Uploader`, `Outbox` (abstract), `UploaderOutbox`: checked and proved.
2. `DecisionStore`, `DecisionRegister` (abstract), `DecisionStoreRegister`: checked
   and proved.
3. `Seeds`, `SeedsFile`: checked and proved.
4. `Store`: checked and proved.
5. `Probes`: checked and proved.
6. `SignalSink`: checked and proved.
7. `Pipeline`, the composition from the dedup map to the page: checked, its
   invariants proved.
8. `Naming` (identity, DNS, lineage): checked and proved.
9. `Sensor` (the process): checked, its invariants proved.

Left: `Store` over `DecisionRegister` (a decision is a `Ratify` with its failures
and a restart that may change what they spoiled, where `Store` has only the update of
the cache).

## 3. The modules

Each module starts with a comment on what it abstracts. Some definitions have a
*faulty variant* beside them, named after the mistake: it is used by no
specification and serves to show that a property can fail (`PROJECT.json`
"mutants"). Variables marked *history* in a module record what properties need
and are read by no action's guard.

### 3.1 Uploader: the sensor's buffer (`upload.go`, `run()` of `main.go`)

Events are numbered as they are enqueued. The Go slice is appended to and cut at
the front only, so it is the window `head+1 .. tail`, and a batch is a window
too. `Enqueue` is `enqueue` with its eviction; `Snapshot`, `Accept`/`Fail`/
`Reject` and `Remove` are the three parts of `drain`, which unlocks `u.mu` for
the request; `FinalSnapshot` and `Exit` are the end of `run()`; `Stop` is
SIGTERM, `ReadError` the early return. `Ingest`, `CentralDies`, `LateIngest` and
`LateDrop` are central's side, as far as the sensor can tell: a request that
timed out may still be handled, and a central that dies in a batch has ingested
a prefix.

* `uploader` (`Cap` 2, 5 events, one late request; the module is
  `UploaderOutbox`, which extends `Uploader`). `TypeOK`, `LossPaidByEviction`,
  `FinalDrainComplete`, `AckClearsBatch`, `BacklogDrains`,
  `ShutdownTerminates`, `RefinesOutbox`. `drain` removes `len(batch)` events from
  the front of whatever the buffer has become. Two events of capacity and five
  events make room for two evictions during one request and for two drains with
  different batches, the cases in which the count is wrong; each lost event is
  still paid for by an eviction. `AckClearsBatch` is about the step that handles an
  acknowledgement: it cuts the whole batch and nothing comes back. It does not say
  that nothing is sent twice: the last drain may copy the buffer between the 200 of
  the drain of `u.run` and that step, and an answer that is lost leads to a retry.
  `Outbox` is what a reader wants to know of it:
  events are accepted in order, delivered any number of times, and forgotten from
  the oldest on, undelivered only if an eviction pays for it. The refinement
  mapping is `accepted <- tail`, `delivered <- received`, `forgotten <- head`,
  `dropped <- evicted`. For the two liveness properties see section 4.

### 3.2 DecisionStore: git-backed decisions (`decisions.go`)

A file is a decision, absent, or `Broken` (truncated, or a mixture of two
writes): `json.Unmarshal` fails on it. `Begin` truncates, `Fill` writes,
`GitStart` takes `.git/index.lock`, `AddEnd` stages what the file holds *by
then*, `CommitEnd` commits the *whole* index (the code names no path), `Publish`
updates the cache. Every step can fail (`FillFails`, `GitLocked`, `GitFails`) and
`Crash` can come at any point, leaving the lock behind. `Start` is
`newDecisionStore`, which refuses to serve if a file does not decode;
`StartInterrupted` dies between `git init` and `git config`. A restart reads the
working tree, not HEAD.

* `decisions` (two fleets in two directories, two ratifiers, three calls, one
  crash; the module extends `DecisionStoreRegister`). `RatifiedStaysDecided`,
  `CommittedUnlessSpoiled`, `TrailAgrees`, `RefinesRegister`. Three calls are what it
  takes to ratify, to fail on the same file and to have a third call's commit take the
  remains along. `DecisionRegister` is what a reader wants to know of it: a decision
  for each key, replaced in one step between the beginning and the end of a call; a
  call that fails changes nothing for now; central's death changes nothing, except to
  what a call under way was given, as long as the key is not *damaged*. The refinement
  mapping is `value <- InForce` (the cache, or what a start would read back),
  `pending <- UnderWay` (the decisions of the ratifiers that are not idle),
  `damaged <- Damaged` (keys of spoiled files). `TypeOK` is proved only.
* `decisions_uncommitted` (a violation): the file of a call that stopped before
  its commit stays in the working tree, and a restart serves it. Two calls on one
  file without a crash break the same property.

The set `spoiled` is the exact boundary between the good and the bad: a file on
which no call failed half-way, was cut short or raced has its decision committed
and the same in working tree, index, HEAD and cache.

### 3.3 Seeds and SeedsFile: what is declared (`seeds.go`)

`Seeds` has the operators: `SeedKeys` (the key and its wildcards), the exact
index, the suffix rules, `MatchesWithGroup` with its three steps, and the two
parsers. (Nothing in the repository calls the parsers; `loadSeeds` decodes YAML
only. Their output is part of `File` as far as an operator writes it into the seeds
file.) Text is abstract: lower-casing is a function, "ends in a dot and" a
relation, and so is how `net.IP.String` spells an address that a resolver
returned (`Canonical`); a `static` entry keeps its author's spelling. `SeedsFile` grows a
file entry by entry (`FileSpec`), so that the invariants range
over *every* file of up to `MaxEntries` entries and every question.

* `seeds` (five values, three ports, two entries of any kind).
  `DeclaredIsCovered`, `ConfigurationIsCovered`,
  `UnseededTrafficCollapses`, `SuggestionsOnlyGrow`. Two entries suffice for one
  to hide another: matching looks at one exact key, then at the first rule.
* `seeds_names` (a violation, one entry): names arrive with the final dot of the
  wire format, which the pools of a seeds file do not have.

### 3.4 Store: the queue and drift (`store.go`, handlers of `web.go`)

`EXTENDS Seeds`. A *handler* is a POST on its goroutine: `Take`, then the steps
of `ingestConn` between which no lock is held: `LookupAllowed`/`LookupDenied`/
`LookupMissed`, `Upsert`, `Drift`, `Deviation`, `Denied`; `RawSocket` is
`ingestRawSocket`. `Decide` and the three dismissals are the reviewer, whose form
may come from a page of earlier: `decideHandler` accepts whatever endpoint it names
(`Form` is the set of those that TLC tries). `Restart` empties the queue, reads
the decisions back and possibly another seeds file; decisions may have been
reverted in git meanwhile.

* `store_plain` (two handlers, two events, two uploads, two decisions, a
  dismissal, no seeds). `TypeOK`, `IngestIsAtomic`: what ingesting an event came
  to is what ingesting it at *one* moment between its beginning and its end would
  have come to. Two decisions are needed: one for the baseline and one on the very
  endpoint. The exception is a deviation of a workload that had no baseline when
  the event was taken up (section 6).
* `store_pool` (chronyd on two hosts, a declared pool, a member that one host reports
  by address with port 0 and the other by name, one decision, dismissal and restart,
  which may edit the seeds file: another pool goes before the first one and the
  member's name behind it). `QueueIsComplete`, `DecisionsStayInForce`: what a decision covered stays covered over every edit that
  keeps the entries which match that traffic *themselves*, in their order
  (`SameFor`). The key is the name of the first rule that passes, searched for in the
  whole file, so that this is not plain: for the member's address the second file
  keeps the pool, for the member's name it is the new exact entry that answers, and
  the decision no longer applies, which is outside the hypothesis.

Two passing runs and not one: with pool *and* two decisions the state space is
beyond a few minutes, and the two properties of each instance do not depend on
what the other leaves out. Handlers are symmetric (`Symmetry`): no definition
tells them apart.

### 3.5 Probes: the kernel side and the read loop (`probes.c`, `main.go`)

The actors are threads: each runs one program at a time, on a CPU of its own, so
that two threads of one process (`ProcOf`) race through `observe` like any others.
`Connect`, then `Hit` or `Miss`, `MarkSeen` or `MarkFails`, `ReserveConn` or
`DropConn`, `Submit` are its helper calls. `MarkFails` is a `bpf_map_update_elem`
that fails, whose result the code ignores: the record follows without an entry.
`Insert` and the refresh of a `Hit` are both `Update`, which lets the LRU map
evict any entry, and before it is full, as its per-CPU free lists may.
`Exec`/`ReserveExec` and `CreateSocket`/`ReserveRaw` are the other probes; an exec
leaves its process with the one thread that called it, so no other thread is in a
probe then (`Others`). `ConsumeExec` and `ConsumeOther` are the read loop; the
lineage table drops an arbitrary entry when full, as ranging over a Go map does.

* `probes` (two threads of one process and the sensor, in one cgroup, a dedup map of
  one entry, a ring of two, a table of one, three operations). `TypeOK`,
  `SeenIsReported`, `ReportsBounded`, `LineageIsRight`, `RecordsAreConsumed`. Every
  table is small enough to overflow within three operations. `ReportsBounded`
  counts per thread: a thread reports a tuple at most once more than the tuple was
  evicted and the thread's own insertions of it failed. (No such bound holds for a
  process: its threads may all miss at once.) A busy record holds up those behind
  it, and each is consumed in the end.

### 3.6 SignalSink: the signal stream (`signals.go`)

`Emit` holds its lock throughout and is one step. A full disk tears a line at any
point; a `bufio.Writer` keeps its first error; a restart appends to what is there.

* `signals` (five signals, a ring of two, two full disks, two restarts).
  `DashboardIsRecent`, `FileHasNoHoles`: what a run of central completed in the
  file is the beginning of what it emitted.

### 3.7 Naming: what the read loop adds to an event (`identity.go`, `dns.go`, `main.go`)

`Fork`, `Exit`, `Move`, `Exec`, `Connect`, `CreateSocket`, `Answer` and `Tick` are
the world: processes, and DNS responses on the interface. `Snoop` is the snooper's
goroutine. `ConsumeExec`, `ConsumeRaw`, `ConsumeConn` with `LookupRead` and
`LookupCheck` are the read loop; a lookup takes the entry under the lock and the
time after it. `Resolve` reads the cgroup of *whoever has the pid now* and caches
it under the cgroup of the event. A cgroup's path is the sequence of its
components, each of the kind that a regular expression of `identity.go` looks for.

* `naming` (two containers of one image, one with a unit inside, and a service;
  two pids, two addresses, two names, every table of one entry, four happenings).
  `TypeOK`, `NamedByWorkload`, `NameIsStable`, `UnknownIsRetried`, `NameIsCurrent`,
  `ProgramIsOwn`. `NamedByWorkload` compares the identities of *all* cgroups with
  what their operator would say, in both directions; its exceptions (an event that
  outlived its process while the pid went to another cgroup, and a failed
  `podman inspect`) are the ways in which the code misnames, and the cache then
  keeps the wrong name. The other exceptions are likewise each reached by some
  behaviour: without it TLC refutes the property. The run's module assumes
  `WorkloadsTold` of its paths (section 5). Four happenings are a fork, an
  event, an exit and the reuse of the pid before the event is consumed.

### 3.8 Sensor: the process (`main.go`, `config.go`, `snoopDNS`)

One life of the sensor: `LoadConfig`, `Attach`/`AttachFails`, the read loop with
its output (`Emit`, `LoopEnds`, `ReadError`, `Finish`), the goroutine that reloads
(`ReloadBegin`, `ReloadLoad`, `ReloadSet`, `ReloadEnds`), SIGTERM (`Terminate`,
`RdClose`) and the snooper's descriptor (`SnoopOpen` ... `SnoopDone`). Descriptors
are numbers, and the kernel hands out the lowest that is free, so that a closed one
comes back as the connection to central (`Dial`). `SnoopDone` closes the number
while the snooper may be blocked on it, which does not wake it.

* `sensor` (two descriptors, two hooks, two edits of the file, one of which is
  malformed, two SIGHUPs, two events, two connections). `TypeOK`,
  `ReloadTakesEffect`, `OutputIsTimely`, `SnooperKeepsToItself`. Two SIGHUPs make
  one come during the reload for the other. The
  snooper's number changes hands with two connections. `SnooperKeepsToItself` says
  that nothing of the sort happens before a shutdown, and that a shutdown costs one
  connection at most; that it can be the last drain's is a known limit (section 6).

### 3.9 Pipeline: from the connection to the page

Each part reduced to what it does to a *report*: `Hit`/`Miss` on the dedup map
(whose update may fail and leave the tuple unmarked), the
ring and the upload buffer as two windows of one numbered log, `Send`/`SendLost`/
`Answered`/`GiveUp` for `drain` and its retries, `SensorRestarts`; on the other side
`Ingest`, `LateIngest` (of a request that was given up), `Decide`, `Dismiss` and
`CentralRestarts`, which may find decisions reverted in git. The parts' own modules
justify the reductions: in `Store` an event means what it means at one moment, in
`Uploader` a batch is a window, and so on. The composition shows what none of them
can: who still knows of a tuple that the kernel is silent about.

* `pipeline` (one host, two tuples, capacities of one, three connections, one
  restart of either end, one review). `TypeOK`, `SilentIsKnown`,
  `LossNeedsOverflow`, `ReportsArrive`. "If the same traffic recurs, it simply
  reappears" rests on `SilentIsKnown`: as long as the kernel is silent about a tuple,
  the decision is made, or the proposal names the host, or the report is on its way.
  Its exceptions are what the code does *not* deliver: a report dropped by a full
  ring or buffer, a dismissal, and a restart of central silence the tuple until
  the dedup map evicts it. Each exception is needed. One host suffices for TLC, as
  hosts meet in the queue only; the proofs are for any number. `ReportsArrive` is
  checked for the tuple in `Followed`; `Init` and the actions treat all tuples alike.

## 4. Bounds, deadlock, fairness

Every bound is a constant with a name (`MaxEvents`, `MaxRatify`, `MaxOps`, ...)
and stands in the guard of the action it bounds; each cfg gives it the smallest
value at which the case it is there for happens. Capacities (`Cap`, `SeenCap`,
`RingCap`, `LineageCap`, `Ring`, ...) are 1 or 2: the code distinguishes only full,
nearly full and not full, and the proofs cover every value. Deadlock checking is
off in every cfg because the systems stop: the sensor ends, and bounded counters
run out.

Fairness is stated in four modules.

* `Uploader`: the ticker fires for ever and the runtime schedules every
  goroutine, so weak fairness of `Snapshot`, `Remove`, `FinalSnapshot`, `Exit`.
  `Fail` is weakly fair since a request has a timeout of 5 s. The one assumption
  about the environment is that an outage of central ends: strong fairness of
  `Ingest("run")` and `Accept("run")`, i.e. a request that is repeated is handled
  and answered in time once. `ShutdownTerminates` does not rest on it, as the last
  drain's `Ingest` is not fair.
* `Probes`: a BPF program that has begun runs to its end (the verifier sees to
  that), and the read loop keeps reading. No process is assumed to do anything.
* `Sensor`: the runtime schedules the reloading goroutine (`Reloading`). Nothing else
  is assumed.
* `Pipeline`: the read loop consumes, a request ends by its timeout (`GiveUp`),
  central handles what has reached it, and of the requests that are sent again and
  again one reaches central: strong fairness of `Send`, weak fairness of the rest.
  No answer is assumed to arrive.

## 5. What is proved

With TLAPS, for every value of the constants under the named assumptions of the
module that declares them (types, and capacities that are not 0).

`UploaderProofs`: `TypeCorrect`, `LossBounded` (`LossPaidByEviction`), `FinalDrain`
(`FinalDrainComplete`), `AckClears` (`AckClearsBatch`), and `Refinement` (the step
simulation of `Outbox`). `LossPaidByEviction` is not inductive: `Remove` may move
the front past its batch, and nothing in it says what that costs. `IInv` adds an
account for each drain in flight (`RunPaid`, `FinalPaid`): what central had not
seen below the batch when it was copied, *plus* every event by which the front has
moved since, was paid for by evictions. When the acknowledged batch is cut, the
batch itself has been seen (`AckedSeen`), so the events cut beyond it are at most
as many as the account holds. The remaining conjuncts (`BatchOK`, `FinalBatchOK`,
`RunBatchOK`, `LateOK`) say where batches lie, and that only the last drain can
empty the buffer under a drain of `u.run`.

`DecisionStoreProofs`: `TypeCorrect`, `Committed` (`CommittedUnlessSpoiled`),
`Ratified` (`RatifiedStaysDecided`), `Trail` (`TrailAgrees`), `Register`
(`RefinesRegister`). The last three assume
`NoCollision`: `sanitize` is injective on the fleets in use, without which two
workloads share a file. The inductive invariant says where a
file can be while a call works on it (`Progress`), that a call on an unspoiled file
is alone on it (`Alone`), that HEAD holds only what was committed
(`HeadCommitted`), that files lie where their keys belong (`FilesInPlace`), that a
ratified key has a file (`RatifiedHasFile`), and that an unspoiled file nobody works
on is the same everywhere (`Settled`). `git commit` is the step to look at: it
commits other calls' staged files, which is harmless because their own commit
fails then with "nothing to commit" and spoils the file. `Register` is the step
simulation of `DecisionRegister`: a step of git or of a write changes neither the
cache nor, while central is down, the files. `Crash` is the step to look at:
`ReadBack` shows from `Settled`, `Progress` and `CacheAgrees` that a start will find
what was in force, or what the call that had committed and not returned was given.

`ProbesProofs`: `TypeCorrect`, `NothingHidden` (`SeenIsReported`),
`BoundedReports` (`ReportsBounded`). The bound is not inductive, as a
program between its insertion and its reservation has spent the entry and not
reported yet. `Accounted` counts, for a thread and a tuple, its reports *and* the
one it is about to make against the evictions of the tuple and the thread's failed
insertions plus its presence in the map; `MissPaid` says that a thread which missed
the tuple has an eviction or a failed insertion to spare, whoever inserted the tuple
since. `RightLineage` (`LineageIsRight`) rests on
`LineageInv`: in the ring, a connection comes after the exec record of its program
and no other exec record of its process is between them, and the table holds the
program of the last exec record consumed, unless it dropped it.

`SignalSinkProofs`: `Dashboard` (`DashboardIsRecent`), `NoHoles`
(`FileHasNoHoles`). `LinesInOrder` adds what makes the second one inductive: a
writer that has not failed has completed a line for *every* signal of this run, so
that the next line cannot follow a gap.

`StoreProofs`, on `SeedsFile`: `Declared` (`DeclaredIsCovered`), `OneProposal`
(`UnseededTrafficCollapses`), `Configured` (`ConfigurationIsCovered`), `OnlyGrow`
(`SuggestionsOnlyGrow`), for files of every length. What a file *matches* is a
matter of its set of seeds: that one of the rules that pass comes first
(`FirstPlace`, by the well-foundedness of the naturals), that whether an endpoint
matches does not depend on the order of the rules (`MatchesAny`), that a group is the
name of a declared pool (`GroupIsDeclared`). What the parsers *write* is a recursive
function of the number of lines. No library theorem gives it, so the module shows that
there is one and which seeds it holds by an induction over sets of numbers
(`EveryNumber`, `WrittenExists`, `WrittenMembers`). The rest is about single lines:
each is parsed without regard to those after it (`LinesStay`), and a pool that is
written twice is parsed where it stands first (`PoolParsed`).

`StoreProofs`, on `Store`: `TypeCorrect`, `Atomic` (`IngestIsAtomic`), `Complete`
(`QueueIsComplete`), `InForce` (`DecisionsStayInForce`). For `Atomic`, `NowIsPossible` says that while an
event is being ingested the outcome of ingesting it *now* is among the
possibilities, and `PlaceIsPossible` what each place in the code knows of the
moments before: past a lookup that found nothing, a deviation was possible if there
was a baseline then, and a proposal is possible as long as there is none. That a
decision never takes a baseline away (`DecideKeepsBaseline`) is what carries this
from the lookup to the drift check. `Complete` adds that what a lookup found denied
still is decided when it is counted. `InForce` rests on `Settled`, which speaks of
the key that the file *of the time* gave, and on `GroupLocal`: two files whose own
entries for an endpoint are the same in the same order give it the same pool. The
entries that match by themselves are those through which the file matches
(`OneEntry`), a file with none of the other's exact entries has none itself, and an
order-preserving correspondence takes the first rule to the first (`SameFirst`).

`PipelineProofs`: `TypeCorrect`, `SilentKnown` (`SilentIsKnown`), `LossOverflow`
(`LossNeedsOverflow`). `SilentIsKnown` is not inductive: when the answer comes the
batch is cut from the buffer, and what it held must be known by then. `Posted` says
so for the whole time a request is with central: every silent tuple is known, or
central has it still to ingest, or it is in the log *behind* the batch. A retry
makes batches overlap and an eviction moves the buffer under a request, so the cut
may go past the batch; `Cut` says that this takes an eviction, and `LastPlace` (the
well-foundedness of the naturals) finds the last record of a tuple, which decides
whether dropping a record loses anything (`WindowCut`).

`NamingProofs`: `TypeCorrect`, `NamedAlike` (`NamedByWorkload`), `NamedByLatest`
(`NameIsCurrent`), `JoinedWithOwn` (`ProgramIsOwn`), and the action properties
`StableNames` (`NameIsStable`) and `RetriedNames` (`UnknownIsRetried`). None of the
three invariants is inductive. Names: `EventsPlaced` says that the process of a
waiting event is in the cgroup of that event, or gone, unless the cgroup counts as a
stray, and `NamesKept` that a name once given stays in the cache until it is
dropped and is the classification of the cgroup's own path.
`NamedAlike` assumes `WorkloadsTold`: the paths in use tell the workloads apart as
their operator does, which is a condition on how the host is run and not on the code;
`MCNaming` assumes it of its paths and TLC evaluates it. Addresses: the records in the
socket are in the order of their answers (`WireInOrder`), and the latest answer is in
the socket, in the cache or lost (`LatestIsKept`), in each of which the lookup that
took its entry earlier must still be right (`JobAgrees`). Programs: `ProgramsTold`
says what the exec records *before a place* of the queue come to, over the table, for
every connection that waits and for every process that is alive, and that a process
which never came has left nothing.

`SensorProofs`: `TypeCorrect`, `Timely` (`OutputIsTimely`), `KeepsToItself`
(`SnooperKeepsToItself`). `Descriptors` says that the snooper's number is a packet
socket's as long as it is used and the first of its two closings is to come, that the
connection to central never has such a number, and that only the second closing can
hit a foreign descriptor. That `level` is always a well-formed version needs that
what was loaded, and is to be set, is one.

Only model-checked: the five liveness properties (`BacklogDrains`,
`ShutdownTerminates`, `RecordsAreConsumed`, `ReloadTakesEffect`,
`ReportsArrive`), since ENABLED is beyond the prover. Every other property of a
passing run is stated by a theorem.

## 6. Where the code and its words part

Shown by a run that TLC refutes; the quotations are in `PROJECT.json` "findings".

| run | the words | the code |
|---|---|---|
| `decisions_uncommitted` | does not exist until the commit succeeds | `loadAll` reads the working tree (`decisions.go:109`) |
| `seeds_names` | suffix matching covers the pool's members | names end in a dot (`seeds.go:143`) |

Known limits that delimit the properties and have no run of their own:

* `upload.go:49` says a full buffer drops the oldest event; after an eviction
  during a request `drain` removes unsent events as well, the newest included
  (`upload.go:118`). `LossPaidByEviction` bounds how many.
* A tuple is marked as seen before its record is reserved (`probes.c:84`): if the
  ring is full it is never reported while it stays in the map, an exception of
  `SeenIsReported` and `SilentIsKnown`.
* A deviation is signalled although the first decision of the workload was made on
  that very endpoint, between lookup and drift check (`store.go:171`); it is the
  exception of `IngestIsAtomic`.
* `store.go:229` and the page promise that dismissed traffic reappears: not as long
  as the kernel's dedup map has the tuple (`probes.c:79`). The same goes for the
  queue that a restart of central loses. Conversely a late retry can bring a
  dismissed proposal back although nothing recurred.
* A cgroup is misnamed, for as long as it stays cached, if the pid of its event has
  gone to another cgroup (`identity.go:49`) or podman failed once
  (`identity.go:129`). A unit whose name ends like cron's (`anacrond.service`) is
  classified as cron, and an image named `cli` as podman's own command; names are
  atoms in the model.
* `podman inspect` runs on the read loop without a timeout (`identity.go:127`): while
  it hangs nothing is consumed and a shutdown waits. The models take it to return.
* The A record's owner, behind a CNAME the canonical name and not the one that was
  asked for, is the name of an address; lifetimes count from snooping
  (`dns.go:67`).
* A SIGHUP before `signal.Notify` (`main.go:218`) ends the sensor, and systemd does
  not restart what it takes for a clean exit. A SIGHUP while the file is missing
  resets the level to the default (`config.go`), a malformed one keeps it.
* Output is flushed only when an event arrives (`main.go:257`), although
  `main.go:48` speaks of idle periods: the last events of a burst wait for the next
  one, or for the end. `OutputIsTimely` bounds what is held back as of the latest
  event.
* At a shutdown the snooper may read from, or close, the last drain's connection,
  whose descriptor has its old number (`dns.go:92`, `dns.go:96`); the events of that
  drain are lost then.
* The last drain of a shutdown is one attempt (`main.go:333`).
* Rewriting a ratified decision truncates its file first; a crash in between
  leaves a file on which central does not start (`decisions.go:164`). In the model
  `Start` is disabled then.
* Two fleet identities that `sanitize` to one directory share their files
  (`decisions.go:65`). `RatifiedStaysDecided`, `TrailAgrees` and `RefinesRegister` are
  proved under `NoCollision`, and `decisions` gives each fleet its directory.
* A seed for one port suggests every port of its endpoint (`seeds.go:110`), and an
  address that another seed names is not grouped under its pool (`seeds.go:137`):
  the hypothesis of `UnseededTrafficCollapses`.
* A pool's decision covers any address chronyd talks NTP to (`seeds.go:158`); an
  entry more in the seeds file that itself matches the traffic can move it away from
  its decision (`store.go:124`): the hypothesis of `DecisionsStayInForce`.
* Every delivery of an event is counted and signalled (`store.go:168`).
* Threads on several CPUs may all report a new tuple (`probes.c:77`), and one whose
  insertion fails reports it again (`probes.c:84`), which `ReportsBounded` bounds per
  thread; a dropped exec record leaves the previous program in the
  lineage table (`probes.c:158`), which is the hypothesis of `LineageIsRight`.
* After one write error no signal reaches the file until a restart, and a torn
  line is continued then (`signals.go:57`).

## 7. Not modelled, and why

* The DNS packet parser (`parseIPPacket`): byte-level decoding without state. A
  packet is the A records that it holds.
* JSON, YAML, record layouts, SHA-1 path names:
  data formats. A file that does not decode is `Broken`; a path is its directory
  and endpoint, so hash collisions are left out.
* The annotations of a proposal that only the page shows, sorting, templates.
* Whether central accepts a batch is its JSON decoder's matter: a rejection is
  temporary in `Uploader`, so a batch that is rejected for ever is outside
  `BacklogDrains`.
* A pid that is reused, in `Probes`: a process is its own identity there. `Naming`
  reuses them.
* The parent's name from `/proc` (an annotation of the page), and records that do
  not decode, which the read loop skips.
* The page reads a proposal's count and times without `Store.mu` (`web.go:60`): a
  data race on values that are only shown.
* Flags, routing, the removal of the memory lock, the kinds of links, the listener
  for demonstrations, manifests and packaging: no state of interest.
