-------------------------------- MODULE Store --------------------------------
(***************************************************************************)
(* Central's proposal queue and drift detection: cmd/central/store.go,     *)
(* with the handlers of web.go that drive it and the seeds it groups by.   *)
(*                                                                         *)
(* Every POST /events runs Ingest on a goroutine of its own (a handler     *)
(* here).  ingestConn takes the lock of the decision store and its own one *)
(* after the other and never both: it looks the endpoint up, unlocks,      *)
(* records the proposal, unlocks, asks whether the workload has a baseline *)
(* and only then emits.  Reviewers decide and dismiss at any moment in     *)
(* between.                                                                *)
(*                                                                         *)
(* The decision store is its cache (module DecisionStore has the rest).    *)
(* Events are numbered as the sensors report them; a batch is a window of  *)
(* that numbering, as in module Uploader, and may be posted again.         *)
(***************************************************************************)
EXTENDS Seeds, FiniteSets

CONSTANTS Instance,    \* hosts
          Observable,  \* the events that sensors may report
          Handler,     \* requests central may be handling at a time
          SeedFiles,   \* the seeds files central may be started with
          Form,        \* the endpoints that forms sent to /decide and /dismiss may name
          NoName,      \* the fqdn of an event whose name the sensor missed
          NoProposal,  \* no entry in the queue
          MaxEvents, MaxPosts, MaxDecide, MaxDismiss, MaxRestart  \* bounds

Event == [kind : {"conn", "raw_socket"}, instance : Instance, fleet : Fleet,
          addr : Value, fqdn : Value \union {NoName}, port : Port, proto : Proto]
Key   == [fleet : Fleet, value : Value, port : Port, proto : Proto]

ASSUME ObservableAssumption == Observable \subseteq Event
ASSUME FormAssumption == Form \subseteq Key
ASSUME SeedFilesAssumption  == SeedFiles \subseteq Seq(Seed)
ASSUME StoreBounds == {MaxEvents, MaxPosts, MaxDecide, MaxDismiss, MaxRestart} \subseteq Nat

Verdict  == {"none", "allow", "deny"}
Outcomes == {"quiet", "denied", "proposal", "deviation", "violation"}
Point    == {"idle", "event", "lookup", "denied", "upsert", "drift", "deviation", "invariant"}
Signals  == {"denied_endpoint_observed", "spec_deviation", "invariant_violation"}
Proposal == [count : Nat \ {0}, instances : (SUBSET Instance) \ {{}}]

ASSUME NoProposalAssumption == NoProposal \notin Proposal

VARIABLES
  seeds,      \* Store.seeds
  cache,      \* DecisionStore.cache
  proposals,  \* Store.proposals
  log,        \* the events reported so far
  pc,         \* where each handler is
  next, last, \* the events of its batch it has still to ingest
  emitted,    \* history: <<signal, event>> for every signal emitted
  could,      \* history: what ingesting the current event in one step could have come to
  baseline,   \* history: the current event's workload had a baseline when it was taken up
  did,        \* history: what ingesting it came to
  owed,       \* history: events ingested, and not dismissed since nor lost in a restart
  settled,    \* history: <<event, seeds file>>: found decided, and not reverted since
  posts, decides, dismisses, restarts

history  == <<could, baseline, did>>
counters == <<posts, decides, dismisses, restarts>>
vars == <<seeds, cache, proposals, log, pc, next, last, emitted, history, owed, settled,
          counters>>

-----------------------------------------------------------------------------
(* What ingestConn computes from an event.                                 *)

EndpointValue(ev) == IF ev.fqdn # NoName THEN ev.fqdn ELSE ev.addr

\* The port that decisions and proposals are keyed under: chronyd's sendmsg
\* shows 0.
EffectivePort(ev) ==
  IF ev.port = 0 /\ ev.proto = "udp" /\ ev.fleet \in Chronyd THEN 123 ELSE ev.port

AskedOf(ev) == [value |-> EndpointValue(ev), port |-> EffectivePort(ev),
                proto |-> ev.proto, fleet |-> ev.fleet]

\* The endpoint the event is about: the pool it belongs to, if any.
KeyOf(file, ev) ==
  LET group == GroupFor(file, AskedOf(ev))
  IN  [fleet |-> ev.fleet,
       value |-> IF group = NoGroup THEN EndpointValue(ev) ELSE group,
       port |-> EffectivePort(ev), proto |-> ev.proto]

HasAnyDecision(c, f) == \E k \in Key : k.fleet = f /\ c[k] # "none"

\* What ingesting the event comes to if nothing happens meanwhile.
Outcome(c, ev) ==
  LET k == KeyOf(seeds, ev)
  IN  CASE ev.kind = "raw_socket"                  -> "violation"
        [] ev.kind = "conn" /\ c[k] = "allow"      -> "quiet"
        [] ev.kind = "conn" /\ c[k] = "deny"       -> "denied"
        [] ev.kind = "conn" /\ c[k] = "none"       ->
             IF HasAnyDecision(c, ev.fleet) THEN "deviation" ELSE "proposal"

Current(h)    == log[next[h]]
CurrentKey(h) == KeyOf(seeds, Current(h))
Busy(h)       == pc[h] \notin {"idle", "event"}

-----------------------------------------------------------------------------
Init ==
  /\ seeds \in SeedFiles
  /\ cache = [k \in Key |-> "none"]
  /\ proposals = [k \in Key |-> NoProposal]
  /\ log = <<>>
  /\ pc = [h \in Handler |-> "idle"]
  /\ next = [h \in Handler |-> 1] /\ last = [h \in Handler |-> 0]
  /\ emitted = {}
  /\ could = [h \in Handler |-> {}]
  /\ baseline = [h \in Handler |-> FALSE]
  /\ did = [h \in Handler |-> "none"]
  /\ owed = {} /\ settled = {}
  /\ posts = 0 /\ decides = 0 /\ dismisses = 0 /\ restarts = 0

Goto(h, p) == pc' = [pc EXCEPT ![h] = p]

\* The handler is done with its event and turns to the next one.
Finish(h, outcome) ==
  /\ did' = [did EXCEPT ![h] = outcome]
  /\ next' = [next EXCEPT ![h] = @ + 1]
  /\ Goto(h, "event")

\* The requests central was handling are gone.
AllIdle ==
  /\ pc' = [h \in Handler |-> "idle"]
  /\ next' = [h \in Handler |-> 1] /\ last' = [h \in Handler |-> 0]
  /\ could' = [h \in Handler |-> {}] /\ did' = [h \in Handler |-> "none"]
  /\ baseline' = [h \in Handler |-> FALSE]

Emit(signal, h) == emitted' = emitted \union {<<signal, next[h]>>}

-----------------------------------------------------------------------------
(* Faulty variants of the actions below: each makes one mistake that       *)
(* store.go could easily make, and breaks one property.                    *)

\* A new entry does not record the instance that reported it.
UpsertNoInstance(h) ==
  /\ pc[h] = "upsert"
  /\ LET k == CurrentKey(h)
     IN  proposals' = [proposals EXCEPT ![k] =
           IF @ = NoProposal THEN [count |-> 1, instances |-> {}]
           ELSE [count |-> @.count + 1, instances |-> @.instances \union {Current(h).instance}]]
  /\ owed' = owed \union {next[h]}
  /\ Goto(h, "drift")
  /\ UNCHANGED <<seeds, cache, log, next, last, emitted, history, settled, counters>>

\* Every event makes a fresh entry.
UpsertFresh(h) ==
  /\ pc[h] = "upsert"
  /\ proposals' = [proposals EXCEPT ![CurrentKey(h)] =
                     [count |-> 1, instances |-> {Current(h).instance}]]
  /\ owed' = owed \union {next[h]}
  /\ Goto(h, "drift")
  /\ UNCHANGED <<seeds, cache, log, next, last, emitted, history, settled, counters>>

\* Only an endpoint new to the queue is drift.
DriftIfNew(h) ==
  /\ pc[h] = "drift"
  /\ LET p == proposals[CurrentKey(h)]
     IN  IF HasAnyDecision(cache, Current(h).fleet) /\ p # NoProposal /\ p.count = 1
           THEN Goto(h, "deviation") /\ UNCHANGED <<did, next>>
           ELSE Finish(h, "proposal")
  /\ UNCHANGED <<seeds, cache, proposals, log, last, emitted, could, baseline, owed,
                 settled, counters>>

-----------------------------------------------------------------------------
(* Events arrive.                                                          *)

\* A sensor reports an event.
Report(ev) ==
  /\ Len(log) < MaxEvents
  /\ log' = Append(log, ev)
  /\ UNCHANGED <<seeds, cache, proposals, pc, next, last, emitted, history, owed, settled,
                 counters>>

\* ... and uploads it in a batch, not always for the first time.
Post(h, first, end) ==
  /\ pc[h] = "idle"
  /\ posts < MaxPosts
  /\ posts' = posts + 1
  /\ next' = [next EXCEPT ![h] = first] /\ last' = [last EXCEPT ![h] = end]
  /\ Goto(h, "event")
  /\ UNCHANGED <<seeds, cache, proposals, log, emitted, history, owed, settled, decides,
                 dismisses, restarts>>

\* Ingest turns to the next event of the batch.
Take(h) ==
  /\ pc[h] = "event" /\ next[h] <= last[h]
  /\ could' = [could EXCEPT ![h] = {Outcome(cache, Current(h))}]
  /\ baseline' = [baseline EXCEPT ![h] = HasAnyDecision(cache, Current(h).fleet)]
  /\ did' = [did EXCEPT ![h] = "none"]
  /\ Goto(h, IF Current(h).kind = "conn" THEN "lookup" ELSE "invariant")
  /\ UNCHANGED <<seeds, cache, proposals, log, next, last, emitted, owed, settled, counters>>

\* The batch is ingested: 202 Accepted.
Accepted(h) ==
  /\ pc[h] = "event" /\ next[h] > last[h]
  /\ next' = [next EXCEPT ![h] = 1] /\ last' = [last EXCEPT ![h] = 0]
  /\ did' = [did EXCEPT ![h] = "none"] /\ could' = [could EXCEPT ![h] = {}]
  /\ baseline' = [baseline EXCEPT ![h] = FALSE]
  /\ Goto(h, "idle")
  /\ UNCHANGED <<seeds, cache, proposals, log, emitted, owed, settled, counters>>

\* ingestRawSocket.
RawSocket(h) ==
  /\ pc[h] = "invariant"
  /\ Emit("invariant_violation", h)
  /\ Finish(h, "violation")
  /\ UNCHANGED <<seeds, cache, proposals, log, last, could, baseline, owed, settled, counters>>

-----------------------------------------------------------------------------
(* ingestConn.                                                             *)

\* The endpoint is looked up in the decision store.
LookupAllowed(h) ==
  /\ pc[h] = "lookup" /\ cache[CurrentKey(h)] = "allow"
  /\ owed' = owed \union {next[h]}
  /\ settled' = settled \union {<<Current(h), seeds>>}
  /\ Finish(h, "quiet")
  /\ UNCHANGED <<seeds, cache, proposals, log, last, emitted, could, baseline, counters>>

LookupDenied(h) ==
  /\ pc[h] = "lookup" /\ cache[CurrentKey(h)] = "deny"
  /\ settled' = settled \union {<<Current(h), seeds>>}
  /\ Goto(h, "denied")
  /\ UNCHANGED <<seeds, cache, proposals, log, next, last, emitted, history, owed, counters>>

Denied(h) ==
  /\ pc[h] = "denied"
  /\ Emit("denied_endpoint_observed", h)
  /\ owed' = owed \union {next[h]}
  /\ Finish(h, "denied")
  /\ UNCHANGED <<seeds, cache, proposals, log, last, could, baseline, settled, counters>>

LookupMissed(h) ==
  /\ pc[h] = "lookup" /\ cache[CurrentKey(h)] = "none"
  /\ Goto(h, "upsert")
  /\ UNCHANGED <<seeds, cache, proposals, log, next, last, emitted, history, owed, settled,
                 counters>>

\* The proposal is made or refreshed.
Upsert(h) ==
  /\ pc[h] = "upsert"
  /\ LET k == CurrentKey(h)
         was == IF proposals[k] = NoProposal THEN [count |-> 0, instances |-> {}] ELSE proposals[k]
     IN  proposals' = [proposals EXCEPT ![k] =
           [count |-> was.count + 1, instances |-> was.instances \union {Current(h).instance}]]
  /\ owed' = owed \union {next[h]}
  /\ Goto(h, "drift")
  /\ UNCHANGED <<seeds, cache, log, next, last, emitted, history, settled, counters>>

\* A workload with a baseline has drifted; one without is being discovered.
Drift(h) ==
  /\ pc[h] = "drift"
  /\ IF HasAnyDecision(cache, Current(h).fleet)
       THEN Goto(h, "deviation") /\ UNCHANGED <<did, next>>
       ELSE Finish(h, "proposal")
  /\ UNCHANGED <<seeds, cache, proposals, log, last, emitted, could, baseline, owed, settled,
                 counters>>

Deviation(h) ==
  /\ pc[h] = "deviation"
  /\ Emit("spec_deviation", h)
  /\ Finish(h, "deviation")
  /\ UNCHANGED <<seeds, cache, proposals, log, last, could, baseline, owed, settled, counters>>

-----------------------------------------------------------------------------
(* Reviewers, and restarts.                                                *)

\* PendingProposals: what a page loaded now shows.
Pending == {k \in Key : proposals[k] # NoProposal /\ cache[k] = "none"}

\* A decision is ratified, on whatever endpoint the form names: the page it was
\* sent from may be stale.
Decide(k, verdict) ==
  /\ decides < MaxDecide
  /\ decides' = decides + 1
  /\ cache' = [cache EXCEPT ![k] = verdict]
  /\ could' = [h \in Handler |-> IF Busy(h) THEN could[h] \union {Outcome(cache', Current(h))}
                                             ELSE could[h]]
  /\ UNCHANGED <<seeds, proposals, log, pc, next, last, emitted, baseline, did, owed, settled,
                 posts, dismisses, restarts>>

\* Proposals are taken off the queue, and nothing is decided.
Remove(keys) ==
  /\ dismisses < MaxDismiss
  /\ dismisses' = dismisses + 1
  /\ proposals' = [k \in Key |-> IF k \in keys THEN NoProposal ELSE proposals[k]]
  /\ owed' = {i \in owed : log[i].kind = "conn" => KeyOf(seeds, log[i]) \notin keys}
  /\ UNCHANGED <<seeds, cache, log, pc, next, last, emitted, history, settled, posts, decides,
                 restarts>>

Dismiss(k)         == Remove({k})
DismissWorkload(f) == Remove({k \in Key : k.fleet = f})
DismissAll         == Remove(Key)

\* Central is restarted: the queue and the requests are gone, the decisions
\* are read back.  While it was down its operator may have edited the seeds
\* file and reverted decisions in git.
Restart(seedsFile, reverted) ==
  /\ restarts < MaxRestart
  /\ restarts' = restarts + 1
  /\ seeds' = seedsFile
  /\ cache' = [k \in Key |-> IF k \in reverted THEN "none" ELSE cache[k]]
  /\ proposals' = [k \in Key |-> NoProposal]
  /\ AllIdle
  /\ owed' = {}
  /\ settled' = {s \in settled : KeyOf(s[2], s[1]) \notin reverted}
  /\ UNCHANGED <<log, emitted, posts, decides, dismisses>>

-----------------------------------------------------------------------------
Ingest(h) ==
  \/ \E first, end \in 1..Len(log) : first <= end /\ Post(h, first, end)
  \/ Take(h) \/ Accepted(h) \/ RawSocket(h)
  \/ LookupAllowed(h) \/ LookupDenied(h) \/ Denied(h)
  \/ LookupMissed(h) \/ Upsert(h) \/ Drift(h) \/ Deviation(h)

Review ==
  \/ \E k \in Form, verdict \in {"allow", "deny"} : Decide(k, verdict)
  \/ \E k \in Form : Dismiss(k)
  \/ \E f \in Fleet : DismissWorkload(f)
  \/ DismissAll

Next ==
  \/ \E ev \in Observable : Report(ev)
  \/ \E h \in Handler : Ingest(h)
  \/ Review
  \/ \E file \in SeedFiles, reverted \in SUBSET {k \in Key : cache[k] # "none"} :
       Restart(file, reverted)

Spec == Init /\ [][Next]_vars

-----------------------------------------------------------------------------
(* Properties.                                                             *)

\* The type of the state; in particular every proposal has an instance.
TypeOK ==
  /\ seeds \in Seq(Seed)
  /\ cache \in [Key -> Verdict]
  /\ proposals \in [Key -> Proposal \union {NoProposal}]
  /\ log \in Seq(Observable) /\ Len(log) <= MaxEvents
  /\ pc \in [Handler -> Point]
  /\ next \in [Handler -> Nat \ {0}] /\ last \in [Handler -> Nat]
  /\ \A h \in Handler : last[h] <= Len(log) /\ (Busy(h) => next[h] <= last[h])
  /\ emitted \subseteq Signals \X (1..Len(log))
  /\ could \in [Handler -> SUBSET Outcomes]
  /\ baseline \in [Handler -> BOOLEAN]
  /\ did \in [Handler -> Outcomes \union {"none"}]
  /\ owed \subseteq 1..Len(log) /\ settled \subseteq Observable \X Seq(Seed)
  /\ posts \in 0..MaxPosts /\ decides \in 0..MaxDecide
  /\ dismisses \in 0..MaxDismiss /\ restarts \in 0..MaxRestart

\* Although an event is ingested in four steps between which reviewers decide
\* and dismiss, it comes to what ingesting it at one moment would have: an
\* allowed endpoint is quiet, a denied one and drift are signalled, a new
\* workload's endpoint is proposed.  The exception is a spec_deviation for a
\* workload that had no baseline when its event was taken up: its first decision,
\* on this very endpoint, came between the lookup and the check.
IngestIsAtomic ==
  \A h \in Handler :
    did[h] # "none" /\ (did[h] = "deviation" => baseline[h]) => did[h] \in could[h]

\* The queue forgets nothing: the endpoint of an event that was ingested is
\* decided, or is in the queue with the instance that reported it, until a
\* reviewer dismisses it or central restarts.
QueueIsComplete ==
  \A i \in owed :
    LET k == KeyOf(seeds, log[i])
    IN  \/ cache[k] # "none"
        \/ k \in Pending /\ log[i].instance \in proposals[k].instances

\* The entries of the file that by themselves match the endpoint.
Own(file, q) == {i \in 1..Len(file) : Matches(<<file[i]>>, q)}

\* Both files have the same ones, in the same order.
SameFor(file, other, q) ==
  \E place \in [Own(file, q) -> Own(other, q)] :
    /\ \A i \in Own(file, q) : other[place[i]] = file[i]
    /\ \A j \in Own(other, q) : \E i \in Own(file, q) : place[i] = j
    /\ \A i, j \in Own(file, q) : i < j => place[i] < place[j]

\* Traffic that a decision covered stays covered unless the decision is
\* reverted: restarts and dismissals do not turn it into drift, and neither does
\* an edit of the seeds file that adds, removes or moves only entries which do
\* not match that traffic themselves, although the pool that the traffic is
\* keyed under is searched for among all of them.
DecisionsStayInForce ==
  \A s \in settled :
    cache[KeyOf(seeds, s[1])] = "none" => ~ SameFor(s[2], seeds, AskedOf(s[1]))

=============================================================================
