---------------------------- MODULE DecisionStore ----------------------------
(***************************************************************************)
(* Central's git-backed decision store: cmd/central/decisions.go.          *)
(*                                                                         *)
(* Every HTTP request that ratifies runs DecisionStore.Ratify on its own   *)
(* goroutine (a ratifier here), and Ratify takes no lock until it updates  *)
(* the cache: it writes the decision's file, runs `git add` on it, runs    *)
(* `git commit` and only then stores the decision in the cache.  Central   *)
(* may be killed at any point; a restart reads the working tree.           *)
(*                                                                         *)
(* A decision is its key, its verdict and a stamp: the other fields        *)
(* (owner, decided_by, decided_at, ...), which tell the bytes of two       *)
(* decisions apart.  A file holds a decision, or bytes that json.Unmarshal *)
(* rejects (Broken): an empty file, or one half overwritten.               *)
(***************************************************************************)
EXTENDS Integers, FiniteSets

CONSTANTS Fleet,      \* fleet identities
          Endpoint,   \* endpoint, port and protocol: what pathFor hashes
          Dir,        \* directory names
          Sanitize,   \* sanitize: a directory for every fleet identity
          Stamp,      \* the fields of a decision that do not matter here
          Ratifier,   \* requests that may be ratifying at a time
          None,       \* no decision, no file
          Broken,     \* a file that is not a decision
          MaxRatify,  \* bound: calls of Ratify
          MaxCrash    \* bound: crashes of central

ASSUME SanitizeAssumption == Sanitize \in [Fleet -> Dir]

Key      == [fleet : Fleet, ep : Endpoint]
Decision == [key : Key, verdict : {"allow", "deny"}, stamp : Stamp]
Path     == Dir \X Endpoint
PathOf(k) == <<Sanitize[k.fleet], k.ep>>
File     == Decision \union {None, Broken}

ASSUME NoneAssumption   == None \notin Decision
ASSUME BrokenAssumption == Broken \notin Decision /\ Broken # None
ASSUME BoundsAssumption == MaxRatify \in Nat /\ MaxCrash \in Nat

VARIABLES
  status,     \* central: "down" or "up"
  repo,       \* .git: "absent", "bare" (git init ran, git config did not), "ready"
  cache,      \* DecisionStore.cache
  disk,       \* the files in the working tree
  index,      \* git's index
  tree,       \* the tree of HEAD
  lock,       \* .git/index.lock
  pc, job,    \* where each ratifier is, and the decision it was given
  committed,  \* history: <<path, content>> of every commit
  acked,      \* history: acked[k]: the last decision for k that Ratify returned nil for
  spoiled,    \* history: files on which a Ratify failed half-way, was cut short, or raced
  ratified, crashes

git  == <<index, tree, lock, committed>>
vars == <<status, repo, cache, disk, index, tree, lock, pc, job, committed, acked, spoiled,
          ratified, crashes>>

\* Central is serving.
up == status = "up"

Point == {"idle", "fill", "add", "adding", "commit", "committing", "publish"}

Target(r) == PathOf(job[r].key)

\* Ratify has begun to write the file of p and has not returned.
BusyOn(p) == {r \in Ratifier : pc[r] # "idle" /\ Target(r) = p}

\* A faulty Loaded: it skips a file that differs from the index.
LoadedIfClean == [k \in Key |->
  LET p == PathOf(k)
  IN  IF disk[p] \in Decision /\ disk[p].key = k /\ disk[p] = index[p] THEN disk[p] ELSE None]

\* loadAll: a file is read back under the key it contains; pathFor is the only
\* place a file with that key can be.
Loaded == [k \in Key |->
  IF disk[PathOf(k)] \in Decision /\ disk[PathOf(k)].key = k THEN disk[PathOf(k)] ELSE None]

NoCache == [k \in Key |-> None]

Init ==
  /\ status = "down"
  /\ repo = "absent"
  /\ cache = NoCache
  /\ disk = [p \in Path |-> None]
  /\ index = [p \in Path |-> None]
  /\ tree = [p \in Path |-> None]
  /\ lock = "free"
  /\ pc = [r \in Ratifier |-> "idle"]
  /\ job = [r \in Ratifier |-> None]
  /\ committed = {}
  /\ acked = NoCache
  /\ spoiled = {}
  /\ ratified = 0 /\ crashes = 0

Goto(r, q) == pc' = [pc EXCEPT ![r] = q]

\* Ratify returns an error after it has begun to write.
Return(r) ==
  /\ Goto(r, "idle")
  /\ spoiled' = spoiled \union {Target(r)}

-----------------------------------------------------------------------------
(* Faulty variants of the actions below: each makes one mistake that       *)
(* decisions.go could easily make, and breaks one property.                *)

\* Only a file git does not know yet is added.
AddNewOnly(r) ==
  /\ pc[r] = "adding"
  /\ index' = IF index[Target(r)] = None
                THEN [index EXCEPT ![Target(r)] = disk[Target(r)]] ELSE index
  /\ lock' = "free"
  /\ Goto(r, "commit")
  /\ UNCHANGED <<status, repo, cache, disk, tree, committed, job, acked, spoiled, ratified, crashes>>

\* An error of `git commit` is only logged.
CommitErrorLogged(r) ==
  /\ pc[r] \in {"adding", "committing"}
  /\ lock' = "free"
  /\ IF pc[r] = "committing" THEN Goto(r, "publish") /\ UNCHANGED spoiled ELSE Return(r)
  /\ UNCHANGED <<status, repo, cache, disk, index, tree, committed, job, acked, ratified, crashes>>

\* The whole cache is read back from the working tree.
PublishReloads(r) ==
  /\ pc[r] = "publish"
  /\ cache' = Loaded
  /\ acked' = [acked EXCEPT ![job[r].key] = job[r]]
  /\ Goto(r, "idle")
  /\ UNCHANGED <<status, repo, disk, git, job, spoiled, ratified, crashes>>

-----------------------------------------------------------------------------
(* Ratify.                                                                 *)

\* A decision is submitted and os.WriteFile truncates its file.  Two Ratify
\* calls on one file at a time are noted in spoiled.
Begin(r, d) ==
  /\ up /\ pc[r] = "idle"
  /\ ratified < MaxRatify
  /\ ratified' = ratified + 1
  /\ job' = [job EXCEPT ![r] = d]
  /\ disk' = [disk EXCEPT ![PathOf(d.key)] = Broken]
  /\ Goto(r, "fill")
  /\ spoiled' = IF BusyOn(PathOf(d.key)) = {} THEN spoiled
                                              ELSE spoiled \union {PathOf(d.key)}
  /\ UNCHANGED <<status, repo, cache, git, acked, crashes>>

\* ... and writes it.  If another Ratify has filled the file meanwhile, this
\* one overwrites it from the start; the rest of longer bytes stays behind.
Fill(r) ==
  /\ pc[r] = "fill"
  /\ \/ disk' = [disk EXCEPT ![Target(r)] = job[r]]
     \/ /\ disk[Target(r)] # Broken
        /\ disk' = [disk EXCEPT ![Target(r)] = Broken]
  /\ Goto(r, "add")
  /\ UNCHANGED <<status, repo, cache, git, job, acked, spoiled, ratified, crashes>>

\* The disk is full: the file stays truncated.
FillFails(r) ==
  /\ pc[r] = "fill"
  /\ Return(r)
  /\ UNCHANGED <<status, repo, cache, disk, git, job, acked, ratified, crashes>>

\* `git add` and `git commit` first create index.lock.
GitStart(r) ==
  /\ pc[r] \in {"add", "commit"}
  /\ lock = "free"
  /\ lock' = "held"
  /\ Goto(r, IF pc[r] = "add" THEN "adding" ELSE "committing")
  /\ UNCHANGED <<status, repo, cache, disk, index, tree, committed, job, acked, spoiled,
                 ratified, crashes>>

\* index.lock is there: held by another ratifier's git, or left behind.
GitLocked(r) ==
  /\ pc[r] \in {"add", "commit"}
  /\ lock # "free"
  /\ Return(r)
  /\ UNCHANGED <<status, repo, cache, disk, git, job, acked, ratified, crashes>>

\* `git add relPath` stages what the file now holds.
AddEnd(r) ==
  /\ pc[r] = "adding"
  /\ index' = [index EXCEPT ![Target(r)] = disk[Target(r)]]
  /\ lock' = "free"
  /\ Goto(r, "commit")
  /\ UNCHANGED <<status, repo, cache, disk, tree, committed, job, acked, spoiled, ratified, crashes>>

\* `git commit -m msg` without a path commits the whole index.
CommitEnd(r) ==
  /\ pc[r] = "committing"
  /\ repo = "ready" /\ index # tree
  /\ tree' = index
  /\ committed' = committed \union {<<p, index[p]>> : p \in {q \in Path : index[q] # tree[q]}}
  /\ lock' = "free"
  /\ Goto(r, "publish")
  /\ UNCHANGED <<status, repo, cache, disk, index, job, acked, spoiled, ratified, crashes>>

\* git fails: nothing to commit (index = tree), no user.name (repo is not
\* "ready"), or a full disk.
GitFails(r) ==
  /\ pc[r] \in {"adding", "committing"}
  /\ lock' = "free"
  /\ Return(r)
  /\ UNCHANGED <<status, repo, cache, disk, index, tree, committed, job, acked, ratified, crashes>>

\* The cache is updated under s.mu and Ratify returns nil.
Publish(r) ==
  /\ pc[r] = "publish"
  /\ cache' = [cache EXCEPT ![job[r].key] = job[r]]
  /\ acked' = [acked EXCEPT ![job[r].key] = job[r]]
  /\ Goto(r, "idle")
  /\ UNCHANGED <<status, repo, disk, git, job, spoiled, ratified, crashes>>

-----------------------------------------------------------------------------
(* newDecisionStore, and central's death.                                  *)

\* Without a .git one is made; then every file is read.  A file that does not
\* decode makes newDecisionStore fail, and central exits.
Start ==
  /\ ~ up
  /\ \A p \in Path : disk[p] # Broken
  /\ status' = "up"
  /\ repo' = IF repo = "absent" THEN "ready" ELSE repo
  /\ cache' = Loaded
  /\ UNCHANGED <<disk, git, pc, job, acked, spoiled, ratified, crashes>>

\* Central dies between `git init` and the last `git config`.
StartInterrupted ==
  /\ ~ up
  /\ repo = "absent"
  /\ crashes < MaxCrash
  /\ crashes' = crashes + 1
  /\ repo' = "bare"
  /\ UNCHANGED <<status, cache, disk, git, pc, job, acked, spoiled, ratified>>

\* Central is killed, and with it a git that it runs, which may leave its
\* lock file.
Crash ==
  /\ up
  /\ crashes < MaxCrash
  /\ crashes' = crashes + 1
  /\ status' = "down"
  /\ cache' = NoCache
  /\ lock' \in IF lock = "held" THEN {"free", "stale"} ELSE {lock}
  /\ spoiled' = spoiled \union {Target(r) : r \in {q \in Ratifier : pc[q] \notin {"idle", "publish"}}}
  /\ pc' = [r \in Ratifier |-> "idle"]
  /\ UNCHANGED <<repo, disk, index, tree, committed, job, acked, ratified>>

-----------------------------------------------------------------------------
RatifyStep(r) ==
  \/ \E d \in Decision : Begin(r, d)
  \/ Fill(r) \/ FillFails(r)
  \/ GitStart(r) \/ GitLocked(r) \/ AddEnd(r) \/ CommitEnd(r) \/ GitFails(r)
  \/ Publish(r)

Next ==
  \/ \E r \in Ratifier : RatifyStep(r)
  \/ Start \/ StartInterrupted \/ Crash

Spec == Init /\ [][Next]_vars

-----------------------------------------------------------------------------
(* What the rest of central reads.                                         *)

Lookup(k) == cache[k]
HasAnyDecision(f) == \E k \in Key : k.fleet = f /\ cache[k] # None

\* sanitize keeps the fleet identities in use apart.
NoCollision == \A f, g \in Fleet : Sanitize[f] = Sanitize[g] => f = g

-----------------------------------------------------------------------------
(* Properties.                                                             *)

\* The type of the state.
TypeOK ==
  /\ status \in {"down", "up"}
  /\ repo \in {"absent", "bare", "ready"}
  /\ cache \in [Key -> Decision \union {None}]
  /\ disk \in [Path -> File] /\ index \in [Path -> File] /\ tree \in [Path -> File]
  /\ lock \in {"free", "held", "stale"}
  /\ pc \in [Ratifier -> Point]
  /\ job \in [Ratifier -> Decision \union {None}]
  /\ \A r \in Ratifier : pc[r] # "idle" => up /\ job[r] # None
  /\ committed \subseteq Path \X File
  /\ acked \in [Key -> Decision \union {None}]
  /\ spoiled \subseteq Path
  /\ ratified \in 0..MaxRatify /\ crashes \in 0..MaxCrash

\* "Ratified decisions do (git-backed)" survive a restart: an endpoint somebody
\* ratified is decided whenever central serves, whatever failed, raced or
\* crashed since: a workload never falls back from drift to discovery.  (Its
\* verdict may be one whose commit failed, see CachedWasCommitted.)
RatifiedStaysDecided ==
  up => \A k \in Key : acked[k] # None => Lookup(k) # None

\* "a decision is never ratified without a corresponding commit existing"
\* holds for every file on which no Ratify ever failed half-way, was cut short
\* by a crash or raced with another one.
CommittedUnlessSpoiled ==
  \A k \in Key :
    Lookup(k) # None /\ PathOf(k) \notin spoiled => <<PathOf(k), Lookup(k)>> \in committed

\* For such a file the audit trail is what is in force: when no Ratify is
\* working on it, the working tree, the index, HEAD and the cache agree,
\* although `git commit` commits the whole index and other ratifiers' staged
\* files with it.
TrailAgrees ==
  \A k \in Key :
    LET p == PathOf(k)
    IN  p \notin spoiled /\ BusyOn(p) = {} =>
          /\ disk[p] = index[p] /\ index[p] = tree[p]
          /\ up => Lookup(k) = tree[p]

\* "a decision is never ratified without a corresponding commit existing",
\* as the comment on DecisionStore has it: every decision that is served was
\* committed.
CachedWasCommitted ==
  \A k \in Key : Lookup(k) # None => <<PathOf(k), Lookup(k)>> \in committed

=============================================================================
