------------------------- MODULE DecisionStoreProofs -------------------------
(* Proofs about DecisionStore, for every set of workloads, endpoints and   *)
(* ratifiers, every sanitize, and any number of calls and crashes.         *)
EXTENDS DecisionStoreRegister, TLAPS

-----------------------------------------------------------------------------
(* The inductive invariant.                                                *)

\* A file that holds a decision is where pathFor puts that decision.
FilesInPlace == \A p \in Path : disk[p] \in Decision => PathOf(disk[p].key) = p

\* What was ratified has a file, and while central serves, a cached decision.
\* A file that is being written is there.
RatifiedHasFile ==
  /\ \A k \in Key : acked[k] # None => disk[PathOf(k)] # None
  /\ \A r \in Ratifier : pc[r] # "idle" => disk[Target(r)] # None

\* HEAD holds nothing that was not committed.
HeadCommitted == \A p \in Path : tree[p] # None => <<p, tree[p]>> \in committed

\* On an unspoiled file there is one ratifier at most ...
Alone ==
  \A r, s \in Ratifier :
    pc[r] # "idle" /\ pc[s] # "idle" /\ Target(r) = Target(s) /\ Target(r) \notin spoiled => r = s

\* ... whose progress says what the working tree, the index and HEAD hold.
Progress ==
  \A r \in Ratifier :
    LET p == Target(r)
    IN  pc[r] # "idle" /\ p \notin spoiled =>
          /\ pc[r] = "fill" => disk[p] = Broken /\ index[p] = tree[p]
          /\ pc[r] \in {"add", "adding"} => disk[p] = job[r] /\ index[p] = tree[p]
          /\ pc[r] \in {"commit", "committing", "publish"} => disk[p] = job[r] /\ index[p] = job[r]
          /\ pc[r] = "publish" => tree[p] = job[r] 

\* Without a ratifier they agree.
Settled ==
  \A p \in Path :
    p \notin spoiled /\ (\A r \in Ratifier : pc[r] # "idle" => Target(r) # p) =>
      disk[p] = index[p] /\ index[p] = tree[p]

IInv ==
  /\ TypeOK
  /\ FilesInPlace
  /\ RatifiedHasFile
  /\ HeadCommitted
  /\ Alone
  /\ Progress
  /\ Settled
  /\ CommittedUnlessSpoiled

\* What needs the fleet identities kept apart.
CacheAgrees ==
  \A k \in Key :
    up /\ PathOf(k) \notin spoiled
       /\ (\A r \in Ratifier : pc[r] # "idle" => Target(r) # PathOf(k)) =>
      cache[k] = tree[PathOf(k)]

-----------------------------------------------------------------------------
LEMMA PathType == ASSUME NEW k \in Key PROVE PathOf(k) \in Path
BY SanitizeAssumption DEF PathOf, Path, Key

LEMMA TargetType ==
  ASSUME TypeOK, NEW r \in Ratifier, pc[r] # "idle"
  PROVE  /\ up /\ job[r] \in Decision /\ job[r].key \in Key
         /\ Target(r) \in Path /\ Target(r) = PathOf(job[r].key)
<1>1. up /\ job[r] \in Decision
  BY DEF TypeOK
<1>2. job[r].key \in Key
  BY <1>1 DEF Decision
<1> QED
  BY <1>1, <1>2, PathType DEF Target

\* Two keys with one path are one key.
LEMMA PathInjective ==
  ASSUME NoCollision, NEW k \in Key, NEW l \in Key, PathOf(k) = PathOf(l)
  PROVE  k = l
BY DEF NoCollision, PathOf, Key

LEMMA LoadedType == ASSUME TypeOK PROVE Loaded \in [Key -> Decision \union {None}]
BY DEF Loaded

LEMMA InitInv == Init => IInv
<1> SUFFICES ASSUME Init PROVE IInv
  OBVIOUS
<1> USE NoneAssumption, BrokenAssumption, BoundsAssumption DEF up
<1>1. TypeOK
  <2>1. /\ cache \in [Key -> Decision \union {None}]
        /\ acked \in [Key -> Decision \union {None}]
    BY DEF Init, NoCache
  <2>2. disk \in [Path -> File] /\ index \in [Path -> File] /\ tree \in [Path -> File]
    BY DEF Init, File
  <2>3. /\ pc \in [Ratifier -> Point] /\ job \in [Ratifier -> Decision \union {None}]
        /\ \A r \in Ratifier : pc[r] # "idle" => up /\ job[r] # None
    BY DEF Init, Point
  <2>4. /\ status \in {"down", "up"} /\ repo \in {"absent", "bare", "ready"}
        /\ lock \in {"free", "held", "stale"}
        /\ committed \subseteq Path \X File /\ spoiled \subseteq Path
        /\ ratified \in 0..MaxRatify /\ crashes \in 0..MaxCrash
    BY DEF Init
  <2> QED
    BY <2>1, <2>2, <2>3, <2>4 DEF TypeOK
<1>2. FilesInPlace /\ RatifiedHasFile /\ HeadCommitted /\ CommittedUnlessSpoiled
  BY PathType DEF Init, FilesInPlace, RatifiedHasFile, HeadCommitted, CommittedUnlessSpoiled,
     NoCache, Lookup
<1>3. Alone /\ Progress /\ Settled
  BY DEF Init, Alone, Progress, Settled
<1> QED
  BY <1>1, <1>2, <1>3 DEF IInv

-----------------------------------------------------------------------------
(* The type of the next state.                                             *)

LEMMA TypeStep ==
  ASSUME TypeOK, [Next]_vars
  PROVE  TypeOK'
<1> USE NoneAssumption, BrokenAssumption, BoundsAssumption DEF TypeOK, up
<1>1. ASSUME NEW r \in Ratifier, NEW d \in Decision, Begin(r, d)
      PROVE  TypeOK'
  <2>1. d.key \in Key
    BY DEF Decision
  <2> QED
    BY <1>1, <2>1, PathType DEF Begin, Goto, git, File, Point
<1>2. ASSUME NEW r \in Ratifier, Fill(r) \/ FillFails(r) \/ GitStart(r) \/ GitLocked(r) \/ AddEnd(r)
      PROVE  TypeOK'
  <2>1. pc[r] # "idle"
    BY <1>2 DEF Fill, FillFails, GitStart, GitLocked, AddEnd
  <2>2. Target(r) \in Path /\ job[r] \in Decision
    BY <2>1, TargetType
  <2> QED
    BY <1>2, <2>2 DEF Fill, FillFails, GitStart, GitLocked, AddEnd, Return, Goto, git, File, Point
<1>3. ASSUME NEW r \in Ratifier, CommitEnd(r) \/ GitFails(r) \/ Publish(r)
      PROVE  TypeOK'
  <2>1. pc[r] # "idle"
    BY <1>3 DEF CommitEnd, GitFails, Publish
  <2>2. Target(r) \in Path /\ job[r] \in Decision /\ job[r].key \in Key
    BY <2>1, TargetType
  <2>3. CASE CommitEnd(r)
    BY <2>3 DEF CommitEnd, Goto, Point
  <2>4. CASE GitFails(r)
    BY <2>2, <2>4 DEF GitFails, Return, Goto, Point
  <2>5. CASE Publish(r)
    BY <2>2, <2>5 DEF Publish, Goto, git, Point
  <2> QED
    BY <1>3, <2>3, <2>4, <2>5
<1>4. CASE Start
  BY <1>4, LoadedType DEF Start, git
<1>5. CASE StartInterrupted
  BY <1>5 DEF StartInterrupted, git
<1>6. CASE Crash
  <2>1. {Target(r) : r \in {q \in Ratifier : pc[q] \notin {"idle", "publish"}}} \subseteq Path
    BY TargetType
  <2>2. spoiled' \subseteq Path /\ lock' \in {"free", "held", "stale"}
    BY <1>6, <2>1 DEF Crash
  <2>3. cache' \in [Key -> Decision \union {None}]
    BY <1>6 DEF Crash, NoCache
  <2>4. /\ pc' \in [Ratifier -> Point]
        /\ \A r \in Ratifier : pc'[r] # "idle" => up' /\ job'[r] # None
    BY <1>6 DEF Crash, Point
  <2> QED
    BY <1>6, <2>2, <2>3, <2>4 DEF Crash
<1>7. CASE UNCHANGED vars
  BY <1>7 DEF vars, git
<1> QED
  BY <1>1, <1>2, <1>3, <1>4, <1>5, <1>6, <1>7 DEF Next, RatifyStep

\* Every reachable state is well-formed; a ratifier that is under way has a
\* decision and a serving central.
THEOREM TypeCorrect == Spec => []TypeOK
<1>1. Init => TypeOK
  BY InitInv DEF IInv
<1> QED
  BY <1>1, TypeStep, PTL DEF Spec

-----------------------------------------------------------------------------
(* Each action preserves the invariant.                                    *)

Inv == FilesInPlace /\ RatifiedHasFile /\ HeadCommitted /\ Alone /\ Progress /\ Settled
         /\ CommittedUnlessSpoiled

LEMMA BeginInv ==
  ASSUME IInv, NEW r \in Ratifier, NEW d \in Decision, Begin(r, d)
  PROVE  Inv'
<1> USE NoneAssumption, BrokenAssumption DEF IInv
<1> DEFINE p == PathOf(d.key)
<1>1. d.key \in Key /\ p \in Path
  BY PathType DEF Decision
<1>2. /\ job' = [job EXCEPT ![r] = d] /\ job'[r] = d /\ pc'[r] = "fill"
      /\ \A s \in Ratifier \ {r} : job'[s] = job[s] /\ pc'[s] = pc[s]
      /\ disk' = [disk EXCEPT ![p] = Broken]
      /\ pc[r] = "idle"
      /\ UNCHANGED <<cache, index, tree, committed, acked>>
  BY DEF Begin, Goto, git, TypeOK
<1>3. /\ Target(r)' = p
      /\ \A s \in Ratifier \ {r} : Target(s)' = Target(s)
  BY <1>2 DEF Target
<1>4. /\ spoiled \subseteq spoiled'
      /\ p \notin spoiled' => \A s \in Ratifier : pc[s] # "idle" => Target(s) # p
  BY DEF Begin, BusyOn
<1>5. FilesInPlace' /\ HeadCommitted'
  BY <1>1, <1>2 DEF FilesInPlace, HeadCommitted, TypeOK
<1>6. RatifiedHasFile'
  BY <1>1, <1>2, <1>3, PathType DEF RatifiedHasFile, TypeOK
<1>7. Alone'
  BY <1>2, <1>3, <1>4 DEF Alone
<1>8. Progress'
  <2> SUFFICES ASSUME NEW s \in Ratifier, pc'[s] # "idle", Target(s)' \notin spoiled'
               PROVE  /\ pc'[s] = "fill" => disk'[Target(s)'] = Broken /\ index'[Target(s)'] = tree'[Target(s)']
                      /\ pc'[s] \in {"add", "adding"} => disk'[Target(s)'] = job'[s] /\ index'[Target(s)'] = tree'[Target(s)']
                      /\ pc'[s] \in {"commit", "committing", "publish"} => disk'[Target(s)'] = job'[s] /\ index'[Target(s)'] = job'[s]
                      /\ pc'[s] = "publish" => tree'[Target(s)'] = job'[s]
    BY DEF Progress
  <2>1. CASE s = r
    BY <1>1, <1>2, <1>3, <1>4, <2>1 DEF Settled, TypeOK
  <2>2. CASE s # r
    <3>1. Target(s) # p /\ Target(s) \notin spoiled
      BY <1>2, <1>3, <1>4, <2>2
    <3> QED
      BY <1>2, <1>3, <2>2, <3>1 DEF Progress, TypeOK
  <2> QED
    BY <2>1, <2>2
<1>9. Settled'
  BY <1>1, <1>2, <1>3, <1>4 DEF Settled, TypeOK
<1>10. CommittedUnlessSpoiled'
  BY <1>2, <1>4 DEF CommittedUnlessSpoiled, Lookup
<1> QED
  BY <1>5, <1>6, <1>7, <1>8, <1>9, <1>10 DEF Inv

\* The file or the index of the target of a ratifier that goes on changes.
LEMMA AdvanceInv ==
  ASSUME IInv, NEW r \in Ratifier, pc[r] # "idle",
         NEW q \in Point, pc' = [pc EXCEPT ![r] = q], q # "idle",
         UNCHANGED <<cache, job, acked, spoiled>>,
         \A p \in Path \ {Target(r)} : disk'[p] = disk[p] /\ index'[p] = index[p],
         disk'[Target(r)] \in {job[r], Broken, disk[Target(r)]},
         UNCHANGED <<tree, committed>>,
         Target(r) \notin spoiled =>
           /\ disk'[Target(r)] = job[r]
           /\ \/ q \in {"add", "adding"} /\ index'[Target(r)] = tree[Target(r)]
              \/ q \in {"commit", "committing"} /\ index'[Target(r)] = job[r]
  PROVE  Inv'
<1> USE NoneAssumption, BrokenAssumption DEF IInv
<1> DEFINE p == Target(r)
           x == disk'[p]
<1>1. /\ p \in Path /\ p = PathOf(job[r].key) /\ job[r] \in Decision
  BY TargetType
<1>2. \A s \in Ratifier : Target(s)' = Target(s) /\ (pc'[s] # "idle" <=> pc[s] # "idle")
  BY DEF Target, TypeOK
<1>h. \A s \in Ratifier : pc[s] # "idle" => Target(s) \in Path
  BY TargetType
<1>3. x \in File /\ x # None /\ (x \in Decision => PathOf(x.key) = p)
  BY <1>1 DEF FilesInPlace, RatifiedHasFile, TypeOK, File
<1>4. FilesInPlace' /\ HeadCommitted'
  BY <1>1, <1>3 DEF FilesInPlace, HeadCommitted, TypeOK
<1>5. RatifiedHasFile'
  <2>1. \A q1 \in Path : disk[q1] # None => disk'[q1] # None
    BY <1>1, <1>3
  <2> QED
    BY <1>2, <1>h, <2>1, PathType DEF RatifiedHasFile
<1>6. Alone' /\ Settled'
  BY <1>1, <1>2 DEF Alone, Settled, TypeOK
<1>7. Progress'
  <2> SUFFICES ASSUME NEW s \in Ratifier, pc[s] # "idle", Target(s) \notin spoiled
               PROVE  /\ pc'[s] = "fill" => disk'[Target(s)] = Broken /\ index'[Target(s)] = tree[Target(s)]
                      /\ pc'[s] \in {"add", "adding"} => disk'[Target(s)] = job[s] /\ index'[Target(s)] = tree[Target(s)]
                      /\ pc'[s] \in {"commit", "committing", "publish"} => disk'[Target(s)] = job[s] /\ index'[Target(s)] = job[s]
                      /\ pc'[s] = "publish" => tree[Target(s)] = job[s]
    BY <1>2 DEF Progress
  <2>1. CASE s = r
    BY <1>1, <2>1 DEF TypeOK
  <2>2. CASE s # r
    <3>1. Target(s) # p
      BY <2>2 DEF Alone
    <3>2. Target(s) \in Path
      BY TargetType
    <3>3. /\ disk'[Target(s)] = disk[Target(s)] /\ index'[Target(s)] = index[Target(s)]
          /\ pc'[s] = pc[s]
      BY <2>2, <3>1, <3>2 DEF TypeOK
    <3> QED
      BY <3>3 DEF Progress
  <2> QED
    BY <2>1, <2>2
<1>8. CommittedUnlessSpoiled'
  BY DEF CommittedUnlessSpoiled, Lookup
<1> QED
  BY <1>4, <1>5, <1>6, <1>7, <1>8 DEF Inv

\* Ratify returns an error, or central dies: ratifiers stop on spoiled files,
\* or on files that are settled.
LEMMA StopInv ==
  ASSUME IInv,
         UNCHANGED <<job, disk, index, tree, committed, acked>>,
         spoiled \subseteq spoiled',
         \A s \in Ratifier : \/ pc'[s] = pc[s]
                             \/ pc'[s] = "idle" /\ (Target(s) \in spoiled' \/ pc[s] = "publish"),
         \A k \in Key : cache'[k] = cache[k] \/ cache'[k] = None
  PROVE  Inv'
<1> USE NoneAssumption, BrokenAssumption DEF IInv
<1>1. \A s \in Ratifier : Target(s)' = Target(s)
  BY DEF Target
<1>2. FilesInPlace' /\ HeadCommitted' /\ RatifiedHasFile' /\ Alone' /\ CommittedUnlessSpoiled'
  BY <1>1 DEF FilesInPlace, HeadCommitted, RatifiedHasFile, Alone, CommittedUnlessSpoiled, Lookup
<1>3. Progress'
  BY <1>1 DEF Progress
<1>4. Settled'
  <2> SUFFICES ASSUME NEW p \in Path, p \notin spoiled',
                      \A s \in Ratifier : pc'[s] # "idle" => Target(s) # p
               PROVE  disk[p] = index[p] /\ index[p] = tree[p]
    BY <1>1 DEF Settled
  <2>1. CASE \E s \in Ratifier : pc[s] # "idle" /\ Target(s) = p
    BY <2>1 DEF Progress
  <2>2. CASE ~ \E s \in Ratifier : pc[s] # "idle" /\ Target(s) = p
    BY <2>2 DEF Settled
  <2> QED
    BY <2>1, <2>2
<1> QED
  BY <1>2, <1>3, <1>4 DEF Inv

LEMMA CommitInv ==
  ASSUME IInv, NEW r \in Ratifier, CommitEnd(r)
  PROVE  Inv'
<1> USE NoneAssumption, BrokenAssumption DEF IInv
<1>1. /\ UNCHANGED <<cache, disk, index, job, acked, spoiled>> /\ tree' = index
      /\ pc' = [pc EXCEPT ![r] = "publish"] /\ pc[r] = "committing"
      /\ committed \subseteq committed'
      /\ \A p \in Path : index[p] # tree[p] => <<p, index[p]>> \in committed'
  BY DEF CommitEnd, Goto
<1>2. \A s \in Ratifier : Target(s)' = Target(s) /\ (pc'[s] # "idle" <=> pc[s] # "idle")
  BY <1>1 DEF Target, TypeOK
<1>3. FilesInPlace' /\ RatifiedHasFile' /\ Alone' /\ CommittedUnlessSpoiled'
  BY <1>1, <1>2 DEF FilesInPlace, RatifiedHasFile, Alone, CommittedUnlessSpoiled, Lookup
<1>4. HeadCommitted'
  BY <1>1 DEF HeadCommitted
<1>5. Progress'
  BY <1>1, <1>2 DEF Progress, TypeOK
<1>6. Settled'
  BY <1>1, <1>2 DEF Settled
<1> QED
  BY <1>3, <1>4, <1>5, <1>6 DEF Inv

LEMMA PublishInv ==
  ASSUME IInv, NEW r \in Ratifier, Publish(r)
  PROVE  Inv'
<1> USE NoneAssumption, BrokenAssumption DEF IInv
<1> DEFINE p == Target(r)
           k == job[r].key
<1>1. /\ UNCHANGED <<disk, index, tree, committed, job, spoiled>>
      /\ pc' = [pc EXCEPT ![r] = "idle"] /\ pc[r] = "publish"
      /\ cache' = [cache EXCEPT ![k] = job[r]] /\ acked' = [acked EXCEPT ![k] = job[r]]
  BY DEF Publish, Goto, git
<1>2. p \in Path /\ p = PathOf(k) /\ job[r] \in Decision /\ k \in Key /\ disk[p] # None
  BY <1>1, TargetType DEF RatifiedHasFile
<1>3. \A s \in Ratifier : Target(s)' = Target(s)
  BY <1>1 DEF Target
<1>4. p \notin spoiled => disk[p] = job[r] /\ index[p] = job[r] /\ tree[p] = job[r]
  BY <1>1 DEF Progress
<1>5. FilesInPlace' /\ HeadCommitted' /\ RatifiedHasFile' /\ Alone' /\ Progress'
  BY <1>1, <1>2, <1>3 DEF FilesInPlace, HeadCommitted, RatifiedHasFile, Alone, Progress, TypeOK
<1>6. Settled'
  BY <1>1, <1>2, <1>3, <1>4 DEF Settled, TypeOK
<1>7. CommittedUnlessSpoiled'
  <2>1. p \notin spoiled => <<p, job[r]>> \in committed
    BY <1>2, <1>4 DEF HeadCommitted
  <2> QED
    BY <1>1, <1>2, <2>1 DEF CommittedUnlessSpoiled, Lookup, TypeOK
<1> QED
  BY <1>5, <1>6, <1>7 DEF Inv

LEMMA StartInv ==
  ASSUME IInv, Start
  PROVE  Inv'
<1> USE NoneAssumption, BrokenAssumption DEF IInv
<1>1. /\ UNCHANGED <<disk, index, tree, committed, job, pc, acked, spoiled>> /\ cache' = Loaded
      /\ \A r \in Ratifier : pc[r] = "idle"
  BY DEF Start, git, TypeOK
<1>2. \A s \in Ratifier : Target(s)' = Target(s)
  BY <1>1 DEF Target
<1>3. FilesInPlace' /\ HeadCommitted' /\ RatifiedHasFile' /\ Alone' /\ Progress' /\ Settled'
  BY <1>1, <1>2 DEF FilesInPlace, HeadCommitted, RatifiedHasFile, Alone, Progress, Settled
<1>4. CommittedUnlessSpoiled'
  <2> SUFFICES ASSUME NEW k \in Key, Loaded[k] # None, PathOf(k) \notin spoiled
               PROVE  <<PathOf(k), Loaded[k]>> \in committed
    BY <1>1 DEF CommittedUnlessSpoiled, Lookup
  <2>1. Loaded[k] = disk[PathOf(k)] /\ PathOf(k) \in Path
    BY PathType DEF Loaded
  <2>2. disk[PathOf(k)] = tree[PathOf(k)]
    BY <1>1, <2>1 DEF Settled
  <2> QED
    BY <2>1, <2>2 DEF HeadCommitted
<1> QED
  BY <1>3, <1>4 DEF Inv

LEMMA NextInv ==
  ASSUME IInv, [Next]_vars
  PROVE  IInv'
<1> USE NoneAssumption, BrokenAssumption
<1>t. TypeOK /\ TypeOK'
  BY TypeStep DEF IInv
<1>1. ASSUME NEW r \in Ratifier, NEW d \in Decision, Begin(r, d) PROVE Inv'
  BY <1>1, BeginInv
<1>2. ASSUME NEW r \in Ratifier, Fill(r) PROVE Inv'
  <2>1. /\ pc[r] = "fill" /\ pc' = [pc EXCEPT ![r] = "add"]
        /\ UNCHANGED <<cache, job, acked, spoiled, index, tree, committed>>
    BY <1>2 DEF Fill, Goto, git
  <2>2. Target(r) \in Path /\ index[Target(r)] \in File
    BY <1>t, <2>1, TargetType DEF TypeOK
  <2>3. PICK x \in {job[r], Broken} :
          /\ disk' = [disk EXCEPT ![Target(r)] = x]
          /\ (x = job[r] \/ disk[Target(r)] # Broken)
    BY <1>2 DEF Fill
  <2>4. Target(r) \notin spoiled => x = job[r] /\ index[Target(r)] = tree[Target(r)]
    BY <2>1, <2>3 DEF IInv, Progress
  <2>5. /\ \A p \in Path \ {Target(r)} : disk'[p] = disk[p] /\ index'[p] = index[p]
        /\ disk'[Target(r)] = x
    <3>1. disk \in [Path -> File]
      BY <1>t DEF TypeOK
    <3> QED
      BY <2>1, <2>2, <2>3, <3>1
  <2> QED
    BY <2>1, <2>3, <2>4, <2>5, AdvanceInv DEF IInv, Point
<1>3. ASSUME NEW r \in Ratifier, GitStart(r) PROVE Inv'
  <2>1. /\ pc[r] \in {"add", "commit"}
        /\ pc' = [pc EXCEPT ![r] = IF pc[r] = "add" THEN "adding" ELSE "committing"]
        /\ UNCHANGED <<cache, job, acked, spoiled, disk, index, tree, committed>>
    BY <1>3 DEF GitStart, Goto
  <2>2. Target(r) \in Path /\ index[Target(r)] \in File
    BY <1>t, <2>1, TargetType DEF TypeOK
  <2>3. \A p \in Path \ {Target(r)} : disk'[p] = disk[p] /\ index'[p] = index[p]
    BY <1>t, <2>1, <2>2 DEF TypeOK
  <2>4. Target(r) \notin spoiled =>
          /\ disk[Target(r)] = job[r]
          /\ pc[r] = "add" => index[Target(r)] = tree[Target(r)]
          /\ pc[r] = "commit" => index[Target(r)] = job[r]
    BY <2>1 DEF IInv, Progress
  <2>5. CASE pc[r] = "add"
    BY <2>1, <2>2, <2>3, <2>4, <2>5, AdvanceInv DEF Point
  <2>6. CASE pc[r] = "commit"
    BY <2>1, <2>2, <2>3, <2>4, <2>6, AdvanceInv DEF Point
  <2> QED
    BY <2>1, <2>5, <2>6
<1>4. ASSUME NEW r \in Ratifier, AddEnd(r) PROVE Inv'
  <2>1. /\ pc[r] = "adding" /\ pc' = [pc EXCEPT ![r] = "commit"]
        /\ index' = [index EXCEPT ![Target(r)] = disk[Target(r)]]
        /\ UNCHANGED <<cache, job, acked, spoiled, disk, tree, committed>>
    BY <1>4 DEF AddEnd, Goto
  <2>2. Target(r) \in Path /\ disk[Target(r)] \in File
    BY <1>t, <2>1, TargetType DEF TypeOK
  <2>3. /\ \A p \in Path \ {Target(r)} : disk'[p] = disk[p] /\ index'[p] = index[p]
        /\ index'[Target(r)] = disk[Target(r)]
    BY <1>t, <2>1, <2>2 DEF TypeOK
  <2>4. Target(r) \notin spoiled => disk[Target(r)] = job[r]
    BY <2>1 DEF IInv, Progress
  <2> QED
    BY <2>1, <2>2, <2>3, <2>4, AdvanceInv DEF Point
<1>5. ASSUME NEW r \in Ratifier, FillFails(r) \/ GitLocked(r) \/ GitFails(r) PROVE Inv'
  <2>1. /\ UNCHANGED <<job, disk, index, tree, committed, acked, cache>>
        /\ pc' = [pc EXCEPT ![r] = "idle"] /\ spoiled' = spoiled \union {Target(r)}
    BY <1>5 DEF FillFails, GitLocked, GitFails, Return, Goto, git
  <2> QED
    BY <1>t, <2>1, StopInv DEF TypeOK
<1>6. ASSUME NEW r \in Ratifier, CommitEnd(r) \/ Publish(r) PROVE Inv'
  BY <1>6, CommitInv, PublishInv
<1>7. CASE Start
  BY <1>t, <1>7, StartInv DEF IInv, Inv
<1>8. CASE Crash
  <2>1. /\ UNCHANGED <<job, disk, index, tree, committed, acked>>
        /\ cache' = NoCache /\ pc' = [r \in Ratifier |-> "idle"]
        /\ spoiled' = spoiled \union {Target(r) : r \in {q \in Ratifier : pc[q] \notin {"idle", "publish"}}}
    BY <1>8 DEF Crash
  <2>2. \A s \in Ratifier : \/ pc'[s] = pc[s]
                            \/ pc'[s] = "idle" /\ (Target(s) \in spoiled' \/ pc[s] = "publish")
    BY <2>1
  <2> QED
    BY <1>t, <2>1, <2>2, StopInv DEF NoCache, IInv, Inv
<1>9. CASE StartInterrupted \/ UNCHANGED vars
  <2>1. UNCHANGED <<job, disk, index, tree, committed, acked, cache, pc, spoiled>>
    BY <1>9 DEF StartInterrupted, vars, git
  <2> QED
    BY <1>t, <2>1, StopInv DEF IInv, Inv
<1> QED
  BY <1>t, <1>1, <1>2, <1>3, <1>4, <1>5, <1>6, <1>7, <1>8, <1>9 DEF Next, RatifyStep, IInv, Inv

-----------------------------------------------------------------------------
(* The theorems.                                                           *)

\* What is served was committed, unless a Ratify on that file failed half-way,
\* was cut short or raced: for any sanitize, whatever the interleaving.
THEOREM Committed == Spec => []CommittedUnlessSpoiled
<1>1. Init => IInv
  BY InitInv
<1>2. IInv /\ [Next]_vars => IInv'
  BY NextInv
<1>3. IInv => CommittedUnlessSpoiled
  BY DEF IInv
<1> QED
  BY <1>1, <1>2, <1>3, PTL DEF Spec

\* What was ratified is in the cache while central serves.
RatifiedCached == up => \A k \in Key : acked[k] # None => cache[k] # None

LEMMA RatifiedCachedStep ==
  ASSUME NoCollision, IInv, RatifiedCached, [Next]_vars
  PROVE  RatifiedCached'
<1> USE NoneAssumption, BrokenAssumption DEF IInv
<1> SUFFICES ASSUME up', NEW k \in Key, acked'[k] # None
             PROVE  cache'[k] # None
  BY DEF RatifiedCached
<1>1. CASE Start
  <2>1. cache' = Loaded /\ acked[k] # None /\ PathOf(k) \in Path /\ disk[PathOf(k)] # Broken
    BY <1>1, PathType DEF Start
  <2>2. disk[PathOf(k)] \in Decision
    BY <2>1 DEF RatifiedHasFile, TypeOK, File
  <2>3. disk[PathOf(k)].key \in Key /\ PathOf(disk[PathOf(k)].key) = PathOf(k)
    BY <2>1, <2>2 DEF FilesInPlace, Decision
  <2>4. disk[PathOf(k)].key = k
    BY <2>3, PathInjective
  <2> QED
    BY <2>1, <2>2, <2>4 DEF Loaded
<1>2. ASSUME NEW r \in Ratifier, Publish(r) PROVE cache'[k] # None
  <2>1. job[r] \in Decision /\ up
    BY <1>2, TargetType DEF Publish
  <2>2. cache' = [cache EXCEPT ![job[r].key] = job[r]] /\ acked' = [acked EXCEPT ![job[r].key] = job[r]]
    BY <1>2 DEF Publish
  <2> QED
    BY <2>1, <2>2 DEF RatifiedCached, TypeOK
<1>3. CASE UNCHANGED <<status, cache, acked>>
  BY <1>3 DEF RatifiedCached, up
<1> QED
  BY <1>1, <1>2, <1>3 DEF Next, RatifyStep, Begin, Fill, FillFails, GitStart, GitLocked, AddEnd,
     CommitEnd, GitFails, StartInterrupted, Crash, up, vars

\* If sanitize keeps the workloads apart, a ratified endpoint stays decided
\* through races, failures, crashes and restarts.
THEOREM Ratified == NoCollision /\ Spec => []RatifiedStaysDecided
<1>1. Init => IInv /\ RatifiedCached
  <2>1. Init => RatifiedCached
    BY DEF Init, RatifiedCached, up
  <2> QED
    BY <2>1, InitInv
<1>2. ASSUME NoCollision
      PROVE  IInv /\ RatifiedCached /\ [Next]_vars => IInv' /\ RatifiedCached'
  BY <1>2, NextInv, RatifiedCachedStep
<1>3. RatifiedCached => RatifiedStaysDecided
  BY DEF RatifiedCached, RatifiedStaysDecided, Lookup
<1>4. ASSUME NoCollision PROVE Spec => []RatifiedStaysDecided
  <2>1. IInv /\ RatifiedCached /\ [Next]_vars => IInv' /\ RatifiedCached'
    BY <1>2, <1>4
  <2> QED
    BY <1>1, <1>3, <2>1, PTL DEF Spec
<1> QED
  BY <1>4

LEMMA CacheAgreesStep ==
  ASSUME NoCollision, IInv, CacheAgrees, [Next]_vars
  PROVE  CacheAgrees'
<1> USE NoneAssumption, BrokenAssumption DEF IInv
<1>t. TypeOK'
  BY TypeStep
<1> SUFFICES ASSUME up', NEW k \in Key, PathOf(k) \notin spoiled',
                    \A r \in Ratifier : pc'[r] # "idle" => Target(r)' # PathOf(k)
             PROVE  cache'[k] = tree'[PathOf(k)]
  BY DEF CacheAgrees
<1> DEFINE p == PathOf(k)
<1>p. p \in Path
  BY PathType
<1>1. ASSUME NEW r \in Ratifier, NEW d \in Decision, Begin(r, d)
      PROVE  cache'[k] = tree'[p]
  <2>1. /\ UNCHANGED <<cache, tree, status>> /\ spoiled \subseteq spoiled' /\ pc[r] = "idle"
        /\ \A s \in Ratifier \ {r} : job'[s] = job[s] /\ pc'[s] = pc[s]
    BY <1>1 DEF Begin, Goto, git, TypeOK
  <2> QED
    BY <2>1 DEF CacheAgrees, Target, up
<1>2. ASSUME NEW r \in Ratifier, Fill(r) \/ GitStart(r) \/ AddEnd(r)
      PROVE  cache'[k] = tree'[p]
  <2>1. /\ UNCHANGED <<cache, tree, status, job, spoiled>>
        /\ \A s \in Ratifier : pc[s] # "idle" => pc'[s] # "idle"
    BY <1>2 DEF Fill, GitStart, AddEnd, Goto, git, TypeOK
  <2> QED
    BY <2>1 DEF CacheAgrees, Target, up
<1>3. ASSUME NEW r \in Ratifier, FillFails(r) \/ GitLocked(r) \/ GitFails(r)
      PROVE  cache'[k] = tree'[p]
  <2>1. /\ UNCHANGED <<cache, tree, status, job>> /\ spoiled' = spoiled \union {Target(r)}
        /\ pc' = [pc EXCEPT ![r] = "idle"]
    BY <1>3 DEF FillFails, GitLocked, GitFails, Return, Goto, git
  <2> QED
    BY <2>1 DEF CacheAgrees, Target, up, TypeOK
<1>4. ASSUME NEW r \in Ratifier, CommitEnd(r)
      PROVE  cache'[k] = tree'[p]
  <2>1. /\ UNCHANGED <<cache, status, job, spoiled, index>> /\ tree' = index
        /\ \A s \in Ratifier : pc[s] # "idle" => pc'[s] # "idle"
    BY <1>4 DEF CommitEnd, Goto, TypeOK
  <2>2. \A s \in Ratifier : pc[s] # "idle" => Target(s) # p
    BY <2>1 DEF Target
  <2>3. index[p] = tree[p]
    BY <1>p, <2>1, <2>2 DEF Settled
  <2> QED
    BY <2>1, <2>2, <2>3 DEF CacheAgrees, up
<1>5. ASSUME NEW r \in Ratifier, Publish(r)
      PROVE  cache'[k] = tree'[p]
  <2>1. /\ UNCHANGED <<tree, status, job, spoiled>> /\ pc[r] = "publish"
        /\ cache' = [cache EXCEPT ![job[r].key] = job[r]]
        /\ pc' = [pc EXCEPT ![r] = "idle"]
    BY <1>5 DEF Publish, Goto, git
  <2>2. job[r].key \in Key /\ Target(r) = PathOf(job[r].key)
    BY <2>1, TargetType
  <2>3. CASE job[r].key = k
    <3>1. tree[p] = job[r]
      BY <2>1, <2>2, <2>3 DEF Progress
    <3> QED
      BY <2>1, <2>2, <2>3, <3>1 DEF TypeOK
  <2>4. CASE job[r].key # k
    <3>1. Target(r) # p
      BY <2>2, <2>4, PathInjective
    <3>2. \A s \in Ratifier : pc[s] # "idle" => Target(s) # p
      BY <2>1, <3>1 DEF Target, TypeOK
    <3>3. cache[k] = tree[p]
      BY <2>1, <3>2 DEF CacheAgrees, up
    <3> QED
      BY <2>1, <2>4, <3>3 DEF TypeOK
  <2> QED
    BY <2>3, <2>4
<1>6. CASE Start
  <2>1. /\ UNCHANGED <<disk, index, tree, spoiled>> /\ cache' = Loaded /\ disk[p] # Broken
        /\ \A r \in Ratifier : pc[r] = "idle"
    BY <1>6, <1>p DEF Start, git, TypeOK
  <2>2. disk[p] = tree[p]
    BY <1>p, <2>1 DEF Settled
  <2>3. CASE disk[p] = None
    BY <2>1, <2>2, <2>3 DEF Loaded
  <2>4. CASE disk[p] # None
    <3>1. disk[p] \in Decision
      BY <1>p, <2>1, <2>4 DEF TypeOK, File
    <3>2. disk[p].key \in Key /\ PathOf(disk[p].key) = p
      BY <1>p, <3>1 DEF FilesInPlace, Decision
    <3>3. disk[p].key = k
      BY <3>2, PathInjective
    <3> QED
      BY <2>1, <2>2, <3>1, <3>3 DEF Loaded
  <2> QED
    BY <2>3, <2>4
<1>7. CASE StartInterrupted \/ Crash
  BY <1>7 DEF StartInterrupted, Crash, up
<1>8. CASE UNCHANGED vars
  BY <1>8 DEF vars, git, CacheAgrees, Target, up
<1> QED
  BY <1>1, <1>2, <1>3, <1>4, <1>5, <1>6, <1>7, <1>8 DEF Next, RatifyStep

\* On an unspoiled file nobody works on, the working tree, the index, HEAD and
\* the cache agree, if sanitize keeps the workloads apart.
THEOREM Trail == NoCollision /\ Spec => []TrailAgrees
<1>1. Init => IInv /\ CacheAgrees
  <2>1. Init => CacheAgrees
    BY DEF Init, CacheAgrees, up
  <2> QED
    BY <2>1, InitInv
<1>2. IInv /\ CacheAgrees => TrailAgrees
  BY PathType DEF IInv, CacheAgrees, Settled, TrailAgrees, BusyOn, Lookup
<1>3. ASSUME NoCollision PROVE Spec => []TrailAgrees
  <2>1. IInv /\ CacheAgrees /\ [Next]_vars => IInv' /\ CacheAgrees'
    BY <1>3, NextInv, CacheAgreesStep
  <2> QED
    BY <1>1, <1>2, <2>1, PTL DEF Spec
<1> QED
  BY <1>3

-----------------------------------------------------------------------------
(* The store implements the register.                                      *)

\* The requests under way are the ratifiers that are not idle, and those for a
\* key are the ones that work on its file.
LEMMA UnderWayIs ==
  ASSUME NoCollision, TypeOK
  PROVE  /\ \A r \in Ratifier : UnderWay[r] # None <=> pc[r] # "idle"
         /\ \A k \in Key : R!PendingOn(k) = BusyOn(PathOf(k))
<1> USE NoneAssumption
<1>1. ASSUME NEW r \in Ratifier
      PROVE  UnderWay[r] # None <=> pc[r] # "idle"
  BY DEF UnderWay, TypeOK
<1>2. ASSUME NEW k \in Key, NEW r \in Ratifier
      PROVE  UnderWay[r] # None /\ UnderWay[r].key = k <=> pc[r] # "idle" /\ Target(r) = PathOf(k)
  <2>1. CASE pc[r] = "idle"
    BY <1>1, <2>1
  <2>2. CASE pc[r] # "idle"
    <3>1. UnderWay[r] = job[r] /\ job[r].key \in Key /\ Target(r) = PathOf(job[r].key)
      BY <2>2, TargetType DEF UnderWay
    <3> QED
      BY <1>1, <2>2, <3>1, PathInjective
  <2> QED
    BY <2>1, <2>2
<1> QED
  BY <1>1, <1>2 DEF R!PendingOn, BusyOn

\* Files that are spoiled are keys that are damaged.
LEMMA DamagedIs ==
  ASSUME NoCollision, NEW k \in Key
  PROVE  {l \in Key : PathOf(l) \in spoiled \union {PathOf(k)}} = Damaged \union {k}
BY PathInjective DEF Damaged

LEMMA SubmitStep ==
  ASSUME NoCollision, TypeOK, NEW r \in Ratifier, NEW d \in Decision, Begin(r, d)
  PROVE  R!Submit(r, d)
<1> USE NoneAssumption
<1>1. d.key \in Key
  BY DEF Decision
<1>2. UnderWay[r] = None
  BY DEF Begin, UnderWay
<1>3. UnderWay' = [UnderWay EXCEPT ![r] = d]
  BY DEF Begin, Goto, UnderWay, TypeOK
<1>4. UNCHANGED InForce
  BY DEF Begin, InForce, up
<1>5. Damaged' = IF R!PendingOn(d.key) = {} THEN Damaged ELSE Damaged \union {d.key}
  <2>1. R!PendingOn(d.key) = BusyOn(PathOf(d.key))
    BY <1>1, UnderWayIs
  <2>2. spoiled' = IF BusyOn(PathOf(d.key)) = {} THEN spoiled ELSE spoiled \union {PathOf(d.key)}
    BY DEF Begin
  <2>3. Damaged' = {l \in Key : PathOf(l) \in spoiled'}
    BY DEF Damaged
  <2> QED
    BY <1>1, <2>1, <2>2, <2>3, DamagedIs DEF Damaged
<1> QED
  BY <1>2, <1>3, <1>4, <1>5 DEF R!Submit

LEMMA FailStep ==
  ASSUME NoCollision, TypeOK, NEW r \in Ratifier, FillFails(r) \/ GitLocked(r) \/ GitFails(r)
  PROVE  R!Fail(r)
<1>1. /\ UNCHANGED <<job, disk, cache, status>> /\ pc[r] # "idle"
      /\ pc' = [pc EXCEPT ![r] = "idle"] /\ spoiled' = spoiled \union {Target(r)}
  BY DEF FillFails, GitLocked, GitFails, Return, Goto
<1>2. UnderWay[r] = job[r] /\ job[r].key \in Key /\ Target(r) = PathOf(job[r].key)
  BY <1>1, TargetType DEF UnderWay
<1>3. UnderWay[r] # None
  BY <1>1, UnderWayIs
<1>4. UnderWay' = [UnderWay EXCEPT ![r] = None]
  BY <1>1 DEF UnderWay, TypeOK
<1>5. UNCHANGED InForce
  BY <1>1 DEF InForce, up, Loaded
<1>6. Damaged' = Damaged \union {UnderWay[r].key}
  <2>1. Damaged' = {l \in Key : PathOf(l) \in spoiled'}
    BY DEF Damaged
  <2> QED
    BY <1>1, <1>2, <2>1, DamagedIs
<1> QED
  BY <1>3, <1>4, <1>5, <1>6 DEF R!Fail

LEMMA SucceedStep ==
  ASSUME NoCollision, TypeOK, NEW r \in Ratifier, Publish(r)
  PROVE  R!Succeed(r)
<1>1. /\ UNCHANGED <<job, disk, status, spoiled>> /\ pc[r] # "idle"
      /\ pc' = [pc EXCEPT ![r] = "idle"] /\ cache' = [cache EXCEPT ![job[r].key] = job[r]]
  BY DEF Publish, Goto
<1>2. UnderWay[r] = job[r] /\ job[r].key \in Key /\ up
  BY <1>1, TargetType DEF UnderWay
<1>3. UnderWay[r] # None
  BY <1>1, UnderWayIs
<1>4. UnderWay' = [UnderWay EXCEPT ![r] = None]
  BY <1>1 DEF UnderWay, TypeOK
<1>5. InForce' = [InForce EXCEPT ![UnderWay[r].key] = UnderWay[r]]
  BY <1>1, <1>2 DEF InForce, up, TypeOK
<1>6. UNCHANGED Damaged
  BY <1>1 DEF Damaged
<1> QED
  BY <1>3, <1>4, <1>5, <1>6 DEF R!Succeed

\* What a start would read back of an unspoiled file is what was in force, or
\* what the call that was about to return was given.
LEMMA ReadBack ==
  ASSUME NoCollision, IInv, CacheAgrees, up, NEW k \in Key, PathOf(k) \notin spoiled,
         \A r \in BusyOn(PathOf(k)) : pc[r] = "publish"
  PROVE  Loaded[k] = cache[k] \/ \E r \in BusyOn(PathOf(k)) : Loaded[k] = job[r]
<1> USE NoneAssumption, BrokenAssumption DEF IInv
<1> DEFINE p == PathOf(k)
<1>1. p \in Path
  BY PathType
<1>2. disk[p] \in Decision => disk[p].key = k
  <2>1. disk[p] \in Decision => disk[p].key \in Key /\ PathOf(disk[p].key) = p
    BY <1>1 DEF FilesInPlace, Decision
  <2> QED
    BY <2>1, PathInjective
<1>3. CASE BusyOn(p) = {}
  <2>1. \A r \in Ratifier : pc[r] # "idle" => Target(r) # p
    BY <1>3 DEF BusyOn
  <2>2. disk[p] = tree[p] /\ cache[k] = tree[p]
    BY <1>1, <2>1 DEF Settled, CacheAgrees
  <2>3. cache[k] \in Decision \union {None}
    BY DEF TypeOK
  <2> QED
    BY <1>2, <2>2, <2>3 DEF Loaded
<1>4. ASSUME NEW r \in BusyOn(p)
      PROVE  Loaded[k] = job[r]
  <2>1. r \in Ratifier /\ pc[r] = "publish" /\ Target(r) = p
    BY <1>4 DEF BusyOn
  <2>2. job[r] \in Decision /\ disk[p] = job[r]
    BY <2>1, TargetType DEF Progress
  <2> QED
    BY <1>2, <2>2 DEF Loaded
<1> QED
  BY <1>3, <1>4

LEMMA DieStep ==
  ASSUME NoCollision, IInv, CacheAgrees, Crash
  PROVE  R!Die
<1> USE NoneAssumption, BrokenAssumption
<1> DEFINE cut == {q \in Ratifier : pc[q] \notin {"idle", "publish"}}
<1>1. /\ UNCHANGED <<disk, job>> /\ up /\ ~ up' /\ pc' = [r \in Ratifier |-> "idle"]
      /\ spoiled' = spoiled \union {Target(r) : r \in cut}
  BY DEF Crash, up
<1>t. TypeOK
  BY DEF IInv
<1>2. UnderWay' = [c \in Ratifier |-> None]
  BY <1>1 DEF UnderWay
<1>3. Damaged \subseteq Damaged'
  BY <1>1 DEF Damaged
<1>4. ASSUME NEW k \in Damaged' \ Damaged
      PROVE  R!PendingOn(k) # {}
  <2>1. k \in Key /\ PathOf(k) \in spoiled' \ spoiled
    BY DEF Damaged
  <2>2. PICK r \in cut : Target(r) = PathOf(k)
    BY <1>1, <2>1
  <2>3. r \in BusyOn(PathOf(k))
    BY <2>2 DEF BusyOn
  <2> QED
    BY <1>t, <2>1, <2>3, UnderWayIs
<1>5. \A k \in Key : InForce'[k] = Loaded[k]
  BY <1>1 DEF InForce, Loaded
<1>6. /\ InForce' \in [Key -> Decision \union {None}]
      /\ \A k \in Key : InForce'[k] # None => InForce'[k].key = k
  <2>1. \A k \in Key : Loaded[k] \in Decision \union {None} /\ (Loaded[k] # None => Loaded[k].key = k)
    BY DEF Loaded
  <2>2. InForce' = [k \in Key |-> InForce'[k]]
    BY DEF InForce
  <2> QED
    BY <1>5, <2>1, <2>2
<1>7. ASSUME NEW k \in Key \ Damaged'
      PROVE  InForce'[k] = InForce[k] \/ \E c \in R!PendingOn(k) : InForce'[k] = UnderWay[c]
  <2>1. PathOf(k) \notin spoiled /\ \A r \in cut : Target(r) # PathOf(k)
    BY <1>1 DEF Damaged
  <2>2. \A r \in BusyOn(PathOf(k)) : pc[r] = "publish"
    BY <2>1 DEF BusyOn
  <2>3. Loaded[k] = cache[k] \/ \E r \in BusyOn(PathOf(k)) : Loaded[k] = job[r]
    BY <1>1, <2>1, <2>2, ReadBack
  <2>4. InForce[k] = cache[k]
    BY <1>1 DEF InForce
  <2>5. \A r \in BusyOn(PathOf(k)) : UnderWay[r] = job[r]
    BY DEF BusyOn, UnderWay
  <2>6. R!PendingOn(k) = BusyOn(PathOf(k))
    BY <1>t, UnderWayIs
  <2> QED
    BY <1>5, <2>3, <2>4, <2>5, <2>6
<1> QED
  BY <1>2, <1>3, <1>4, <1>6, <1>7 DEF R!Die

\* Every other step leaves what is in force as it is.
LEMMA InternalStep ==
  ASSUME TypeOK, \/ \E r \in Ratifier : Fill(r) \/ GitStart(r) \/ AddEnd(r) \/ CommitEnd(r)
                 \/ Start \/ StartInterrupted \/ UNCHANGED vars
  PROVE  UNCHANGED <<InForce, UnderWay, Damaged>>
<1>1. ASSUME NEW r \in Ratifier, Fill(r) \/ GitStart(r) \/ AddEnd(r) \/ CommitEnd(r)
      PROVE  UNCHANGED <<InForce, UnderWay, Damaged>>
  <2>1. /\ UNCHANGED <<cache, status, job, spoiled>> /\ pc[r] # "idle"
        /\ \A s \in Ratifier : pc'[s] = "idle" <=> pc[s] = "idle"
    BY <1>1 DEF Fill, GitStart, AddEnd, CommitEnd, Goto, git, TypeOK
  <2>2. up
    BY <2>1 DEF TypeOK
  <2> QED
    BY <2>1, <2>2 DEF InForce, UnderWay, Damaged, up
<1>2. CASE Start
  <2>1. UNCHANGED <<disk, pc, job, spoiled>> /\ cache' = Loaded /\ ~ up /\ up'
    BY <1>2 DEF Start, up
  <2> QED
    BY <2>1 DEF InForce, UnderWay, Damaged, Loaded
<1>3. CASE StartInterrupted \/ UNCHANGED vars
  <2>1. UNCHANGED <<status, cache, disk, pc, job, spoiled>>
    BY <1>3 DEF StartInterrupted, vars
  <2> QED
    BY <2>1 DEF InForce, UnderWay, Damaged, Loaded, up
<1> QED
  BY <1>1, <1>2, <1>3

\* If sanitize keeps the workloads apart, the decision store is a register of
\* decisions: what a call of Ratify does is one step, whatever it races with,
\* and a death of central is harmless to every file that no call spoiled.
THEOREM Register == NoCollision /\ Spec => RefinesRegister
<1>1. Init => IInv /\ CacheAgrees /\ R!Init
  <2>1. Init => CacheAgrees
    BY DEF Init, CacheAgrees, up
  <2>2. Init => R!Init
    <3>1. Init => \A k \in Key : Loaded[k] = None
      BY NoneAssumption, PathType DEF Init, Loaded
    <3> QED
      BY <3>1 DEF Init, up, InForce, UnderWay, Damaged, R!Init
  <2> QED
    BY <2>1, <2>2, InitInv
<1>2. ASSUME NoCollision
      PROVE  IInv /\ CacheAgrees /\ [Next]_vars => [R!Next]_(R!vars)
  <2> SUFFICES ASSUME IInv, CacheAgrees, [Next]_vars
               PROVE  R!Next \/ UNCHANGED <<InForce, UnderWay, Damaged>>
    BY DEF R!vars
  <2>t. TypeOK
    BY DEF IInv
  <2>1. ASSUME NEW r \in Ratifier, NEW d \in Decision, Begin(r, d) PROVE R!Next
    BY <1>2, <2>t, <2>1, SubmitStep DEF R!Next
  <2>2. ASSUME NEW r \in Ratifier, FillFails(r) \/ GitLocked(r) \/ GitFails(r) PROVE R!Next
    BY <1>2, <2>t, <2>2, FailStep DEF R!Next
  <2>3. ASSUME NEW r \in Ratifier, Publish(r) PROVE R!Next
    BY <1>2, <2>t, <2>3, SucceedStep DEF R!Next
  <2>4. CASE Crash
    BY <1>2, <2>4, DieStep DEF R!Next
  <2>5. CASE \/ \E r \in Ratifier : Fill(r) \/ GitStart(r) \/ AddEnd(r) \/ CommitEnd(r)
             \/ Start \/ StartInterrupted \/ UNCHANGED vars
    BY <2>t, <2>5, InternalStep
  <2> QED
    BY <2>1, <2>2, <2>3, <2>4, <2>5 DEF Next, RatifyStep
<1>3. ASSUME NoCollision PROVE Spec => RefinesRegister
  <2>1. IInv /\ CacheAgrees /\ [Next]_vars => IInv' /\ CacheAgrees' /\ [R!Next]_(R!vars)
    BY <1>2, <1>3, NextInv, CacheAgreesStep
  <2> QED
    BY <1>1, <2>1, PTL DEF Spec, RefinesRegister, R!Spec
<1> QED
  BY <1>3

=============================================================================
