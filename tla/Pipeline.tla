------------------------------ MODULE Pipeline ------------------------------
(***************************************************************************)
(* From the first connection to the reviewer's page: the dedup map of      *)
(* bpf/probes.c, the ring, the sensor's read loop and upload buffer, the   *)
(* POST to central, its queue and its decisions, on several hosts.         *)
(*                                                                         *)
(* Each part is reduced to what it does to a report: Probes, Uploader,     *)
(* Store and DecisionStore have the rest.  What only the composition shows *)
(* is who still knows of a tuple that the kernel is silent about: the      *)
(* dedup map does not forget when the report of a tuple is lost later on,  *)
(* when its proposal is dismissed, or when central restarts.               *)
(*                                                                         *)
(* The records a probe reserves are numbered: log[h] has them all, those   *)
(* up to read[h] have been consumed, and the upload buffer is the window   *)
(* from head[h] to read[h].                                                *)
(***************************************************************************)
EXTENDS Integers, Sequences, FiniteSets

CONSTANTS Host,
          Tuple,        \* workload and endpoint, as central keys them
          SeenCap,      \* max_entries of seen_connections
          RingCap,      \* records that fit the ring
          BufCap,       \* uploadBufferCap
          MaxUses,      \* bound: connections of all hosts
          MaxLives,     \* bound: restarts of a sensor
          MaxReviews,   \* bound: decisions and dismissals
          MaxRestarts,  \* bound: restarts of central
          Followed      \* bound: the tuples that ReportsArrive is checked of; no
                        \*   definition tells tuples apart

ASSUME FollowedAssumption == Followed \subseteq Tuple
ASSUME CapAssumption ==
  {SeenCap, RingCap, BufCap} \subseteq Nat \ {0}
ASSUME LimitAssumption ==
  {MaxUses, MaxLives, MaxReviews, MaxRestarts} \subseteq Nat

VARIABLES
  seen,       \* seen_connections of every host
  log,        \* the records of every host since its sensor started
  read,       \* how many the read loop has consumed
  head,       \* how many have left the upload buffer
  request,    \* of the uploader: "none", "sent", "lost" on the way
  from, to,   \* the window its batch was copied from
  todo,       \* what central has still to ingest of that batch
  late,       \* ... and of batches the sensor has given up
  queue,      \* the hosts that Store.proposals has for each tuple, {} for no proposal
  decided,    \* tuples with a decision
  lost,       \* history: tuples whose latest report was dropped on its host
  gone,       \* history: tuples whose proposal was taken off the queue since their latest report
  overflown,  \* history: hosts whose ring or buffer was full in this life
  uses, lives, reviews, restarts

host    == <<seen, log, read, head, request, from, to>>
central == <<todo, late, queue, decided>>
past    == <<lost, gone, overflown>>
bounds  == <<uses, lives, reviews, restarts>>
vars    == <<host, central, past, bounds>>

\* What the records from a + 1 to b are about.
Window(h, a, b) == {log[h][i] : i \in a + 1 .. b}

\* ... those of them that were not reported again since.
Latest(h, a, b) ==
  {log[h][i] : i \in {j \in a + 1 .. b : \A k \in j + 1 .. Len(log[h]) : log[h][k] # log[h][j]}}

Smaller(a, b) == IF a <= b THEN a ELSE b
Larger(a, b)  == IF a <= b THEN b ELSE a

Init ==
  /\ seen = [h \in Host |-> {}]
  /\ log = [h \in Host |-> <<>>]
  /\ read = [h \in Host |-> 0] /\ head = [h \in Host |-> 0]
  /\ request = [h \in Host |-> "none"]
  /\ from = [h \in Host |-> 0] /\ to = [h \in Host |-> 0]
  /\ todo = [h \in Host |-> {}] /\ late = [h \in Host |-> {}]
  /\ queue = [t \in Tuple |-> {}] /\ decided = {}
  /\ lost = [h \in Host |-> {}] /\ gone = [h \in Host |-> {}] /\ overflown = {}
  /\ lives = [h \in Host |-> 0] /\ uses = 0 /\ reviews = 0 /\ restarts = 0

Uses == uses < MaxUses /\ uses' = uses + 1

\* An update of seen_connections evicts at most one entry, and maybe one before
\* the map is full (see Probes).
Update(h, tuples) ==
  \E victims \in SUBSET seen[h] :
    /\ Cardinality(victims) <= 1
    /\ Cardinality((seen[h] \ victims) \union tuples) <= SeenCap
    /\ seen' = [seen EXCEPT ![h] = (@ \ victims) \union tuples]

-----------------------------------------------------------------------------
(* Faulty variants of the actions below: each makes one mistake that the   *)
(* code could easily make, and breaks one property.                        *)

\* A batch that was accepted empties the buffer.
AnsweredEmpties(h) ==
  /\ request[h] = "sent" /\ todo[h] = {}
  /\ request' = [request EXCEPT ![h] = "none"]
  /\ head' = [head EXCEPT ![h] = read[h]]
  /\ UNCHANGED <<seen, log, read, from, to, central, past, bounds>>

\* The buffer is cut before the request, and a request that fails is not tried again.
GiveUpForgets(h) ==
  /\ request[h] # "none"
  /\ request' = [request EXCEPT ![h] = "none"]
  /\ head' = [head EXCEPT ![h] = Larger(head[h], to[h])]
  /\ lost' = [lost EXCEPT ![h] = @ \union Latest(h, head[h], to[h])]
  /\ late' = [late EXCEPT ![h] = @ \union todo[h]] /\ todo' = [todo EXCEPT ![h] = {}]
  /\ UNCHANGED <<seen, log, read, from, to, queue, decided, gone, overflown, bounds>>

\* A batch is only sent if something was enqueued since the last one.
SendIfNew(h) ==
  /\ request[h] = "none" /\ Larger(head[h], to[h]) < read[h]
  /\ request' = [request EXCEPT ![h] = "sent"]
  /\ from' = [from EXCEPT ![h] = head[h]] /\ to' = [to EXCEPT ![h] = read[h]]
  /\ todo' = [todo EXCEPT ![h] = Window(h, head[h], read[h])]
  /\ UNCHANGED <<seen, log, read, head, late, queue, decided, past, bounds>>

\* The uploader of the new life goes on where the old one stopped.
SensorRestartsUnread(h) ==
  /\ lives[h] < MaxLives
  /\ lives' = [lives EXCEPT ![h] = @ + 1]
  /\ seen' = [seen EXCEPT ![h] = {}] /\ log' = [log EXCEPT ![h] = <<>>]
  /\ request' = [request EXCEPT ![h] = "none"]
  /\ lost' = [lost EXCEPT ![h] = {}] /\ gone' = [gone EXCEPT ![h] = {}]
  /\ overflown' = overflown \ {h}
  /\ late' = [late EXCEPT ![h] = @ \union todo[h]] /\ todo' = [todo EXCEPT ![h] = {}]
  /\ UNCHANGED <<read, head, from, to, queue, decided, uses, reviews, restarts>>

-----------------------------------------------------------------------------
(* A host.                                                                 *)

\* A connection of a tuple that the map has is silent.
Hit(h, t) ==
  /\ Uses /\ t \in seen[h]
  /\ Update(h, {})
  /\ UNCHANGED <<log, read, head, request, from, to, central, past, lives, reviews, restarts>>

\* Another one is entered in the map, unless the update fails, and reported,
\* if the ring has room.
Miss(h, t) ==
  /\ Uses /\ t \notin seen[h]
  /\ \E marked \in {{t}, {}} : Update(h, marked)
  /\ gone' = [gone EXCEPT ![h] = @ \ {t}]
  /\ IF Len(log[h]) - read[h] < RingCap
       THEN /\ log' = [log EXCEPT ![h] = Append(@, t)]
            /\ lost' = [lost EXCEPT ![h] = @ \ {t}]
            /\ UNCHANGED overflown
       ELSE /\ lost' = [lost EXCEPT ![h] = @ \union {t}]
            /\ overflown' = overflown \union {h}
            /\ UNCHANGED log
  /\ UNCHANGED <<read, head, request, from, to, central, lives, reviews, restarts>>

\* The read loop consumes a record and enqueues it; a full buffer drops its oldest.
Consume(h) ==
  /\ read[h] < Len(log[h])
  /\ read' = [read EXCEPT ![h] = @ + 1]
  /\ IF read[h] - head[h] < BufCap
       THEN UNCHANGED <<head, lost, overflown>>
       ELSE /\ head' = [head EXCEPT ![h] = @ + 1]
            /\ lost' = [lost EXCEPT ![h] = @ \union Latest(h, head[h], head[h] + 1)]
            /\ overflown' = overflown \union {h}
  /\ UNCHANGED <<seen, log, request, from, to, central, gone, bounds>>

\* drain copies the buffer and posts it: the request reaches central ...
Send(h) ==
  /\ request[h] = "none" /\ head[h] < read[h]
  /\ request' = [request EXCEPT ![h] = "sent"]
  /\ from' = [from EXCEPT ![h] = head[h]] /\ to' = [to EXCEPT ![h] = read[h]]
  /\ todo' = [todo EXCEPT ![h] = Window(h, head[h], read[h])]
  /\ UNCHANGED <<seen, log, read, head, late, queue, decided, past, bounds>>

\* ... or does not.
SendLost(h) ==
  /\ request[h] = "none" /\ head[h] < read[h]
  /\ request' = [request EXCEPT ![h] = "lost"]
  /\ from' = [from EXCEPT ![h] = head[h]] /\ to' = [to EXCEPT ![h] = read[h]]
  /\ UNCHANGED <<seen, log, read, head, central, past, bounds>>

\* 202: as many are removed as were sent, from what the buffer is by now.
Answered(h) ==
  /\ request[h] = "sent" /\ todo[h] = {}
  /\ request' = [request EXCEPT ![h] = "none"]
  /\ LET cut == Smaller(head[h] + (to[h] - from[h]), read[h])
     IN  /\ head' = [head EXCEPT ![h] = cut]
         /\ lost' = [lost EXCEPT ![h] = @ \union Latest(h, Larger(head[h], to[h]), cut)]
  /\ UNCHANGED <<seen, log, read, from, to, central, gone, overflown, bounds>>

\* The request fails or times out; central may go on with it.
GiveUp(h) ==
  /\ request[h] # "none"
  /\ request' = [request EXCEPT ![h] = "none"]
  /\ late' = [late EXCEPT ![h] = @ \union todo[h]] /\ todo' = [todo EXCEPT ![h] = {}]
  /\ UNCHANGED <<seen, log, read, head, from, to, queue, decided, past, bounds>>

\* The sensor ends, the maps go with it, and it is started again.  The last
\* drain of a shutdown may reach central.
SensorRestarts(h) ==
  /\ lives[h] < MaxLives
  /\ lives' = [lives EXCEPT ![h] = @ + 1]
  /\ seen' = [seen EXCEPT ![h] = {}] /\ log' = [log EXCEPT ![h] = <<>>]
  /\ read' = [read EXCEPT ![h] = 0] /\ head' = [head EXCEPT ![h] = 0]
  /\ request' = [request EXCEPT ![h] = "none"]
  /\ lost' = [lost EXCEPT ![h] = {}] /\ gone' = [gone EXCEPT ![h] = {}]
  /\ overflown' = overflown \ {h}
  /\ \E last \in {{}, Window(h, head[h], read[h])} :
       late' = [late EXCEPT ![h] = @ \union todo[h] \union last]
  /\ todo' = [todo EXCEPT ![h] = {}]
  /\ UNCHANGED <<from, to, queue, decided, uses, reviews, restarts>>

-----------------------------------------------------------------------------
(* Central.                                                                *)

\* ingestConn: a tuple that is decided needs no proposal.
Proposes(h, t) ==
  /\ IF t \in decided
       THEN UNCHANGED queue
       ELSE queue' = [queue EXCEPT ![t] = @ \union {h}]
  /\ lost' = [lost EXCEPT ![h] = @ \ {t}] /\ gone' = [gone EXCEPT ![h] = @ \ {t}]
  /\ UNCHANGED <<host, decided, overflown, bounds>>

Ingest(h, t) ==
  /\ t \in todo[h]
  /\ todo' = [todo EXCEPT ![h] = @ \ {t}]
  /\ Proposes(h, t) /\ UNCHANGED late

LateIngest(h, t) ==
  /\ t \in late[h]
  /\ late' = [late EXCEPT ![h] = @ \ {t}]
  /\ Proposes(h, t) /\ UNCHANGED todo

Review == reviews < MaxReviews /\ reviews' = reviews + 1

\* The form may come from an old page, or name anything; a second decision changes
\* nothing.  The proposal stays in the map and is shown no more.
Decide(t) ==
  /\ Review /\ t \notin decided
  /\ decided' = decided \union {t}
  /\ UNCHANGED <<host, todo, late, queue, past, uses, lives, restarts>>

\* Proposals that are taken off the queue.
Remove(tuples) ==
  /\ queue' = [t \in Tuple |-> IF t \in tuples THEN {} ELSE queue[t]]
  /\ gone' = [h \in Host |-> gone[h] \union {t \in tuples : h \in queue[t]}]

\* Dismiss, DismissWorkload, DismissAll; without anything to take off they change
\* nothing.
Dismiss(tuples) ==
  /\ Review /\ \E t \in tuples : queue[t] # {}
  /\ Remove(tuples)
  /\ UNCHANGED <<host, todo, late, decided, lost, overflown, uses, lives, restarts>>

\* The queue and the requests are gone, and the decisions that were reverted in
\* git meanwhile.
CentralRestarts(reverted) ==
  /\ restarts < MaxRestarts
  /\ restarts' = restarts + 1
  /\ queue' = [t \in Tuple |-> {}]
  /\ gone' = [h \in Host |-> gone[h] \union {t \in Tuple : h \in queue[t]} \union reverted]
  /\ decided' = decided \ reverted
  /\ request' = [h \in Host |-> IF request[h] = "sent" THEN "lost" ELSE request[h]]
  /\ todo' = [h \in Host |-> {}] /\ late' = [h \in Host |-> {}]
  /\ UNCHANGED <<seen, log, read, head, from, to, lost, overflown, uses, lives, reviews>>

-----------------------------------------------------------------------------
Next ==
  \/ \E h \in Host :
       \/ Consume(h) \/ Send(h) \/ SendLost(h) \/ Answered(h) \/ GiveUp(h) \/ SensorRestarts(h)
       \/ \E t \in Tuple : Hit(h, t) \/ Miss(h, t) \/ Ingest(h, t) \/ LateIngest(h, t)
  \/ \E t \in Tuple : Decide(t)
  \/ \E tuples \in SUBSET Tuple : Dismiss(tuples)
  \/ \E reverted \in SUBSET decided : CentralRestarts(reverted)

Spec == Init /\ [][Next]_vars

\* The sensor's goroutines are scheduled and its requests time out; central
\* handles what has reached it; an outage ends: of the requests that are sent
\* again and again one reaches central.
Fairness ==
  \A h \in Host :
    /\ WF_vars(Consume(h)) /\ WF_vars(GiveUp(h)) /\ SF_vars(Send(h))
    /\ WF_vars(\E t \in Tuple : Ingest(h, t)) /\ WF_vars(\E t \in Tuple : LateIngest(h, t))

FairSpec == Spec /\ Fairness

-----------------------------------------------------------------------------
(* Properties.                                                             *)

Shown(h, t) == t \in decided \/ h \in queue[t]

\* Windows lie in the log, and neither the ring nor the buffer is over its size.
InPlace(h) ==
  /\ head[h] <= read[h] /\ read[h] <= Len(log[h])
  /\ read[h] - head[h] <= BufCap /\ Len(log[h]) - read[h] <= RingCap
  /\ request[h] # "none" => from[h] <= head[h] /\ from[h] < to[h] /\ to[h] <= read[h]

\* The type of the state.
TypeOK ==
  /\ seen \in [Host -> SUBSET Tuple] /\ log \in [Host -> Seq(Tuple)]
  /\ read \in [Host -> Nat] /\ head \in [Host -> Nat]
  /\ from \in [Host -> Nat] /\ to \in [Host -> Nat]
  /\ request \in [Host -> {"none", "sent", "lost"}]
  /\ todo \in [Host -> SUBSET Tuple] /\ late \in [Host -> SUBSET Tuple]
  /\ queue \in [Tuple -> SUBSET Host] /\ decided \subseteq Tuple
  /\ lost \in [Host -> SUBSET Tuple] /\ gone \in [Host -> SUBSET Tuple]
  /\ overflown \subseteq Host
  /\ lives \in [Host -> 0..MaxLives] /\ uses \in 0..MaxUses
  /\ reviews \in 0..MaxReviews /\ restarts \in 0..MaxRestarts
  /\ \A h \in Host : InPlace(h)

\* "if the same traffic recurs, it simply reappears": of every tuple the kernel
\* is silent about on a host, the decision is made, or the proposal names that
\* host, or its report is still on the way; unless it was dropped for want of
\* room, or its proposal was dismissed, or lost in a restart, since.
SilentIsKnown ==
  \A h \in Host : \A t \in seen[h] :
    \/ Shown(h, t)
    \/ t \in Window(h, head[h], Len(log[h]))
    \/ t \in lost[h] \/ t \in gone[h]

\* A report is dropped only by a host whose ring or upload buffer was full.
LossNeedsOverflow == \A h \in Host : lost[h] # {} => h \in overflown

\* "Record/refresh the proposal": what a host reports is proposed or decided in
\* the end, unless the sensor stops before, it is dropped, or it is removed.
ReportsArrive ==
  \A h \in Host, t \in Followed, n \in 0..MaxLives :
    lives[h] = n /\ t \in Window(h, head[h], Len(log[h])) ~>
      Shown(h, t) \/ t \in lost[h] \/ t \in gone[h] \/ lives[h] # n

=============================================================================
