------------------------------- MODULE Outbox -------------------------------
(***************************************************************************)
(* What the sensor's upload buffer promises (the header of                 *)
(* cmd/sensor/upload.go and the comments of enqueue and drain), without    *)
(* saying how: events are accepted in order, delivered to central in any   *)
(* order and any number of times, and forgotten from the oldest on.  An    *)
(* event may be forgotten undelivered only if room had to be made: at most *)
(* one such event for each time the buffer was full.                       *)
(***************************************************************************)
EXTENDS Integers, FiniteSets

VARIABLES
  accepted,   \* events 1..accepted were accepted
  delivered,  \* the events central has seen
  forgotten,  \* events 1..forgotten are no longer held
  dropped     \* how often the buffer was full when an event arrived

vars == <<accepted, delivered, forgotten, dropped>>

Init ==
  /\ accepted = 0
  /\ delivered = {}
  /\ forgotten = 0
  /\ dropped = 0

Undelivered(k) == (1 .. k) \ delivered

Accept ==
  /\ accepted' = accepted + 1
  /\ \/ UNCHANGED <<forgotten, dropped>>
     \/ forgotten' = forgotten + 1 /\ dropped' = dropped + 1
  /\ UNCHANGED delivered

Deliver ==
  /\ delivered' \subseteq 1 .. accepted
  /\ delivered \subseteq delivered'
  /\ UNCHANGED <<accepted, forgotten, dropped>>

\* Forget what may be forgotten: all of it delivered, or paid for.
Forget ==
  /\ forgotten' >= forgotten
  /\ forgotten' <= accepted
  /\ Cardinality(Undelivered(forgotten')) <= dropped
  /\ UNCHANGED <<accepted, delivered, dropped>>

Next == Accept \/ Deliver \/ Forget

Spec == Init /\ [][Next]_vars

=============================================================================
