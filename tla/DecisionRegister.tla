-------------------------- MODULE DecisionRegister --------------------------
(***************************************************************************)
(* What central's decision store promises (the comments of DecisionStore   *)
(* and of Ratify in cmd/central/decisions.go), without files, git or a     *)
(* cache: a decision for each key, which a request replaces in one step    *)
(* between its beginning and its end, and which outlives central.  A       *)
(* request that is under way when central dies took effect or did not.     *)
(*                                                                         *)
(* Nothing is promised across a death of central for a key that is         *)
(* damaged: a request for it failed half-way, was cut short, or had        *)
(* another one beside it.                                                  *)
(***************************************************************************)
CONSTANTS Key,       \* what a decision is about
          Decision,  \* records with a field key
          Client,    \* requests that may be under way at a time
          None       \* no decision

VARIABLES
  value,     \* the decision in force for each key
  pending,   \* the decision that each request under way was given
  damaged    \* keys of which a restart may make anything

vars == <<value, pending, damaged>>

Init ==
  /\ value = [k \in Key |-> None]
  /\ pending = [c \in Client |-> None]
  /\ damaged = {}

\* The requests under way for a key.
PendingOn(k) == {c \in Client : pending[c] # None /\ pending[c].key = k}

\* A request begins.
Submit(c, d) ==
  /\ pending[c] = None
  /\ pending' = [pending EXCEPT ![c] = d]
  /\ damaged' = IF PendingOn(d.key) = {} THEN damaged ELSE damaged \union {d.key}
  /\ UNCHANGED value

\* ... and succeeds: its decision is in force, and nothing else has changed.
Succeed(c) ==
  /\ pending[c] # None
  /\ value' = [value EXCEPT ![pending[c].key] = pending[c]]
  /\ pending' = [pending EXCEPT ![c] = None]
  /\ UNCHANGED damaged

\* ... or fails: nothing has changed for now.
Fail(c) ==
  /\ pending[c] # None
  /\ pending' = [pending EXCEPT ![c] = None]
  /\ damaged' = damaged \union {pending[c].key}
  /\ UNCHANGED value

\* Central dies.  The requests for damaged keys were cut short, now or before.
Die ==
  /\ pending' = [c \in Client |-> None]
  /\ damaged \subseteq damaged'
  /\ \A k \in damaged' \ damaged : PendingOn(k) # {}
  /\ value' \in [Key -> Decision \union {None}]
  /\ \A k \in Key : value'[k] # None => value'[k].key = k
  /\ \A k \in Key \ damaged' :
       value'[k] = value[k] \/ \E c \in PendingOn(k) : value'[k] = pending[c]

Next ==
  \/ \E c \in Client : (\E d \in Decision : Submit(c, d)) \/ Succeed(c) \/ Fail(c)
  \/ Die

Spec == Init /\ [][Next]_vars

=============================================================================
