------------------------ MODULE DecisionStoreRegister ------------------------
(* The decision store of DecisionStore implements the abstract             *)
(* DecisionRegister: a decision is in force if the cache has it, or, while *)
(* central is down, if a start would read it back.                         *)
EXTENDS DecisionStore

InForce  == [k \in Key |-> IF up THEN cache[k] ELSE Loaded[k]]
UnderWay == [r \in Ratifier |-> IF pc[r] = "idle" THEN None ELSE job[r]]
Damaged  == {k \in Key : PathOf(k) \in spoiled}

R == INSTANCE DecisionRegister WITH Client  <- Ratifier,
                                    value   <- InForce,
                                    pending <- UnderWay,
                                    damaged <- Damaged

\* "a decision is never ratified without a corresponding commit existing", and
\* "Ratified decisions do (git-backed)" survive: a call of Ratify replaces one
\* decision in one step, and a death of central replaces none, except by what a
\* call under way was given, as long as no call spoiled the file.
RefinesRegister == R!Spec

=============================================================================
