-------------------------- MODULE ComponentSettings --------------------------
(***************************************************************************)
(* What the configuration handler promises about the settings it applies   *)
(* to the agent's components, seen from outside.  `want` is what the       *)
(* deployed configuration prescribes for each setting, `have` what the     *)
(* component runs with, `dirty` the settings whose re-application is still *)
(* owed.  A push, taken only when nothing is owed, changes `want`, applies *)
(* the Inline settings itself and owes at least every other setting it     *)
(* changed; each Apply then copies one owed setting from `want`.  No step  *)
(* ever gives a component a value the configuration does not prescribe.    *)
(***************************************************************************)
EXTENDS TLAPS

CONSTANTS
    Fields,   \* the settings
    Inline    \* the settings a push applies itself, a subset of Fields

VARIABLES want, have, dirty

svars == <<want, have, dirty>>

Init ==
    /\ \A f \in Fields : have[f] = want[f]
    /\ dirty = {}

Push ==
    /\ dirty = {}
    /\ dirty' \subseteq Fields \ Inline
    /\ \A f \in Fields \ Inline : want'[f] # want[f] => f \in dirty'
    /\ \A f \in Inline : have'[f] = want'[f]
    /\ \A f \in Fields \ Inline : have'[f] = have[f]

Apply(f) ==
    /\ f \in dirty
    /\ have'[f] = want[f]
    /\ \A g \in Fields \ {f} : have'[g] = have[g]
    /\ want' = want
    /\ dirty' = dirty \ {f}

Next == Push \/ \E f \in Fields : Apply(f)

Spec == Init /\ [][Next]_svars

----------------------------------------------------------------------------
(* A setting nobody owes is the one the configuration prescribes.         *)
Clean == \A f \in Fields : f \notin dirty => have[f] = want[f]

(* Once nothing is owed, every component runs with its configured         *)
(* setting.                                                               *)
Settled == dirty = {} => \A f \in Fields : have[f] = want[f]

(* Clean holds in every state: a push starts from a clean, empty state    *)
(* and owes every setting it changes; an Apply cleans what it copies.     *)
THEOREM CleanInvariant == Spec => []Clean
<1>1. Init => Clean
    BY DEF Init, Clean
<1>2. Clean /\ [Next]_svars => Clean'
    <2>. SUFFICES ASSUME Clean, [Next]_svars, NEW f \in Fields, f \notin dirty'
                  PROVE  have'[f] = want'[f]
        BY DEF Clean
    <2>1. CASE Push
        <3>1. CASE f \in Inline
            BY <2>1, <3>1 DEF Push
        <3>2. CASE f \notin Inline
            BY <2>1, <3>2 DEF Push, Clean
        <3>. QED
            BY <3>1, <3>2
    <2>2. CASE \E g \in Fields : Apply(g)
        BY <2>2 DEF Apply, Clean
    <2>3. CASE UNCHANGED svars
        BY <2>3 DEF svars, Clean
    <2>. QED
        BY <2>1, <2>2, <2>3 DEF Next
<1>. QED
    BY <1>1, <1>2, PTL DEF Spec

(* Hence, once nothing is owed, the components follow the configuration.  *)
THEOREM SettledHolds == Spec => []Settled
<1>1. Clean => Settled
    BY DEF Clean, Settled
<1>. QED
    BY <1>1, CleanInvariant, PTL
====
