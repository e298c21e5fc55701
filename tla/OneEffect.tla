------------------------------ MODULE OneEffect ------------------------------
(***************************************************************************)
(* What a delivery queue promises of an effect outside the database: a     *)
(* message the provider accepts.  The caller asks for it, the provider     *)
(* performs it or refuses it, and the answer may be lost.  The promise is  *)
(* that what is performed is performed once, that nothing is asked again   *)
(* while its outcome is in doubt, and that "done" is never said of an      *)
(* effect that did not happen.                                             *)
(***************************************************************************)
EXTENDS Naturals

CONSTANT Item

VARIABLES
    phase,      \* what the queue knows of each item
    effects     \* how often the effect of an item has happened

vars == <<phase, effects>>

Phase == {"open", "asked", "done", "doubt"}

TypeOK ==
    /\ phase \in [Item -> Phase]
    /\ effects \in [Item -> {0, 1}]

Init ==
    /\ phase = [i \in Item |-> "open"]
    /\ effects = [i \in Item |-> 0]

Become(i, p) == phase' = [phase EXCEPT ![i] = p]

Ask(i) ==
    /\ phase[i] = "open"
    /\ Become(i, "asked")
    /\ UNCHANGED effects

Happen(i) ==
    /\ phase[i] = "asked"
    /\ effects[i] = 0
    /\ effects' = [effects EXCEPT ![i] = 1]
    /\ UNCHANGED phase

\* The provider has said no: the item may be asked again.
Refuse(i) ==
    /\ phase[i] = "asked"
    /\ effects[i] = 0
    /\ Become(i, "open")
    /\ UNCHANGED effects

\* The outcome cannot be told, or nobody is left to tell it.
Doubt(i) ==
    /\ phase[i] = "asked"
    /\ Become(i, "doubt")
    /\ UNCHANGED effects

Confirm(i) ==
    /\ phase[i] \in {"asked", "doubt"}
    /\ effects[i] = 1
    /\ Become(i, "done")
    /\ UNCHANGED effects

\* Somebody found out that it did not happen.
Reopen(i) ==
    /\ phase[i] = "doubt"
    /\ effects[i] = 0
    /\ Become(i, "open")
    /\ UNCHANGED effects

Next == \E i \in Item :
    Ask(i) \/ Happen(i) \/ Refuse(i) \/ Doubt(i) \/ Confirm(i) \/ Reopen(i)

Spec == Init /\ [][Next]_vars

=============================================================================
