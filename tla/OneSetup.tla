------------------------------ MODULE OneSetup ------------------------------
(***************************************************************************)
(* The life of a Setup as the promise has it: it comes to one outcome, of   *)
(* those promised to its caller, and that is final, whatever the namespace  *)
(* does afterwards.                                                        *)
(***************************************************************************)
EXTENDS SetupPromise

VARIABLES caller, outcome

Undecided == [there |-> FALSE, address |-> "none", reported |-> FALSE, end |-> "running"]

Init == outcome = Undecided

ComeToAnEnd ==
  /\ outcome = Undecided
  /\ outcome' \in Promised(caller)
  /\ UNCHANGED caller

Spec == Init /\ [][ComeToAnEnd]_<<caller, outcome>>
=============================================================================
