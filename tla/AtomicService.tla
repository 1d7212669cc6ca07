---------------------------- MODULE AtomicService ----------------------------
(***************************************************************************)
(* What a user of the service handle may rely on: a change of the label     *)
(* that was asked for happens at one moment, changes nothing but the label, *)
(* and is answered without an error only if it happened.  With an error it  *)
(* may have happened or not.  Others write to the service at any time.      *)
(***************************************************************************)
EXTENDS Naturals

VARIABLES
  object,  \* the service in the cluster: its label, and what others wrote
  asked,   \* the change of the label that has no answer yet
  err      \* the last answer

Gone  == [exists |-> FALSE, label |-> FALSE, foreign |-> 0]
Fresh == [exists |-> TRUE,  label |-> FALSE, foreign |-> 0]

Init == object = Gone /\ asked = "idle" /\ err = "nil"

(* After an error the call may have had its effect all the same.           *)
Answer(effect) ==
  \/ err' = "nil" /\ object' = effect
  \/ err' = "error" /\ object' \in {object, effect}

(* A new service, under a new name: from now on the handle speaks of this.  *)
Create ==
  /\ asked = "idle" /\ UNCHANGED asked
  /\ \/ err' = "nil" /\ object' = Fresh
     \/ err' = "error" /\ object' \in {Gone, Fresh}

Delete == asked = "idle" /\ Answer(Gone) /\ UNCHANGED asked

Ask ==
  /\ asked = "idle"
  /\ \/ asked' \in {"set", "remove"} /\ UNCHANGED err
     \/ err' = "error" /\ UNCHANGED asked
  /\ UNCHANGED object

Relabel ==
  /\ asked # "idle"
  /\ asked' = "idle"
  /\ Answer([object EXCEPT !.label = (asked = "set")])

Write ==
  /\ object # Gone
  /\ object' = [object EXCEPT !.foreign = @ + 1]
  /\ UNCHANGED <<asked, err>>

Next == Create \/ Delete \/ Ask \/ Relabel \/ Write

Spec == Init /\ [][Next]_<<object, asked, err>>
=============================================================================
