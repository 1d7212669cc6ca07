---------------------------- MODULE ServiceHandle ----------------------------
(***************************************************************************)
(* The handle of one service: Create, Delete, GetClusterIP, SetLabel and    *)
(* RemoveLabel of pkg/entities/kubernetes/service.go.                       *)
(*                                                                         *)
(* A label is changed in two calls of the API, with whatever others write   *)
(* to the service in between: Get, which replaces the object in the handle, *)
(* and Update, which the server refuses when the service has a newer        *)
(* version by now.  Every call may fail, before or after it took effect.    *)
(***************************************************************************)
EXTENDS Naturals

CONSTANT MaxWrites   \* bound: what others write to a service

ASSUME MaxWritesAssumption == MaxWrites \in Nat

VARIABLES
  stored,  \* the service in the cluster
  handle,  \* s.service: as it was sent, as it was read and edited, or empty
  call,    \* the label operation that is between its Get and its Update
  err,     \* the error of the last call
  writes   \* history: what others wrote to this service

service == <<stored, handle, call, err, writes>>

(* An object of the API: its version, the label, and how many of the others'*)
(* writes it has.                                                          *)
Object == [status : {"gone", "sent", "empty", "stored"},
           version : Nat, label : BOOLEAN, foreign : Nat]

Bare(status) == [status |-> status, version |-> 0, label |-> FALSE, foreign |-> 0]

Gone  == Bare("gone")    \* no service in the cluster
Fresh == Bare("stored")  \* a new one
Sent  == Bare("sent")    \* what Create was called with
Empty == Bare("empty")   \* what a Get that failed returns

Answers == {"nil", "error"}

ServiceType ==
  /\ stored \in Object
  /\ handle \in Object
  /\ call \in {"idle", "set", "remove"}
  /\ err \in Answers
  /\ writes \in Nat

NoService ==
  /\ stored = Gone
  /\ handle = Sent
  /\ call = "idle"
  /\ err = "nil"
  /\ writes = 0

-----------------------------------------------------------------------------
(* The created object is returned, and not kept.                           *)
Create ==
  /\ call = "idle"
  /\ err' \in Answers
  /\ stored' \in (IF err' = "nil" THEN {Fresh} ELSE {Gone, Fresh})
  /\ handle' = Sent
  /\ writes' = 0
  /\ UNCHANGED call

(* By name, which an empty object does not have.                           *)
Delete ==
  /\ call = "idle"
  /\ \/ err' = "nil" /\ stored # Gone /\ handle # Empty /\ stored' = Gone
     \/ err' = "error" /\ stored' \in (IF handle = Empty THEN {stored} ELSE {Gone, stored})
  /\ UNCHANGED <<handle, call, writes>>

(* The service controllers, kubectl: any other writer of the object.       *)
Write ==
  /\ stored # Gone
  /\ writes < MaxWrites
  /\ writes' = writes + 1
  /\ stored' = [stored EXCEPT !.version = @ + 1, !.foreign = @ + 1]
  /\ UNCHANGED <<handle, call, err>>

(* Get: the handle is overwritten before the error is looked at.           *)
Read(edited) ==
  /\ stored # Gone
  /\ handle # Empty
  /\ handle' = edited

ReadFails == handle' = Empty /\ err' = "error" /\ UNCHANGED call

(* SetLabel up to its Update.                                              *)
BeginSet ==
  /\ call = "idle"
  /\ \/ Read([stored EXCEPT !.label = TRUE]) /\ call' = "set" /\ UNCHANGED err
     \/ ReadFails
  /\ UNCHANGED <<stored, writes>>

(* RemoveLabel up to its Update: ErrLabelNotFound.                         *)
BeginRemove ==
  /\ call = "idle"
  /\ \/ /\ stored.label
        /\ Read([stored EXCEPT !.label = FALSE])
        /\ call' = "remove"
        /\ UNCHANGED err
     \/ /\ ~stored.label
        /\ Read(stored)
        /\ err' = "error"
        /\ UNCHANGED call
     \/ ReadFails
  /\ UNCHANGED <<stored, writes>>

(* Mutant of Accepted: an object built anew, which carries no version.      *)
AcceptedUnversioned == TRUE

(* The version that was read is still the one that is stored.              *)
Accepted == handle.version = stored.version

Refused == err' = "error" /\ UNCHANGED stored

(* The result of Update is dropped: the handle keeps what was sent.        *)
Update ==
  /\ call # "idle"
  /\ call' = "idle"
  /\ \/ /\ Accepted
        /\ stored' = [handle EXCEPT !.version = stored.version + 1]
        /\ err' \in Answers
     \/ Refused
  /\ UNCHANGED <<handle, writes>>

-----------------------------------------------------------------------------
(* What others wrote to the service is never undone by a change of its      *)
(* label, although the label is written together with all of the object     *)
(* (service.go:100-137).                                                   *)
NoWriteIsLost == stored # Gone => stored.foreign = writes

Atomic == INSTANCE AtomicService WITH
  object <- [exists |-> stored # Gone, label |-> stored.label,
             foreign |-> stored.foreign],
  asked <- call

(* SetLabel and RemoveLabel, in two calls among the writes of others, are   *)
(* the change at one moment of AtomicService.                              *)
AtomicSpec == Atomic!Spec
=============================================================================
