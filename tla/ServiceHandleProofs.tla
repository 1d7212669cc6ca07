------------------------- MODULE ServiceHandleProofs -------------------------
(***************************************************************************)
(* What every use of a service handle preserves, whoever composes its       *)
(* operations: nobody's write is lost, and a label operation that reads and *)
(* writes in two calls is one change of AtomicService.                     *)
(***************************************************************************)
EXTENDS ServiceHandle, TLAPS

ServiceStep == Create \/ Delete \/ Write \/ BeginSet \/ BeginRemove \/ Update

(* The service is in the cluster or it is not.                             *)
StoredOrGone == stored = Gone \/ stored.status = "stored"

(* Between Get and Update the handle holds what was read, with the change,  *)
(* and is not newer than the service; if it is as new, it is as complete.   *)
HoldsItsRead ==
  call # "idle" =>
    /\ stored.status = "stored"
    /\ handle.status = "stored"
    /\ handle.label = (call = "set")
    /\ handle.version <= stored.version
    /\ handle.version = stored.version => handle.foreign = stored.foreign

HandleInv == ServiceType /\ StoredOrGone /\ HoldsItsRead /\ NoWriteIsLost

LEMMA Kinds4 ==
  /\ Gone \in Object /\ Fresh \in Object /\ Sent \in Object /\ Empty \in Object
  /\ Gone.status = "gone" /\ Fresh.status = "stored"
  /\ Sent.status = "sent" /\ Empty.status = "empty"
  /\ Gone.label = FALSE /\ Gone.foreign = 0
  /\ Fresh.label = FALSE /\ Fresh.foreign = 0
BY DEF Gone, Fresh, Sent, Empty, Bare, Object

LEMMA HandleInvInit == NoService => HandleInv
BY Kinds4 DEF NoService, HandleInv, ServiceType, StoredOrGone, HoldsItsRead, NoWriteIsLost,
   Answers

LEMMA HandleInvStep ==
  HandleInv /\ (ServiceStep \/ UNCHANGED service) => HandleInv'
<1> SUFFICES ASSUME HandleInv, ServiceStep \/ UNCHANGED service PROVE HandleInv'
  OBVIOUS
<1> USE Kinds4
<1> USE DEF HandleInv, ServiceType, StoredOrGone, HoldsItsRead, NoWriteIsLost, Answers
<1>1. CASE Create
  BY <1>1 DEF Create
<1>2. CASE Delete
  BY <1>2 DEF Delete
<1>3. CASE Write
  <2>0. /\ stored.status = "stored" /\ stored \in Object
        /\ stored' = [stored EXCEPT !.version = @ + 1, !.foreign = @ + 1]
    BY <1>3 DEF Write
  <2>1. stored.status = "stored" /\ stored' \in Object /\ stored'.status = "stored"
    <3>1. stored.version + 1 \in Nat /\ stored.foreign + 1 \in Nat
      BY <2>0 DEF Object
    <3>2. stored' = [stored EXCEPT !.version = stored.version + 1, !.foreign = stored.foreign + 1]
      BY <2>0
    <3> QED
      BY <2>0, <3>1, <3>2 DEF Object
  <2>2. stored'.version = stored.version + 1 /\ stored'.foreign = writes + 1
    BY <1>3, <2>1, Kinds4 DEF Write, Object
  <2>3. /\ writes' = writes + 1 /\ handle' = handle /\ call' = call /\ err' = err
        /\ handle.version \in Nat /\ stored.version \in Nat /\ stored' # Gone
    BY <1>3, <2>1 DEF Write, Object
  <2>4. handle.version <= stored.version =>
          handle.version <= stored.version + 1 /\ handle.version # stored.version + 1
    BY <2>3
  <2> QED
    BY <2>1, <2>2, <2>3, <2>4
<1>4. CASE BeginSet
  <2>1. CASE Read([stored EXCEPT !.label = TRUE]) /\ call' = "set" /\ UNCHANGED <<err, stored, writes>>
    <3>1. /\ stored.status = "stored" /\ handle' \in Object /\ handle'.status = "stored"
          /\ handle'.label = TRUE /\ handle'.version = stored.version
          /\ handle'.foreign = stored.foreign /\ stored.version \in Nat
      BY <2>1 DEF Read, Object
    <3>2. (call' = "set") = TRUE
      BY <2>1
    <3>3. handle'.label = (call' = "set")
      BY <3>1, <3>2, Zenon
    <3>4. ServiceType' /\ StoredOrGone' /\ NoWriteIsLost'
      BY <2>1, <3>1
    <3>5. HoldsItsRead'
      <4>1. stored' = stored /\ stored.version <= stored.version
        BY <2>1, <3>1
      <4> QED
        BY <3>1, <3>3, <4>1, Zenon
    <3> QED
      BY <3>4, <3>5
  <2>2. CASE ReadFails /\ UNCHANGED <<stored, writes>>
    BY <1>4, <2>2 DEF BeginSet, ReadFails
  <2> QED
    BY <1>4, <2>1, <2>2 DEF BeginSet
<1>5. CASE BeginRemove
  <2>1. CASE /\ Read([stored EXCEPT !.label = FALSE]) /\ call' = "remove"
             /\ UNCHANGED <<err, stored, writes>>
    <3>1. /\ stored.status = "stored" /\ handle' \in Object /\ handle'.status = "stored"
          /\ handle'.label = FALSE /\ handle'.version = stored.version
          /\ handle'.foreign = stored.foreign /\ stored.version \in Nat
      BY <2>1 DEF Read, Object
    <3>2. (call' = "set") = FALSE
      BY <2>1
    <3>3. handle'.label = (call' = "set")
      BY <3>1, <3>2, Zenon
    <3>4. ServiceType' /\ StoredOrGone' /\ NoWriteIsLost'
      BY <2>1, <3>1
    <3>5. HoldsItsRead'
      <4>1. stored' = stored /\ stored.version <= stored.version
        BY <2>1, <3>1
      <4> QED
        BY <3>1, <3>3, <4>1, Zenon
    <3> QED
      BY <3>4, <3>5
  <2>2. CASE Read(stored) /\ err' = "error" /\ UNCHANGED <<call, stored, writes>>
    BY <1>5, <2>2 DEF BeginRemove, Read
  <2>3. CASE ReadFails /\ UNCHANGED <<stored, writes>>
    BY <1>5, <2>3 DEF BeginRemove, ReadFails
  <2> QED
    BY <1>5, <2>1, <2>2, <2>3 DEF BeginRemove
<1>6. CASE Update
  <2>1. call # "idle" /\ call' = "idle" /\ UNCHANGED <<handle, writes>>
    BY <1>6 DEF Update
  <2>2. CASE Accepted /\ stored' = [handle EXCEPT !.version = stored.version + 1] /\ err' \in Answers
    <3>1. stored' \in Object /\ stored'.status = "stored" /\ stored'.foreign = stored.foreign
      BY <2>1, <2>2 DEF Accepted, Object
    <3> QED
      BY <2>1, <2>2, <3>1
  <2>3. CASE Refused
    BY <2>1, <2>3 DEF Refused
  <2> QED
    BY <1>6, <2>2, <2>3 DEF Update
<1>7. CASE UNCHANGED service
  BY <1>7 DEF service
<1> QED
  BY <1>1, <1>2, <1>3, <1>4, <1>5, <1>6, <1>7 DEF ServiceStep

-----------------------------------------------------------------------------
(***************************************************************************)
(* The refinement of AtomicService.                                        *)
(***************************************************************************)
View(s) == [exists |-> s # Gone, label |-> s.label, foreign |-> s.foreign]

LEMMA ViewOfGone == View(Gone) = Atomic!Gone
<1>1. (Gone # Gone) = FALSE
  OBVIOUS
<1> QED
  BY <1>1, Kinds4 DEF View, Atomic!Gone

LEMMA ViewOfFresh == View(Fresh) = Atomic!Fresh
<1>1. (Fresh # Gone) = TRUE
  BY Kinds4
<1> QED
  BY <1>1, Kinds4 DEF View, Atomic!Fresh

LEMMA ViewInit == NoService => Atomic!Init
BY ViewOfGone DEF NoService, View, Atomic!Init

LEMMA ViewStep ==
  HandleInv /\ (ServiceStep \/ UNCHANGED service)
    => [Atomic!Next]_<<View(stored), call, err>>
<1> SUFFICES ASSUME HandleInv, ServiceStep \/ UNCHANGED service
             PROVE  [Atomic!Next]_<<View(stored), call, err>>
  OBVIOUS
<1> USE ViewOfGone, ViewOfFresh, Kinds4
<1>1. CASE Create
  <2>1. Atomic!Create
    <3>1. call = "idle" /\ call' = call
      BY <1>1 DEF Create
    <3>2. CASE err' = "nil" /\ stored' = Fresh
      BY <3>1, <3>2 DEF Atomic!Create, View
    <3>3. CASE err' = "error" /\ stored' \in {Gone, Fresh}
      BY <3>1, <3>3 DEF Atomic!Create, View
    <3> QED
      BY <1>1, <3>2, <3>3 DEF Create, Answers
  <2> QED
    BY <2>1 DEF Atomic!Next
<1>2. CASE Delete
  <2>1. Atomic!Delete
    <3>1. call = "idle" /\ call' = call
      BY <1>2 DEF Delete
    <3>2. CASE err' = "nil" /\ stored' = Gone
      BY <3>1, <3>2 DEF Atomic!Delete, Atomic!Answer, View
    <3>3. CASE err' = "error" /\ stored' \in {Gone, stored}
      BY <3>1, <3>3 DEF Atomic!Delete, Atomic!Answer, View
    <3> QED
      BY <1>2, <3>2, <3>3 DEF Delete
  <2> QED
    BY <2>1 DEF Atomic!Next
<1>3. CASE Write
  <2>1. /\ stored # Gone /\ stored.status = "stored" /\ stored \in Object
        /\ stored' = [stored EXCEPT !.version = @ + 1, !.foreign = @ + 1]
        /\ UNCHANGED <<call, err>>
    BY <1>3 DEF Write, HandleInv, ServiceType, StoredOrGone
  <2>2. stored'.status = "stored" /\ stored'.label = stored.label /\ stored'.foreign = stored.foreign + 1
    BY <2>1 DEF Object
  <2>3. stored' # Gone
    BY <2>2
  <2>4. View(stored).exists /\ ~Atomic!Gone.exists
    BY <2>1 DEF View, Atomic!Gone
  <2>5. View(stored)' = [View(stored) EXCEPT !.foreign = @ + 1]
    BY <2>1, <2>2, <2>3 DEF View
  <2>6. Atomic!Write
    BY <2>1, <2>4, <2>5 DEF Atomic!Write, View
  <2> QED
    BY <2>6 DEF Atomic!Next
<1>4. CASE BeginSet
  <2>1. Atomic!Ask
    BY <1>4 DEF BeginSet, Read, ReadFails, Atomic!Ask, View
  <2> QED
    BY <2>1 DEF Atomic!Next
<1>5. CASE BeginRemove
  <2>1. Atomic!Ask
    BY <1>5 DEF BeginRemove, Read, ReadFails, Atomic!Ask, View
  <2> QED
    BY <2>1 DEF Atomic!Next
<1>6. CASE Update
  <2> DEFINE effect == [View(stored) EXCEPT !.label = (call = "set")]
  <2>1. call # "idle" /\ call' = "idle"
    BY <1>6 DEF Update
  <2>2. CASE /\ Accepted /\ stored' = [handle EXCEPT !.version = stored.version + 1]
             /\ err' \in Answers
    <3>1. /\ stored \in Object /\ handle \in Object /\ stored.status = "stored"
          /\ handle.status = "stored" /\ handle.label = (call = "set")
          /\ handle.foreign = stored.foreign
      BY <2>1, <2>2 DEF HandleInv, ServiceType, HoldsItsRead, Accepted
    <3>2. /\ stored'.status = "stored" /\ stored'.label = handle.label
          /\ stored'.foreign = stored.foreign
      BY <2>2, <3>1 DEF Object
    <3>3. stored # Gone /\ stored' # Gone
      BY <3>1, <3>2
    <3>4. View(stored)' = effect
      BY <3>1, <3>2, <3>3 DEF View
    <3> QED
      BY <2>1, <2>2, <3>4 DEF Atomic!Next, Atomic!Relabel, Atomic!Answer, Answers, View
  <2>3. CASE Refused
    BY <2>1, <2>3 DEF Refused, Atomic!Next, Atomic!Relabel, Atomic!Answer, View
  <2> QED
    BY <1>6, <2>2, <2>3 DEF Update
<1>7. CASE UNCHANGED service
  BY <1>7 DEF service, View
<1> QED
  BY <1>1, <1>2, <1>3, <1>4, <1>5, <1>6, <1>7 DEF ServiceStep
=============================================================================
