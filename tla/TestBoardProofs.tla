-------------------------- MODULE TestBoardProofs --------------------------
(***************************************************************************)
(* Proofs about the features over the pods they share, for every list of    *)
(* pods that Setup may leave and any number of foreign writes.  The lists   *)
(* themselves are the lemmas of ClusterModelProofs, the service handle those *)
(* of ServiceHandleProofs; here is the order in which the features use them. *)
(***************************************************************************)
EXTENDS TestBoard, ClusterModelProofs, ServiceHandleProofs

-----------------------------------------------------------------------------
(***************************************************************************)
(* The features in their test functions.                                   *)
(***************************************************************************)
AtPlace == at \in (1 .. Len(Suite)) \X (1 .. 6) /\ at[2] \in DOMAIN Suite[at[1]]

Placed(i, j, f) == at[1] = i /\ at[2] = j /\ Now = f

LEMMA Places ==
  AtPlace =>
    \/ Placed(1, 1, "Bandwidth")
    \/ Placed(2, 1, "ClusterIP") \/ Placed(2, 2, "NodePort") \/ Placed(2, 3, "LoadBalancer")
    \/ Placed(2, 4, "EndlessService") \/ Placed(2, 5, "Hairpin")
    \/ Placed(2, 6, "SessionAffinity")
    \/ Placed(3, 1, "NodePortLocal") \/ Placed(3, 2, "ExternalName")
    \/ Placed(4, 1, "PerfTesting")
    \/ Placed(5, 1, "HostNetwork")
    \/ Placed(6, 1, "ProxyNameLabel") \/ Placed(6, 2, "HeadlessLabel")
<1> SUFFICES ASSUME AtPlace PROVE
    \/ Placed(1, 1, "Bandwidth")
    \/ Placed(2, 1, "ClusterIP") \/ Placed(2, 2, "NodePort") \/ Placed(2, 3, "LoadBalancer")
    \/ Placed(2, 4, "EndlessService") \/ Placed(2, 5, "Hairpin")
    \/ Placed(2, 6, "SessionAffinity")
    \/ Placed(3, 1, "NodePortLocal") \/ Placed(3, 2, "ExternalName")
    \/ Placed(4, 1, "PerfTesting")
    \/ Placed(5, 1, "HostNetwork")
    \/ Placed(6, 1, "ProxyNameLabel") \/ Placed(6, 2, "HeadlessLabel")
  OBVIOUS
<1>1. at[1] \in 1 .. 6 /\ at[2] \in DOMAIN Suite[at[1]] /\ at[2] \in 1 .. 6
  BY DEF AtPlace, Suite
<1>2. CASE at[1] = 1
  BY <1>1, <1>2 DEF Suite, Now, Placed
<1>3. CASE at[1] = 2
  BY <1>1, <1>3 DEF Suite, Now, Placed
<1>4. CASE at[1] = 3
  BY <1>1, <1>4 DEF Suite, Now, Placed
<1>5. CASE at[1] = 4
  BY <1>1, <1>5 DEF Suite, Now, Placed
<1>6. CASE at[1] = 5
  BY <1>1, <1>6 DEF Suite, Now, Placed
<1>7. CASE at[1] = 6
  BY <1>1, <1>7 DEF Suite, Now, Placed
<1> QED
  BY <1>1, <1>2, <1>3, <1>4, <1>5, <1>6, <1>7

(* Which features the functions have that take a slice of the pods, and     *)
(* which one is the first, and which the last of its function.              *)
LEMMA FeatureFacts ==
  AtPlace =>
    /\ Now \in Feature
    /\ Now = "Bandwidth" <=> at = <<1, 1>>
    /\ Now \in {"Bandwidth", "PerfTesting", "HostNetwork"} <=> at[1] \notin TakesPods
    /\ Now = "SessionAffinity" => at[2] = Len(Suite[at[1]])
<1> SUFFICES ASSUME AtPlace
             PROVE  /\ Now \in Feature
                    /\ Now = "Bandwidth" <=> at[1] = 1 /\ at[2] = 1
                    /\ Now \in {"Bandwidth", "PerfTesting", "HostNetwork"}
                         <=> at[1] \notin TakesPods
                    /\ Now = "SessionAffinity" => at[2] = Len(Suite[at[1]])
  BY DEF AtPlace
<1>1. Now = "SessionAffinity" => at[2] = Len(Suite[at[1]])
  <2>1. Len(Suite[2]) = 6
    BY DEF Suite
  <2>2. Now = "SessionAffinity" => at[1] = 2 /\ at[2] = 6
    BY Places DEF Placed
  <2> QED
    BY <2>1, <2>2
<1>2. /\ Now \in Feature
      /\ Now = "Bandwidth" <=> at[1] = 1 /\ at[2] = 1
  BY Places DEF Placed, Feature
<1>3. Now \in {"Bandwidth", "PerfTesting", "HostNetwork"} <=> at[1] \notin TakesPods
  BY Places DEF Placed, TakesPods
<1> QED
  BY <1>1, <1>2, <1>3

LEMMA BandwidthIsFirst ==
  ASSUME NEW i \in 1 .. 6, NEW j \in DOMAIN Suite[i], Suite[i][j] = "Bandwidth"
  PROVE  i = 1 /\ j = 1
BY DEF Suite

(* The next feature is not the first one; it is the first of its function,  *)
(* or the function did not end.                                            *)
LEMMA LeaveFacts ==
  AtPlace /\ (Leave \/ NextFunction) =>
    /\ AtPlace'
    /\ pc' \in {"begin", "over"}
    /\ pc' = "over" => at' = at
    /\ pc' = "begin" => /\ Now' # "Bandwidth"
                        /\ \/ at'[2] = 1
                           \/ Leave /\ at'[1] = at[1] /\ at[2] < Len(Suite[at[1]])
<1> SUFFICES ASSUME AtPlace, Leave \/ NextFunction
             PROVE  /\ AtPlace'
                    /\ pc' \in {"begin", "over"}
                    /\ pc' = "over" => at' = at
                    /\ pc' = "begin" =>
                         /\ Now' # "Bandwidth"
                         /\ \/ at'[2] = 1
                            \/ Leave /\ at'[1] = at[1] /\ at[2] < Len(Suite[at[1]])
  OBVIOUS
<1>1. /\ at[1] \in 1 .. 6 /\ at[2] \in 1 .. Len(Suite[at[1]]) /\ Len(Suite) = 6
      /\ \A i \in 1 .. 6 : /\ Len(Suite[i]) \in 1 .. 6
                           /\ DOMAIN Suite[i] = 1 .. Len(Suite[i])
  BY DEF AtPlace, Suite
<1>2. CASE at[2] < Len(Suite[at[1]]) /\ Leave
  <2>1. at' = <<at[1], at[2] + 1>> /\ pc' = "begin"
    BY <1>2 DEF Leave
  <2>2. at[2] + 1 \in 1 .. Len(Suite[at[1]]) /\ at[2] + 1 \in 1 .. 6 /\ at[2] + 1 # 1
    <3> DEFINE last == Len(Suite[at[1]])
    <3>1. last \in 1 .. 6 /\ at[2] \in 1 .. last /\ at[2] < last
      BY <1>1, <1>2
    <3> HIDE DEF last
    <3>2. at[2] + 1 \in 1 .. last /\ at[2] + 1 \in 1 .. 6 /\ at[2] + 1 # 1
      BY <3>1
    <3> QED
      BY <3>2 DEF last
  <2>3. at'[1] = at[1] /\ at'[2] = at[2] + 1
    BY <2>1
  <2>4. AtPlace'
    BY <1>1, <2>1, <2>2 DEF AtPlace
  <2> QED
    BY <1>1, <1>2, <2>1, <2>2, <2>3, <2>4, BandwidthIsFirst DEF Now
<1>3. CASE NextFunction
  <2>1. CASE at[1] < 6
    <3>1. at' = <<at[1] + 1, 1>> /\ pc' = "begin" /\ at[1] + 1 \in 1 .. 6 /\ at[1] + 1 # 1
      BY <1>1, <1>3, <2>1 DEF NextFunction
    <3> QED
      BY <1>1, <3>1, BandwidthIsFirst DEF AtPlace, Now
  <2>2. CASE ~(at[1] < 6)
    BY <1>1, <1>3, <2>2 DEF NextFunction, GoTo, AtPlace
  <2> QED
    BY <2>1, <2>2
<1> QED
  BY <1>2, <1>3 DEF Leave

(* Where in its features a test may be.                                    *)
Phase == {"begin", "addPods", "waitPods", "pending", "serve", "assess", "validate",
          "validateUp", "setLabel", "validateDown", "removeLabel", "waitAgain",
          "validateAgain", "remove", "delete", "over", "dead"}

Toggling == {"validateUp", "setLabel", "validateDown", "removeLabel", "waitAgain",
             "validateAgain"}

Serviceless == {"Bandwidth", "PerfTesting", "HostNetwork"}

Control ==
  /\ AtPlace
  /\ pc \in Phase
  /\ pc \in {"waitPods", "pending"} => Now = "Bandwidth"
  /\ pc \in Toggling => Now \in Label
  /\ pc = "validate" => Now \notin Label
  /\ pc = "serve" => Now \notin Serviceless
  /\ pc = "delete" => Now # "Bandwidth"

Departs == Leave \/ NextFunction

Stays == at' = at

LEMMA StaysFacts == Stays => Now' = Now /\ (AtPlace => AtPlace')
BY DEF Stays, Now, AtPlace

LEMMA ControlStep ==
  Control /\ [Next]_vars => Control'
<1> SUFFICES ASSUME Control, [Next]_vars PROVE Control'
  OBVIOUS
<1> DEFINE Ok == /\ pc' \in Phase
                 /\ pc' \in {"waitPods", "pending"} => Now = "Bandwidth"
                 /\ pc' \in Toggling => Now \in Label
                 /\ pc' = "validate" => Now \notin Label
                 /\ pc' = "serve" => Now \notin Serviceless
                 /\ pc' = "delete" => Now # "Bandwidth"
<1>1. ASSUME Departs PROVE Control'
  BY <1>1, LeaveFacts DEF Control, Departs, Phase, Toggling
<1>2. ASSUME Stays, Ok PROVE Control'
  BY <1>2, StaysFacts DEF Control
<1>3. Departs \/ (Stays /\ Ok)
  <2> USE DEF Departs, Stays, Phase, Toggling, Serviceless, GoTo, Fatal, FatalHere, Control
  <2>1. CASE Begin
    BY <2>1 DEF Begin
  <2>2. CASE AddNewPod
    BY <2>2 DEF AddNewPod
  <2>3. CASE StartIPerf
    BY <2>3 DEF StartIPerf
  <2>4. CASE WaitForIPerf
    BY <2>4 DEF WaitForIPerf
  <2>5. CASE DropPending
    BY <2>5 DEF DropPending
  <2>6. CASE PodsAdded
    BY <2>6 DEF PodsAdded
  <2>7. CASE ServePod
    BY <2>7 DEF ServePod
  <2>8. CASE Served
    BY <2>8 DEF Served
  <2>9. CASE ServeTemplate
    BY <2>9 DEF ServeTemplate
  <2>10. CASE ServeLocal
    BY <2>10 DEF ServeLocal
  <2>11. CASE ServeToggled
    BY <2>11 DEF ServeToggled
  <2>12. CASE Assess
    BY <2>12 DEF Assess
  <2>13. CASE Validate
    BY <2>13 DEF Validate
  <2>14. CASE AskForLabel
    BY <2>14 DEF AskForLabel, MustOrFatal
  <2>15. CASE SetLabel
    BY <2>15 DEF SetLabel, MustOrFatal
  <2>16. CASE AskForRemoval
    BY <2>16 DEF AskForRemoval, MustOrFatal
  <2>17. CASE RemoveLabel
    BY <2>17 DEF RemoveLabel, MustOrFatal
  <2>18. CASE WaitAgain
    BY <2>18 DEF WaitAgain
  <2>19. CASE ValidateAgain
    BY <2>19 DEF ValidateAgain
  <2>20. CASE OthersWrite
    BY <2>20 DEF OthersWrite
  <2>21. CASE RemoveAddedPod
    BY <2>21 DEF RemoveAddedPod
  <2>22. CASE RemoveIPerf
    BY <2>22 DEF RemoveIPerf
  <2>23. CASE PodsRemoved
    BY <2>23 DEF PodsRemoved
  <2>24. CASE DeleteService
    BY <2>24 DEF DeleteService, StopDeleting
  <2>25. CASE DeleteToggled
    BY <2>25 DEF DeleteToggled, StopDeleting
  <2>26. CASE EndFeature
    BY <2>26 DEF EndFeature
  <2>27. CASE Terminated \/ UNCHANGED vars
    BY <2>27 DEF Terminated, vars
  <2> QED
    BY <2>1, <2>2, <2>3, <2>4, <2>5, <2>6, <2>7, <2>8, <2>9, <2>10, <2>11, <2>12, <2>13,
       <2>14, <2>15, <2>16, <2>17, <2>18, <2>19, <2>20, <2>21, <2>22, <2>23, <2>24, <2>25,
       <2>26, <2>27 DEF Next
<1> QED
  BY <1>1, <1>2, <1>3

-----------------------------------------------------------------------------
(***************************************************************************)
(* The service whose label is changed.                                     *)
(***************************************************************************)
LEMMA ServiceStepsOnly == [Next]_vars => ServiceStep \/ UNCHANGED service
BY DEF Next, vars, services, board, ServiceStep,
   Begin, AddNewPod, StartIPerf, WaitForIPerf, DropPending, PodsAdded, ServePod, Served,
   ServeTemplate, ServeLocal, ServeToggled, Assess, Validate, AskForLabel, SetLabel,
   AskForRemoval, RemoveLabel, WaitAgain, ValidateAgain, OthersWrite, RemoveAddedPod,
   RemoveIPerf, PodsRemoved, DeleteService, DeleteToggled, EndFeature, Terminated

(* The handle of the labelled service, whatever the features do with it     *)
(* (service.go:100-137).                                                   *)
THEOREM HandleHolds == Spec => []HandleInv
<1>1. Init => HandleInv
  BY HandleInvInit DEF Init
<1>2. HandleInv /\ [Next]_vars => HandleInv'
  BY HandleInvStep, ServiceStepsOnly
<1> QED
  BY <1>1, <1>2, PTL DEF Spec

(* What others wrote to the service is not undone by SetLabel and           *)
(* RemoveLabel, which write all of the object (service.go:100-137).         *)
THEOREM OthersWritesSurvive == Spec => []NoWriteIsLost
<1>1. HandleInv => NoWriteIsLost
  BY DEF HandleInv
<1> QED
  BY <1>1, HandleHolds, PTL

(* SetLabel and RemoveLabel, each in two calls of the API between which      *)
(* others write, are the change at one moment of AtomicService: it is        *)
(* answered without an error only if it happened.                          *)
THEOREM LabelsAreAtomic == Spec => AtomicSpec
<1>1. Init => Atomic!Init
  BY ViewInit DEF Init
<1>2. HandleInv /\ [Next]_vars => [Atomic!Next]_<<View(stored), call, err>>
  BY ViewStep, ServiceStepsOnly
<1> QED
  BY <1>1, <1>2, HandleHolds, PTL DEF Spec, AtomicSpec, Atomic!Spec, View

(* Where in its features a label test is says what the label is.            *)
Labelled(value) == stored.status = "stored" /\ stored.label = value

LabelInv ==
  /\ pc = "assess" /\ Now \in Label => Labelled(FALSE)
  /\ pc \in {"validateUp", "waitAgain", "validateAgain"} => Labelled(FALSE)
  /\ pc = "validateDown" => Labelled(TRUE)
  /\ call = CASE pc = "setLabel"    -> "set"
              [] pc = "removeLabel" -> "remove"
              [] OTHER              -> "idle"

(* What the operations of the handle do to the label.                      *)
LEMMA UpdateFacts ==
  ASSUME HandleInv, Update, err' # "error"
  PROVE  stored'.status = "stored" /\ stored'.label = (call = "set")
<1>1. /\ call # "idle" /\ call' = "idle"
      /\ stored' = [handle EXCEPT !.version = stored.version + 1]
  BY DEF Update, Refused
<1>2. handle \in Object /\ handle.status = "stored" /\ handle.label = (call = "set")
  BY <1>1 DEF HandleInv, ServiceType, HoldsItsRead
<1>3. stored'.status = handle.status /\ stored'.label = handle.label
  BY <1>1, <1>2 DEF Object
<1> QED
  BY <1>2, <1>3

LEMMA WriteFacts ==
  ASSUME HandleInv, Write
  PROVE  /\ call' = call
         /\ stored.status = "stored" /\ stored'.status = "stored"
         /\ stored'.label = stored.label
<1>1. stored \in Object /\ stored.status = "stored"
  BY DEF HandleInv, ServiceType, StoredOrGone, Write
<1>2. call' = call /\ stored' = [stored EXCEPT !.version = @ + 1, !.foreign = @ + 1]
  BY DEF Write
<1> QED
  BY <1>1, <1>2 DEF Object

(* A request that did not get to its Update ended in an error.              *)
LEMMA BeginFacts ==
  /\ BeginSet => /\ stored' = stored
                 /\ call' = "set" \/ (call' = "idle" /\ err' = "error")
  /\ BeginRemove => /\ stored' = stored
                    /\ call' = "remove" \/ (call' = "idle" /\ err' = "error")
BY DEF BeginSet, BeginRemove, Read, ReadFails

LEMMA LabelInvStep ==
  Control /\ HandleInv /\ LabelInv /\ [Next]_vars => LabelInv'
<1> SUFFICES ASSUME Control, HandleInv, LabelInv, [Next]_vars PROVE LabelInv'
  OBVIOUS
<1> USE DEF LabelInv
<1>1. ASSUME Departs, UNCHANGED call, call = "idle" PROVE LabelInv'
  <2>1. pc' \in {"begin", "over"}
    BY <1>1, LeaveFacts DEF Control, Departs
  <2> QED
    BY <1>1, <2>1
<1>2. ASSUME Stays, call' = "idle",
             pc' \in {"begin", "addPods", "waitPods", "pending", "serve", "validate",
                      "remove", "delete", "over", "dead"}
      PROVE  LabelInv'
  BY <1>2
<1>3. CASE UNCHANGED <<stored, call>> /\ Stays /\ pc' = pc
  BY <1>3, StaysFacts DEF Labelled
<1>4. ASSUME UNCHANGED service,
             Departs \/ (Stays /\ pc' \in {"begin", "addPods", "waitPods", "pending", "serve",
                                           "validate", "remove", "delete", "over", "dead"}),
             pc \notin {"setLabel", "removeLabel"}
      PROVE  LabelInv'
  BY <1>1, <1>2, <1>4 DEF service
<1>5. CASE Begin
  BY <1>4, <1>5 DEF Begin, Departs, Stays, GoTo
<1>6. CASE AddNewPod \/ StartIPerf \/ WaitForIPerf \/ DropPending
  BY <1>4, <1>6 DEF AddNewPod, StartIPerf, WaitForIPerf, DropPending, Departs, Stays, GoTo, Fatal,
     services
<1>7. CASE PodsAdded
  BY <1>7, StaysFacts DEF PodsAdded, services, service, GoTo, Stays, Label
<1>8. CASE ServePod
  BY <1>4, <1>8 DEF ServePod, GoTo, Stays
<1>9. CASE Served \/ ServeTemplate \/ ServeLocal
  BY <1>9, StaysFacts DEF Served, ServeTemplate, ServeLocal, services, service, GoTo, Stays,
     Label, PerPod, Template
<1>10. CASE ServeToggled
  <2>1. call = "idle" /\ call' = "idle" /\ (err' = "nil" => stored' = Fresh)
    BY <1>10 DEF ServeToggled, Create
  <2>2. CASE err' = "nil" /\ GoTo("assess")
    BY <2>1, <2>2, Kinds4 DEF GoTo, Labelled
  <2>5. err' \in Answers
    BY <1>10 DEF ServeToggled, Create
  <2>6. PICK o \in Promised("labels") :
          /\ err' = "error" => o.end = "fatal"
          /\ \/ o.end = "end" /\ GoTo("assess")
             \/ o.end = "fatal" /\ FatalHere
             \/ o.end = "panicked" /\ GoTo("dead")
    BY <1>10 DEF ServeToggled
  <2>3. CASE FatalHere
    BY <1>1, <2>1, <2>3 DEF FatalHere, Departs
  <2>4. CASE GoTo("dead")
    BY <1>2, <2>1, <2>4 DEF GoTo, Stays
  <2> QED
    BY <2>2, <2>3, <2>4, <2>5, <2>6 DEF Answers
<1>11. CASE Assess
  BY <1>11 DEF Assess, services, service, GoTo, Labelled
<1>12. CASE Validate
  BY <1>4, <1>12 DEF Validate, services, GoTo, Stays
<1>13. CASE AskForLabel
  <2>1. stored' = stored /\ (call' = "set" \/ (call' = "idle" /\ err' = "error"))
    BY <1>13, BeginFacts DEF AskForLabel
  <2>2. CASE call' = "set"
    BY <1>13, <2>1, <2>2 DEF AskForLabel, GoTo
  <2>3. CASE call' = "idle" /\ err' = "error"
    BY <1>2, <1>13, <2>3 DEF AskForLabel, GoTo, MustOrFatal, Stays
  <2> QED
    BY <2>1, <2>2, <2>3
<1>14. CASE SetLabel
  <2>1. call = "set" /\ call' = "idle"
    BY <1>14 DEF SetLabel, Update
  <2>2. CASE err' = "error"
    BY <1>2, <1>14, <2>1, <2>2 DEF SetLabel, GoTo, MustOrFatal, Stays
  <2>3. CASE err' # "error"
    <3>1. stored'.status = "stored" /\ stored'.label = TRUE
      BY <1>14, <2>1, <2>3, UpdateFacts DEF SetLabel
    <3> QED
      BY <1>14, <2>1, <2>3, <3>1 DEF SetLabel, GoTo, MustOrFatal, Labelled
  <2> QED
    BY <2>2, <2>3
<1>15. CASE AskForRemoval
  <2>1. stored' = stored /\ (call' = "remove" \/ (call' = "idle" /\ err' = "error"))
    BY <1>15, BeginFacts DEF AskForRemoval
  <2>2. CASE call' = "remove"
    BY <1>15, <2>1, <2>2 DEF AskForRemoval, GoTo
  <2>3. CASE call' = "idle" /\ err' = "error"
    BY <1>2, <1>15, <2>3 DEF AskForRemoval, GoTo, MustOrFatal, Stays
  <2> QED
    BY <2>1, <2>2, <2>3
<1>16. CASE RemoveLabel
  <2>1. call = "remove" /\ call' = "idle"
    BY <1>16 DEF RemoveLabel, Update
  <2>2. CASE err' = "error"
    BY <1>2, <1>16, <2>1, <2>2 DEF RemoveLabel, GoTo, MustOrFatal, Stays
  <2>3. CASE err' # "error"
    <3>1. stored'.status = "stored" /\ stored'.label = FALSE
      BY <1>16, <2>1, <2>3, UpdateFacts DEF RemoveLabel
    <3> QED
      BY <1>16, <2>1, <2>3, <3>1 DEF RemoveLabel, GoTo, MustOrFatal, Labelled
  <2> QED
    BY <2>2, <2>3
<1>17. CASE WaitAgain
  BY <1>17 DEF WaitAgain, GoTo, services, service, Labelled
<1>18. CASE ValidateAgain
  BY <1>4, <1>18 DEF ValidateAgain, GoTo, services, Stays
<1>19. CASE OthersWrite
  <2>1. /\ call' = call /\ stored'.status = "stored" /\ stored'.label = stored.label
        /\ stored.status = "stored"
    BY <1>19, WriteFacts DEF OthersWrite
  <2>2. pc' = pc /\ Stays
    BY <1>19 DEF OthersWrite, Stays
  <2> QED
    BY <2>1, <2>2, StaysFacts DEF Labelled
<1>20. CASE RemoveAddedPod \/ RemoveIPerf \/ PodsRemoved
  BY <1>4, <1>20 DEF RemoveAddedPod, RemoveIPerf, PodsRemoved, Departs, Stays, GoTo, Fatal, services
<1>21. CASE DeleteService \/ EndFeature
  BY <1>4, <1>21 DEF DeleteService, EndFeature, StopDeleting, Departs, Stays, Fatal, services
<1>22. CASE DeleteToggled
  BY <1>1, <1>22 DEF DeleteToggled, Delete, StopDeleting, Departs, Fatal
<1>23. CASE Terminated \/ UNCHANGED vars
  BY <1>3, <1>23 DEF Terminated, vars, services, service, Stays
<1> QED
  BY <1>5, <1>6, <1>7, <1>8, <1>9, <1>10, <1>11, <1>12, <1>13, <1>14, <1>15, <1>16, <1>17,
     <1>18, <1>19, <1>20, <1>21, <1>22, <1>23 DEF Next

(* A feature is only in phases that its closures have.                      *)
THEOREM ControlHolds == Spec => []Control
<1>1. Init => Control
  BY DEF Init, Control, AtPlace, Suite, Phase, Toggling
<1> QED
  BY <1>1, ControlStep, PTL DEF Spec

(* What the label is at each place of a label test (label_test.go).         *)
THEOREM LabelHolds == Spec => []LabelInv
<1>1. Init => LabelInv
  BY DEF Init, NoService, LabelInv
<1> QED
  BY <1>1, LabelInvStep, ControlHolds, HandleHolds, PTL DEF Spec

(* A validation of a label feature sees the label that its test says it      *)
(* does (label_test.go:72-101), whatever calls failed and whoever wrote.     *)
THEOREM LabelIsAsTested == Spec => []LabelFollowsTheTest
<1>1. LabelInv => LabelFollowsTheTest
  BY Kinds4 DEF LabelInv, Labelled, LabelFollowsTheTest
<1> QED
  BY <1>1, LabelHolds, PTL

-----------------------------------------------------------------------------
(***************************************************************************)
(* The pods of the model, of the cluster, and of the loops over them.       *)
(***************************************************************************)
LEMMA AddedFacts ==
  /\ Added("Bandwidth") = <<"iperf-1", "iperf-2">>
  /\ \A f \in Feature : Added(f) \in Seq(Pod)
  /\ \A f \in Feature \ {"Bandwidth"} : Elements(Added(f)) \intersect IPerf = {}
  /\ Elements(Added("Bandwidth")) = IPerf
  /\ ~HasDuplicates(Added("Bandwidth"))
<1>1. Added("Bandwidth") = <<"iperf-1", "iperf-2">>
  BY DEF Added
<1>2. /\ Elements(<<"iperf-1", "iperf-2">>) = IPerf
      /\ ~HasDuplicates(<<"iperf-1", "iperf-2">>)
  BY DEF Elements, HasDuplicates, IPerf
<1>3. ASSUME NEW f \in Feature
      PROVE  /\ Added(f) \in Seq(Pod)
             /\ f # "Bandwidth" => Elements(Added(f)) \intersect IPerf = {}
  <2> USE DEF Added, Elements, IPerf
  <2>0. /\ "iperf-1" \in Pod /\ "iperf-2" \in Pod /\ "paf-0" \in Pod /\ "paf-1" \in Pod
        /\ "per-1" \in Pod /\ "pod-5" \in Pod
    BY DEF Pod, Extra
  <2>1. CASE f = "Bandwidth"
    BY <2>0, <2>1
  <2>2. CASE f = "SessionAffinity"
    BY <2>0, <2>2
  <2>3. CASE f = "PerfTesting"
    BY <2>0, <2>3
  <2>4. CASE f = "HostNetwork"
    BY <2>0, <2>4
  <2>5. CASE f \notin {"Bandwidth", "SessionAffinity", "PerfTesting", "HostNetwork"}
    <3>1. Added(f) = <<>>
      BY <2>5
    <3> QED
      BY <3>1
  <2> QED
    BY <2>1, <2>2, <2>3, <2>4, <2>5
<1> QED
  BY <1>1, <1>2, <1>3

LEMMA HeadAndTail ==
  ASSUME NEW S, NEW list \in Seq(S), list # <<>>
  PROVE  /\ Head(list) \in S /\ Tail(list) \in Seq(S)
         /\ Head(list) \in Elements(list)
         /\ Elements(Tail(list)) \subseteq Elements(list)
<1>1. /\ Len(list) \in Nat /\ Len(list) >= 1 /\ DOMAIN list = 1 .. Len(list)
      /\ Head(list) = list[1] /\ 1 \in DOMAIN list
  OBVIOUS
<1>2. /\ Tail(list) \in Seq(S) /\ DOMAIN Tail(list) = 1 .. Len(list) - 1
      /\ \A i \in 1 .. Len(list) - 1 : Tail(list)[i] = list[i + 1] /\ i + 1 \in 1 .. Len(list)
  BY <1>1
<1> QED
  BY <1>1, <1>2 DEF Elements

Removing == {"SessionAffinity", "HostNetwork"}
Adding == Removing \union {"Bandwidth", "PerfTesting"}

(* What a loop has left of its pods.                                       *)
LoopInv ==
  /\ todo \in Seq(Pod)
  /\ pc = "addPods" /\ Now = "Bandwidth" => todo = Added("Bandwidth")
  /\ pc \in {"addPods", "remove"} /\ Now # "Bandwidth" => Elements(todo) \intersect IPerf = {}
  /\ pc = "addPods" /\ Now \notin Adding => todo = <<>>
  /\ pc = "remove" /\ Now \notin Removing => todo = <<>>
  /\ pc \in Toggling \union {"serve", "assess"} /\ Now \in Label => todo = <<>>

LEMMA LoopInvStep ==
  Control /\ ModelInv(Pod) /\ LoopInv /\ [Next]_vars => LoopInv'
<1> SUFFICES ASSUME Control, ModelInv(Pod), LoopInv, [Next]_vars PROVE LoopInv'
  OBVIOUS
<1> USE DEF LoopInv
<1>0. /\ Now \in Feature /\ <<>> \in Seq(Pod) /\ Elements(<<>>) = {}
      /\ Pods \in Seq(Pod) /\ todo \in Seq(Pod)
      /\ "Bandwidth" \notin Label
  BY FeatureFacts, ModelFacts DEF Control, Elements, Label
<1>1. ASSUME Departs, todo' \in Seq(Pod) PROVE LoopInv'
  <2>1. pc' \in {"begin", "over"}
    BY <1>1, LeaveFacts DEF Control, Departs
  <2> QED
    BY <1>1, <2>1 DEF Toggling
<1>2. ASSUME Stays, todo' \in Seq(Pod),
             pc' \in {"begin", "waitPods", "pending", "validate", "delete", "over", "dead"}
      PROVE  LoopInv'
  BY <1>2 DEF Toggling
<1>3. ASSUME Stays, todo' = <<>>, pc' # "addPods" PROVE LoopInv'
  BY <1>0, <1>3
<1>4. ASSUME Stays, todo' = todo, pc' = pc PROVE LoopInv'
  BY <1>4, StaysFacts
<1>5. CASE Begin
  <2>1. CASE todo' = <<>> /\ (GoTo("dead") \/ Leave)
    BY <1>0, <1>1, <1>2, <2>1 DEF GoTo, Stays, Departs
  <2>2. CASE todo' = Added(Now) /\ GoTo("addPods")
    <3>1. Now' = Now
      BY <2>2, StaysFacts DEF GoTo, Stays
    <3>2. /\ Added(Now) \in Seq(Pod)
          /\ Now # "Bandwidth" => Elements(Added(Now)) \intersect IPerf = {}
          /\ Now \notin Adding => Added(Now) = <<>>
      BY <1>0, AddedFacts DEF Added, Adding, Removing
    <3> QED
      BY <2>2, <3>1, <3>2 DEF GoTo, Toggling
  <2> QED
    BY <1>5, <2>1, <2>2 DEF Begin
<1>6. CASE AddNewPod
  <2>1. /\ Tail(todo) \in Seq(Pod) /\ Elements(Tail(todo)) \subseteq Elements(todo)
        /\ Elements(todo) \intersect IPerf = {} /\ Now # "Bandwidth"
        /\ pc = "addPods" /\ Now \in Adding
    BY <1>0, <1>6, HeadAndTail DEF AddNewPod
  <2>2. CASE todo' = Tail(todo) /\ UNCHANGED <<at, pc>>
    <3>1. Now' = Now /\ pc' = "addPods"
      BY <2>1, <2>2, StaysFacts DEF Stays
    <3> QED
      BY <2>1, <2>2, <3>1 DEF Toggling, Adding
  <2>3. CASE Fatal /\ UNCHANGED todo
    BY <1>0, <1>1, <2>3 DEF Fatal, Departs
  <2> QED
    BY <1>6, <2>2, <2>3 DEF AddNewPod
<1>7. CASE StartIPerf
  BY <1>0, <1>2, <1>7 DEF StartIPerf, GoTo, Stays
<1>8. CASE WaitForIPerf
  BY <1>2, <1>8 DEF WaitForIPerf, GoTo, Stays
<1>9. CASE DropPending
  BY <1>2, <1>4, <1>9 DEF DropPending, GoTo, Stays
<1>10. CASE PodsAdded
  <2>1. CASE Now \in PerPod
    <3>1. todo' = Pods /\ Stays /\ pc' \in {"assess", "serve"} /\ Now \notin Label
      BY <1>10, <2>1 DEF PodsAdded, GoTo, Stays, PerPod, Label
    <3> QED
      BY <1>0, <3>1, StaysFacts
  <2>2. CASE Now \notin PerPod
    BY <1>3, <1>10, <2>2 DEF PodsAdded, GoTo, Stays
  <2> QED
    BY <2>1, <2>2
<1>11. CASE ServePod
  <2>1. /\ todo' = Tail(todo) /\ Tail(todo) \in Seq(Pod) /\ Now \notin Label
        /\ Stays /\ pc' \in {"serve", "dead"}
    BY <1>0, <1>11, HeadAndTail DEF ServePod, GoTo, Stays, PerPod, Label
  <2> QED
    BY <2>1, StaysFacts
<1>12. CASE Served \/ ServeTemplate \/ ServeLocal
  <2>1. todo' = todo /\ Stays /\ pc' \in {"assess", "dead"} /\ Now \notin Label
    BY <1>12 DEF Served, ServeTemplate, ServeLocal, GoTo, Stays, PerPod, Template, Label
  <2> QED
    BY <2>1, StaysFacts
<1>13. CASE ServeToggled
  BY <1>1, <1>3, <1>13 DEF ServeToggled, FatalHere, Departs, GoTo, Stays
<1>14. CASE Assess
  <2>1. CASE Now \in Label
    BY <1>3, <1>14, <2>1 DEF Assess, GoTo, Stays
  <2>2. CASE Now \notin Label
    BY <1>2, <1>14, <2>2 DEF Assess, GoTo, Stays
  <2> QED
    BY <2>1, <2>2
<1>15. CASE Validate
  <2>1. /\ Stays /\ pc' = "remove" /\ Now' = Now
        /\ todo' = IF Now \in Removing THEN Added(Now) ELSE <<>>
    BY <1>15, StaysFacts DEF Validate, GoTo, Stays, Removing
  <2>2. CASE Now \in Removing
    <3>1. Now # "Bandwidth"
      BY <2>2 DEF Removing
    <3> QED
      BY <1>0, <2>1, <2>2, <3>1, AddedFacts DEF Toggling
  <2>3. CASE Now \notin Removing
    BY <1>3, <2>1, <2>3
  <2> QED
    BY <2>2, <2>3
<1>16. CASE AskForLabel \/ SetLabel \/ AskForRemoval \/ RemoveLabel \/ WaitAgain
            \/ ValidateAgain
  <2>1. pc \in Toggling
    BY <1>16 DEF AskForLabel, SetLabel, AskForRemoval, RemoveLabel, WaitAgain, ValidateAgain,
       Toggling
  <2>2. todo = <<>>
    BY <2>1 DEF Control
  <2>3. todo' = todo /\ Stays /\ pc' # "addPods"
    BY <1>16 DEF AskForLabel, SetLabel, AskForRemoval, RemoveLabel, WaitAgain, ValidateAgain,
       MustOrFatal, GoTo, Stays
  <2> QED
    BY <1>3, <2>2, <2>3
<1>17. CASE OthersWrite
  BY <1>4, <1>17 DEF OthersWrite, Stays
<1>18. CASE RemoveAddedPod
  <2>1. /\ Tail(todo) \in Seq(Pod) /\ Elements(Tail(todo)) \subseteq Elements(todo)
        /\ Elements(todo) \intersect IPerf = {} /\ Now \in Removing
        /\ pc = "remove" /\ Now # "Bandwidth"
    BY <1>0, <1>18, HeadAndTail DEF RemoveAddedPod, Removing
  <2>2. CASE todo' = Tail(todo) /\ UNCHANGED <<at, pc>>
    <3>1. Now' = Now /\ pc' = "remove"
      BY <2>1, <2>2, StaysFacts DEF Stays
    <3> QED
      BY <2>1, <2>2, <3>1 DEF Toggling
  <2>3. CASE Fatal /\ UNCHANGED todo
    BY <1>0, <1>1, <2>3 DEF Fatal, Departs
  <2> QED
    BY <1>18, <2>2, <2>3 DEF RemoveAddedPod
<1>19. CASE RemoveIPerf
  BY <1>1, <1>2, <1>19 DEF RemoveIPerf, GoTo, Stays, Departs
<1>20. CASE PodsRemoved
  BY <1>2, <1>20 DEF PodsRemoved, GoTo, Stays
<1>21. CASE DeleteService \/ DeleteToggled \/ EndFeature
  BY <1>1, <1>4, <1>21 DEF DeleteService, DeleteToggled, EndFeature, StopDeleting, Fatal, Departs,
     Stays
<1>22. CASE Terminated \/ UNCHANGED vars
  BY <1>4, <1>22 DEF Terminated, vars, Stays
<1> QED
  BY <1>5, <1>6, <1>7, <1>8, <1>9, <1>10, <1>11, <1>12, <1>13, <1>14, <1>15, <1>16, <1>17,
     <1>18, <1>19, <1>20, <1>21, <1>22 DEF Next

(* The pods of the model are in the cluster, but those of the iperf         *)
(* namespace once its test is over; those come in once, and are the only     *)
(* ones of their names.                                                    *)
BoardInv ==
  /\ ModelInv(Pod)
  /\ Elements(namespace.iperf) \subseteq IPerf
  /\ Elements(namespace.suite) \subseteq cluster \ IPerf
  /\ size = Nil => pc \in {"waitPods", "dead"}
  /\ Now = "Bandwidth" /\ pc \in {"begin", "addPods"} => Elements(namespace.iperf) = {}
  /\ Now = "Bandwidth" /\ pc \in {"waitPods", "pending", "assess", "validate"}
       => Elements(namespace.iperf) \subseteq cluster

LEMMA ModelUnchanged ==
  ASSUME NEW S, ModelInv(S), UNCHANGED model
  PROVE  ModelInv(S)' /\ Pods' = Pods
BY DEF model, ModelInv, ModelType, CacheAgrees, Listed, Cached, Pods

LEMMA ClusterFacts ==
  ASSUME NEW list \in Clusters
  PROVE  /\ list \in Seq(Pod) /\ ~HasDuplicates(list)
         /\ Elements(list) \intersect IPerf = {}
<1>1. list \in Seq(STRING) /\ ~HasDuplicates(list) /\ SuitePod \intersect IPerf = {}
  BY ClustersAssumption
<1>2. Elements(list) \subseteq SuitePod
  BY DEF SuitePod
<1>3. \A i \in DOMAIN list : list[i] \in Pod
  BY <1>2 DEF Elements, Pod
<1>4. list \in Seq(Pod)
  BY <1>1, <1>3
<1> QED
  BY <1>1, <1>2, <1>4

LEMMA NewModelFacts ==
  ASSUME NEW S, NEW list \in Seq(S), ~HasDuplicates(list), NewModel(list)
  PROVE  ModelInv(S) /\ size # Nil
<1>1. /\ namespace = [suite |-> list, iperf |-> <<>>] /\ array = list /\ size = Len(list)
      /\ slice = Detached(<<>>) /\ <<>> \in Seq(S) /\ Len(list) \in Nat
  BY DEF NewModel
<1>2. Listed = list
  BY <1>1 DEF Listed
<1>3. size # Nil /\ Cached = list
  BY <1>1 DEF Cached, Nil
<1>4. slice \in [shared : BOOLEAN, length : 0 .. Len(array), copy : Seq(S)]
  BY <1>1 DEF Detached
<1> QED
  BY <1>1, <1>2, <1>3, <1>4 DEF ModelInv, ModelType, CacheAgrees

LEMMA BoardInvInit == Init => BoardInv
<1> SUFFICES ASSUME Init PROVE BoardInv
  OBVIOUS
<1>1. PICK list \in Clusters : NewModel(list) /\ cluster = Elements(list)
  BY DEF Init
<1>2. ModelInv(Pod) /\ size # Nil
  BY <1>1, ClusterFacts, NewModelFacts
<1>3. /\ namespace.suite = list /\ namespace.iperf = <<>> /\ Elements(<<>>) = {}
      /\ pc = "begin"
  BY <1>1 DEF NewModel, Elements, Init
<1>4. Elements(list) \intersect IPerf = {}
  BY ClusterFacts
<1> QED
  BY <1>1, <1>2, <1>3, <1>4 DEF BoardInv

LEMMA BoardInvStep ==
  Control /\ LoopInv /\ BoardInv /\ [Next]_vars => BoardInv'
<1> SUFFICES ASSUME Control, LoopInv, BoardInv, [Next]_vars PROVE BoardInv'
  OBVIOUS
<1> USE DEF BoardInv
<1>0. /\ Now \in Feature /\ Elements(<<>>) = {} /\ todo \in Seq(Pod)
      /\ Elements(Listed) = Elements(namespace.suite) \union Elements(namespace.iperf)
  <2>1. Elements(Listed) = Elements(namespace.suite) \union Elements(namespace.iperf)
    BY ModelFacts
  <2>2. Elements(<<>>) = {}
    BY DEF Elements
  <2>3. Now \in Feature /\ todo \in Seq(Pod)
    BY FeatureFacts DEF Control, LoopInv
  <2> QED
    BY <2>1, <2>2, <2>3
<1>1. Departs => /\ pc' \in {"begin", "over"}
                 /\ pc' = "over" => Now' = Now
                 /\ pc' = "begin" => Now' # "Bandwidth"
  BY LeaveFacts DEF Departs, Control, Now
\* The model and the cluster stay as they are.
<1>2. ASSUME UNCHANGED <<model, cluster>>, pc \notin {"waitPods", "dead"},
             \/ Departs
             \/ Stays /\ pc' \notin {"begin", "addPods", "waitPods", "pending", "assess", "validate"}
             \/ Stays /\ pc' \in {"assess", "validate"}
                      /\ (Now = "Bandwidth" => pc \in {"pending", "assess"})
      PROVE  BoardInv'
  <2>1. ModelInv(Pod)' /\ namespace' = namespace /\ size' = size /\ cluster' = cluster
    BY <1>2, ModelUnchanged DEF model
  <2>2. CASE Departs
    BY <1>1, <1>2, <2>1, <2>2
  <2>3. CASE Stays /\ pc' \notin {"begin", "addPods", "waitPods", "pending", "assess", "validate"}
    BY <1>2, <2>1, <2>3
  <2>4. CASE /\ Stays /\ pc' \in {"assess", "validate"}
             /\ Now = "Bandwidth" => pc \in {"pending", "assess"}
    BY <1>2, <2>1, <2>4, StaysFacts
  <2> QED
    BY <1>2, <2>2, <2>3, <2>4
<1>3. ASSUME UNCHANGED <<model, cluster>>, Stays, pc' = pc PROVE BoardInv'
  BY <1>3, ModelUnchanged, StaysFacts DEF model
<1>4. CASE Begin
  <2>1. pc = "begin" /\ cluster' = cluster
    BY <1>4 DEF Begin
  <2>2. ModelInv(Pod)' /\ namespace' = namespace /\ size' # Nil
    <3>1. CASE TakeAllPods
      BY <3>1, TakeAllPodsFacts DEF HoldsAll
    <3>2. CASE slice' = Detached(<<>>) /\ UNCHANGED <<namespace, array, size>>
      <4>1. slice' \in [shared : BOOLEAN, length : 0 .. Len(array'), copy : Seq(Pod)]
        BY <3>2 DEF Detached, ModelInv, ModelType
      <4> QED
        BY <2>1, <3>2, <4>1 DEF ModelInv, ModelType, CacheAgrees, Listed, Cached
    <3>3. CASE UNCHANGED model
      BY <2>1, <3>3, ModelUnchanged DEF model
    <3> QED
      BY <1>4, <3>1, <3>2, <3>3 DEF Begin, Enter
  <2>3. Departs \/ (Stays /\ pc' \in {"addPods", "dead"})
    BY <1>4 DEF Begin, Departs, Stays, GoTo
  <2> QED
    BY <1>1, <2>1, <2>2, <2>3, StaysFacts
<1>5. CASE AddNewPod
  <2>1. /\ pc = "addPods" /\ Now # "Bandwidth" /\ todo # <<>>
        /\ Head(todo) \in Pod \ IPerf
    BY <1>0, <1>5, HeadAndTail DEF AddNewPod, LoopInv
  <2>2. CASE Fatal /\ UNCHANGED model /\ cluster' \in {cluster, cluster \union {Head(todo)}}
    <3>1. Departs
      BY <2>2 DEF Fatal, Departs
    <3>2. ModelInv(Pod)' /\ namespace' = namespace /\ size' = size
      BY <2>2, ModelUnchanged DEF model
    <3> QED
      BY <1>1, <2>1, <2>2, <3>1, <3>2
  <2>3. CASE /\ AddPod(Head(todo)) /\ Head(todo) \notin cluster
             /\ cluster' = cluster \union {Head(todo)} /\ UNCHANGED <<at, pc>>
    <3> DEFINE p == Head(todo)
    <3>1. p \in Pod /\ p \notin Elements(Listed) /\ AddPod(p)
      BY <1>0, <2>1, <2>3
    <3> HIDE DEF p
    <3>2. /\ ModelInv(Pod)' /\ size' # Nil /\ namespace'.iperf = namespace.iperf
          /\ Elements(namespace'.suite) = Elements(namespace.suite) \union {p}
      BY <3>1, AddPodFacts
    <3>3. Now' = Now /\ pc' = pc
      BY <2>3, StaysFacts DEF Stays
    <3> QED
      BY <2>1, <2>3, <3>2, <3>3 DEF p
  <2> QED
    BY <1>5, <2>2, <2>3 DEF AddNewPod
<1>6. CASE StartIPerf
  <2>1. /\ pc = "addPods" /\ Now = "Bandwidth" /\ todo = Added("Bandwidth")
        /\ Elements(todo) = IPerf /\ ~HasDuplicates(todo)
        /\ Elements(namespace.iperf) = {}
    BY <1>6, AddedFacts DEF StartIPerf, LoopInv
  <2>2. AddIPerfNamespace(todo) /\ Elements(todo) \intersect Elements(Listed) = {}
    BY <1>0, <1>6, <2>1 DEF StartIPerf
  <2>3. /\ ModelInv(Pod)' /\ size' = Nil
        /\ namespace'.suite = namespace.suite
        /\ Elements(namespace'.iperf) = Elements(namespace.iperf) \union Elements(todo)
    BY <1>0, <2>1, <2>2, AddIPerfNamespaceFacts
  <2>4. CASE cluster' = cluster \union Elements(todo) /\ GoTo("waitPods")
    BY <2>1, <2>3, <2>4 DEF GoTo
  <2>5. CASE \E some \in SUBSET Elements(todo) : cluster' = cluster \union some /\ GoTo("dead")
    BY <2>1, <2>3, <2>5 DEF GoTo
  <2> QED
    BY <1>6, <2>4, <2>5 DEF StartIPerf
<1>7. CASE WaitForIPerf
  <2>1. /\ ModelInv(Pod)' /\ size' # Nil /\ namespace' = namespace
    BY <1>7, AllPodsFacts DEF WaitForIPerf
  <2>2. /\ cluster' = cluster /\ pc = "waitPods" /\ Stays /\ pc' \in {"pending", "dead"}
    BY <1>7 DEF WaitForIPerf, GoTo, Stays
  <2>3. Now = "Bandwidth"
    BY <2>2 DEF Control
  <2> QED
    BY <2>1, <2>2, <2>3, StaysFacts
<1>8. CASE DropPending
  <2>1. PICK p \in Elements(namespace.iperf) :
          /\ RemovePod(p, "iperf")
          /\ \/ cluster' = cluster \ {p} /\ UNCHANGED <<at, pc>>
             \/ cluster' \in {cluster, cluster \ {p}} /\ GoTo("dead")
    BY <1>8 DEF DropPending
  <2>2. /\ ModelInv(Pod)' /\ size' # Nil
        /\ Elements(namespace'.suite) = Elements(namespace.suite)
        /\ Elements(namespace'.iperf) = Elements(namespace.iperf) \ {p}
    BY <2>1, RemovePodFacts
  <2>3. pc = "pending" /\ Now = "Bandwidth"
    BY <1>8 DEF DropPending, Control
  <2> QED
    BY <2>1, <2>2, <2>3, StaysFacts DEF GoTo, Stays
<1>9. CASE PodsAdded
  BY <1>2, <1>9 DEF PodsAdded, GoTo, Stays, board
<1>10. CASE ServePod
  BY <1>2, <1>10 DEF ServePod, GoTo, Stays
<1>11. CASE Served \/ ServeLocal
  BY <1>2, <1>11 DEF Served, ServeLocal, GoTo, Stays, board, PerPod
<1>12. CASE ServeTemplate
  <2>1. /\ Stays /\ pc' \in {"assess", "dead"} /\ Now # "Bandwidth" /\ cluster' = cluster
        /\ pc = "serve"
    BY <1>12 DEF ServeTemplate, GoTo, Stays, Template
  <2>2. CASE UNCHANGED model
    BY <1>2, <2>1, <2>2
  <2>3. CASE TakeAllPods
    BY <2>1, <2>3, TakeAllPodsFacts, StaysFacts DEF HoldsAll
  <2> QED
    BY <1>12, <2>2, <2>3 DEF ServeTemplate, TakeSlice
<1>13. CASE ServeToggled
  <2>1. Now # "Bandwidth"
    BY <1>13 DEF ServeToggled, Label
  <2> QED
    BY <1>2, <1>13, <2>1 DEF ServeToggled, FatalHere, Departs, GoTo, Stays, board
<1>14. CASE Assess
  BY <1>2, <1>14 DEF Assess, GoTo, Stays
<1>15. CASE Validate
  BY <1>2, <1>15 DEF Validate, GoTo, Stays, board
<1>16. CASE AskForLabel \/ SetLabel \/ AskForRemoval \/ RemoveLabel \/ WaitAgain
            \/ ValidateAgain
  BY <1>2, <1>16 DEF AskForLabel, SetLabel, AskForRemoval, RemoveLabel, WaitAgain, ValidateAgain,
     MustOrFatal, GoTo, Stays, board
<1>17. CASE OthersWrite
  BY <1>3, <1>17 DEF OthersWrite, Stays, board
<1>18. CASE RemoveAddedPod
  <2>1. /\ pc = "remove" /\ Now # "Bandwidth"
        /\ Head(todo) \in Pod \ IPerf /\ RemovePod(Head(todo), "suite")
    BY <1>0, <1>18, HeadAndTail DEF RemoveAddedPod, LoopInv, Removing
  <2>2. Head(todo) \in Elements(Listed) => Head(todo) \in Elements(namespace.suite)
    BY <1>0, <2>1
  <2>3. /\ ModelInv(Pod)' /\ size' # Nil
        /\ Elements(namespace'.suite) = Elements(namespace.suite) \ {Head(todo)}
        /\ Elements(namespace'.iperf) = Elements(namespace.iperf)
    <3> DEFINE p == Head(todo)
    <3>1. RemovePod(p, "suite") /\ (p \in Elements(Listed) => p \in Elements(namespace.suite))
      BY <2>1, <2>2
    <3> HIDE DEF p
    <3>2. /\ ModelInv(Pod)' /\ size' # Nil
          /\ Elements(namespace'.suite) = Elements(namespace.suite) \ {p}
          /\ Elements(namespace'.iperf) = Elements(namespace.iperf)
      BY <3>1, RemovePodFacts
    <3> QED
      BY <3>2 DEF p
  <2>4. /\ cluster' \in {cluster, cluster \ {Head(todo)}}
        /\ Departs \/ (Stays /\ pc' = pc)
    BY <1>18 DEF RemoveAddedPod, Fatal, Departs, Stays
  <2> QED
    BY <1>1, <2>1, <2>3, <2>4, StaysFacts
<1>19. CASE RemoveIPerf
  <2>1. /\ UNCHANGED model /\ cluster' \in {cluster, cluster \ IPerf} /\ pc = "remove"
        /\ Departs \/ (Stays /\ pc' = "dead")
    BY <1>19 DEF RemoveIPerf, GoTo, Stays, Departs
  <2>2. ModelInv(Pod)' /\ namespace' = namespace /\ size' = size
    BY <2>1, ModelUnchanged DEF model
  <2> QED
    BY <1>1, <2>1, <2>2
<1>20. CASE PodsRemoved
  BY <1>2, <1>20 DEF PodsRemoved, GoTo, Stays, board
<1>21. CASE DeleteService \/ DeleteToggled \/ EndFeature
  BY <1>2, <1>3, <1>21 DEF DeleteService, DeleteToggled, EndFeature, StopDeleting, Fatal, Departs,
     Stays, board
<1>22. CASE Terminated \/ UNCHANGED vars
  BY <1>3, <1>22 DEF Terminated, vars, Stays, board
<1> QED
  BY <1>4, <1>5, <1>6, <1>7, <1>8, <1>9, <1>10, <1>11, <1>12, <1>13, <1>14, <1>15, <1>16, <1>17,
     <1>18, <1>19, <1>20, <1>21, <1>22 DEF Next

(* What the loops have left, and where the pods of the model are.           *)
THEOREM BoardHolds == Spec => [](LoopInv /\ BoardInv)
<1>1. Init => LoopInv /\ BoardInv
  BY BoardInvInit DEF Init, LoopInv, Toggling
<1>2. Control /\ LoopInv /\ BoardInv /\ [Next]_vars => LoopInv' /\ BoardInv'
  <2>1. BoardInv => ModelInv(Pod)
    BY DEF BoardInv
  <2> QED
    BY <2>1, LoopInvStep, BoardInvStep
<1> QED
  BY <1>1, <1>2, ControlHolds, PTL DEF Spec

(* The cache of AllPods and the lists of the namespaces agree               *)
(* (model.go:100-160), whatever pods come and go.                          *)
THEOREM CacheHolds == Spec => []CacheAgrees
<1>1. BoardInv => CacheAgrees
  BY DEF BoardInv, ModelInv
<1> QED
  BY <1>1, BoardHolds, PTL

(* A pod that is probed exists, but those of the bandwidth test once it is    *)
(* over (bandwidth_test.go:58).                                            *)
THEOREM ProbedPodsExist == Spec => []ModelledPodsExist
<1>1. Control /\ BoardInv => ModelledPodsExist
  <2> SUFFICES ASSUME Control, BoardInv, Validating
               PROVE  Modelled \subseteq cluster \union
                        (IF Now = "Bandwidth" THEN {} ELSE Elements(namespace.iperf))
    BY DEF ModelledPodsExist
  <2>1. Modelled = Elements(namespace.suite) \union Elements(namespace.iperf)
    BY ModelFacts DEF BoardInv
  <2>2. Now = "Bandwidth" => pc = "validate"
    BY DEF Validating, Control, Toggling, Label
  <2> QED
    BY <2>1, <2>2 DEF BoardInv
<1> QED
  BY <1>1, ControlHolds, BoardHolds, PTL

-----------------------------------------------------------------------------
(***************************************************************************)
(* The slice that a test function holds.  It is the cache, but where         *)
(* SessionAffinity has added pods and has not yet taken it anew, when it is  *)
(* a first part of it, and where it has removed them, when nobody reads it.  *)
(***************************************************************************)
Entered == at[2] # 1 \/ pc # "begin"

Reread == Now = "SessionAffinity" => pc \in {"begin", "assess", "validate"}

SliceInv ==
  /\ at[1] \in TakesPods /\ Entered /\ ~Over /\ Reread => HoldsAll
  /\ Now = "SessionAffinity" /\ pc \in {"addPods", "serve"} => HoldsPart
  /\ at[1] \notin TakesPods /\ Entered /\ ~Over => slice = Detached(<<>>)

LEMMA HeldUnchanged ==
  UNCHANGED model => /\ HoldsAll' <=> HoldsAll
                     /\ HoldsPart' <=> HoldsPart
                     /\ Pods' = Pods /\ slice' = slice
BY DEF model, HoldsAll, HoldsPart, Pods

LEMMA NextFunctionFacts ==
  AtPlace /\ NextFunction => pc' = "over" \/ at'[2] = 1
BY DEF AtPlace, NextFunction, GoTo

LEMMA SliceInvStep ==
  Control /\ LoopInv /\ BoardInv /\ SliceInv /\ [Next]_vars => SliceInv'
<1> SUFFICES ASSUME Control, LoopInv, BoardInv, SliceInv, [Next]_vars PROVE SliceInv'
  OBVIOUS
<1> USE DEF SliceInv
<1>0. /\ Now \in Feature /\ ModelInv(Pod) /\ AtPlace
      /\ Now \in Serviceless <=> at[1] \notin TakesPods
      /\ Now = "SessionAffinity" => at[2] = Len(Suite[at[1]]) /\ at[2] = 6
  <2>1. Now = "SessionAffinity" => at[2] = 6
    BY Places DEF Placed, Control
  <2> QED
    BY <2>1, FeatureFacts DEF Control, BoardInv, Serviceless
<1>1. ASSUME Departs, pc' # "over" PROVE pc' = "begin" /\ (at'[2] = 1 \/ (at'[1] = at[1]
                                          /\ at[2] < Len(Suite[at[1]]) /\ at[2] \in Nat))
  BY <1>0, <1>1, LeaveFacts DEF Departs, AtPlace
\* A test that leaves a feature with the slice of its function, or this.
<1>2. ASSUME Departs, ~Over, Entered, UNCHANGED model, pc \notin {"over", "dead"}
      PROVE  SliceInv'
  <2>1. CASE pc' = "over"
    BY <2>1 DEF Over
  <2>2. CASE pc' = "begin" /\ at'[2] = 1
    BY <2>2 DEF Entered
  <2>3. CASE pc' = "begin" /\ at'[1] = at[1] /\ at[2] < Len(Suite[at[1]]) /\ at[2] \in Nat
    <3>1. Now # "SessionAffinity"
      BY <1>0, <2>3
    <3> QED
      BY <1>2, <2>3, <3>1, HeldUnchanged DEF Reread, Over
  <2> QED
    BY <1>1, <1>2, <2>1, <2>2, <2>3
<1>3. ASSUME Stays, ~Over, Entered, UNCHANGED model, pc' # "begin",
             Now = "SessionAffinity" => \/ pc' \in {"remove", "delete", "dead"}
                                        \/ pc = "addPods" /\ pc' = "serve"
                                        \/ pc = "assess" /\ pc' = "validate"
      PROVE  SliceInv'
  BY <1>0, <1>3, HeldUnchanged, StaysFacts DEF Reread, Stays, Over
<1>4. ASSUME Stays, pc' = pc, UNCHANGED model PROVE SliceInv'
  BY <1>4, HeldUnchanged, StaysFacts DEF Stays, Entered, Over, Reread
\* Where no slice is held, or the function is over.
<1>5. ASSUME Stays, at[1] \notin TakesPods, slice' = Detached(<<>>) PROVE SliceInv'
  BY <1>0, <1>5, StaysFacts DEF Stays, Serviceless
<1>6. ASSUME Departs, NextFunction PROVE SliceInv'
  BY <1>0, <1>1, <1>6, NextFunctionFacts DEF Entered, Over
<1>7. CASE Begin
  <2>1. /\ pc = "begin"
        /\ (Stays /\ pc' = "addPods") \/ (Stays /\ pc' = "dead") \/ Departs
    BY <1>7 DEF Begin, GoTo, Stays, Departs
  <2>2. CASE at[2] = 1
    <3>1. CASE at[1] \in TakesPods
      <4>1. HoldsAll' /\ Now # "SessionAffinity"
        BY <1>0, <1>7, <2>2, <3>1, TakeAllPodsFacts DEF Begin, Enter
      <4>2. CASE Stays
        BY <2>1, <3>1, <4>1, <4>2, StaysFacts, LeaveFacts DEF Stays, Control, Departs
      <4>3. CASE Departs
        <5>1. CASE pc' = "over"
          BY <5>1 DEF Over
        <5>2. CASE pc' # "over"
          BY <1>1, <3>1, <4>1, <4>3, <5>2 DEF Entered
        <5> QED
          BY <5>1, <5>2
      <4> QED
        BY <2>1, <4>2, <4>3
    <3>2. CASE at[1] \notin TakesPods
      <4>1. slice' = Detached(<<>>)
        BY <1>7, <2>2, <3>2 DEF Begin, Enter
      <4>2. CASE Stays
        BY <1>5, <3>2, <4>1, <4>2
      <4>3. CASE Departs
        <5>1. CASE pc' = "over"
          BY <5>1 DEF Over
        <5>2. CASE pc' # "over"
          BY <1>1, <3>2, <4>1, <4>3, <5>2 DEF Entered
        <5> QED
          BY <5>1, <5>2
      <4> QED
        BY <2>1, <4>2, <4>3
    <3> QED
      BY <3>1, <3>2
  <2>3. CASE at[2] # 1
    <3>1. UNCHANGED model /\ Entered /\ ~Over
      BY <1>7, <2>1, <2>3 DEF Begin, Entered, Over
    <3>2. CASE Departs
      BY <1>2, <2>1, <3>1, <3>2
    <3>3. CASE Stays /\ pc' = "dead"
      BY <1>3, <3>1, <3>3
    <3>4. CASE Stays /\ pc' = "addPods"
      <4>1. at[1] \in TakesPods => HoldsAll /\ HoldsPart
        BY <1>0, <2>1, <3>1, HoldsAllShowsModel DEF Reread
      <4>2. at[1] \notin TakesPods => slice = Detached(<<>>)
        BY <3>1
      <4> QED
        BY <1>0, <3>1, <3>4, <4>1, <4>2, HeldUnchanged, StaysFacts DEF Stays, Reread, Serviceless
    <3> QED
      BY <2>1, <3>2, <3>3, <3>4
  <2> QED
    BY <2>2, <2>3
<1>8. CASE AddNewPod
  <2>1. /\ pc = "addPods" /\ Now # "Bandwidth" /\ todo # <<>> /\ todo \in Seq(Pod)
        /\ Now \in Adding /\ Entered /\ ~Over
    BY <1>8 DEF AddNewPod, LoopInv, Entered, Over
  <2>2. CASE Fatal
    BY <1>6, <2>2 DEF Fatal, Departs
  <2>3. CASE /\ AddPod(Head(todo)) /\ Head(todo) \notin cluster /\ UNCHANGED <<at, pc>>
    <3> DEFINE p == Head(todo)
    <3>1. p \in Pod \ IPerf
      BY <2>1, HeadAndTail DEF LoopInv
    <3>2. p \notin Elements(Listed) /\ AddPod(p)
      <4>1. Elements(Listed) = Elements(namespace.suite) \union Elements(namespace.iperf)
        BY <1>0, ModelFacts
      <4> QED
        BY <2>3, <3>1, <4>1 DEF BoardInv
    <3> HIDE DEF p
    <3>3. /\ HoldsPart => HoldsPart'
          /\ slice = Detached(<<>>) => slice' = Detached(<<>>)
      BY <1>0, <3>1, <3>2, AddPodFacts
    <3>4. Stays /\ pc' = "addPods"
      BY <2>1, <2>3 DEF Stays
    <3>5. CASE Now = "SessionAffinity"
      BY <1>0, <2>1, <3>3, <3>4, <3>5, StaysFacts DEF Reread, Stays, Serviceless
    <3>6. CASE Now # "SessionAffinity"
      <4>1. at[1] \notin TakesPods
        BY <1>0, <2>1, <3>6 DEF Adding, Removing, Serviceless
      <4> QED
        BY <1>5, <2>1, <3>3, <3>4, <4>1
    <3> QED
      BY <3>5, <3>6
  <2> QED
    BY <1>8, <2>2, <2>3 DEF AddNewPod
<1>9. CASE StartIPerf
  <2>1. /\ at[1] \notin TakesPods /\ pc = "addPods" /\ slice' = Detached(Pods) /\ Stays
    BY <1>0, <1>9 DEF StartIPerf, AddIPerfNamespace, GoTo, Stays, Serviceless
  <2>2. slice = Detached(<<>>)
    BY <2>1 DEF Entered, Over
  <2>3. Pods = <<>>
    BY <2>2 DEF Pods, Detached
  <2> QED
    BY <1>5, <2>1, <2>3
<1>10. CASE WaitForIPerf \/ DropPending
  <2>1. /\ pc \in {"waitPods", "pending"} /\ slice' = slice /\ Stays
    BY <1>10 DEF WaitForIPerf, DropPending, AllPods, RemovePod, GoTo, Stays
  <2>2. at[1] \notin TakesPods
    BY <1>0, <2>1 DEF Control, Serviceless
  <2>3. slice = Detached(<<>>)
    BY <2>1, <2>2 DEF Entered, Over
  <2> QED
    BY <1>5, <2>1, <2>2, <2>3
<1>11. CASE PodsAdded
  <2>1. /\ Stays /\ UNCHANGED model /\ pc \in {"pending", "addPods"}
        /\ pc' = IF Now \in Serviceless THEN "assess" ELSE "serve"
    BY <1>11 DEF PodsAdded, GoTo, Stays, board, Serviceless
  <2>2. Now = "SessionAffinity" => pc = "addPods" /\ pc' = "serve"
    BY <2>1 DEF Control, Serviceless
  <2> QED
    BY <1>3, <2>1, <2>2 DEF Entered, Over
<1>12. CASE ServePod \/ Served \/ ServeLocal \/ ServeToggled
  <2>1. /\ UNCHANGED model /\ pc = "serve" /\ Now # "SessionAffinity"
        /\ Departs \/ (Stays /\ pc' \in {"serve", "assess", "dead"})
    BY <1>12 DEF ServePod, Served, ServeLocal, ServeToggled, FatalHere, GoTo, Stays, Departs, board,
       PerPod, Label
  <2> QED
    BY <1>2, <1>3, <2>1 DEF Entered, Over
<1>13. CASE ServeTemplate
  <2>1. /\ pc = "serve" /\ Stays /\ pc' \in {"assess", "dead"}
    BY <1>13 DEF ServeTemplate, GoTo, Stays
  <2>2. CASE pc' = "assess" /\ Now = "SessionAffinity"
    <3>1. HoldsAll'
      BY <1>0, <1>13, <2>2, TakeAllPodsFacts DEF ServeTemplate, TakeSlice, GoTo
    <3> QED
      BY <1>0, <2>1, <2>2, <3>1, StaysFacts DEF Stays, Serviceless
  <2>3. CASE pc' = "dead"
    BY <2>3 DEF Over
  <2>4. CASE pc' = "assess" /\ Now # "SessionAffinity"
    <3>1. UNCHANGED model
      BY <1>13, <2>4 DEF ServeTemplate, TakeSlice, GoTo
    <3> QED
      BY <1>3, <2>1, <2>4, <3>1 DEF Entered, Over
  <2> QED
    BY <2>1, <2>2, <2>3, <2>4
<1>14. CASE Assess
  BY <1>3, <1>14 DEF Assess, GoTo, Stays, Entered, Over, Label
<1>15. CASE Validate
  BY <1>3, <1>15 DEF Validate, GoTo, Stays, board, Entered, Over
<1>16. CASE AskForLabel \/ SetLabel \/ AskForRemoval \/ RemoveLabel \/ WaitAgain
            \/ ValidateAgain
  <2>1. pc \in Toggling
    BY <1>16 DEF AskForLabel, SetLabel, AskForRemoval, RemoveLabel, WaitAgain, ValidateAgain,
       Toggling
  <2>2. Now # "SessionAffinity"
    BY <2>1 DEF Control, Label
  <2>3. UNCHANGED model /\ Stays /\ pc' # "begin"
    BY <1>16 DEF AskForLabel, SetLabel, AskForRemoval, RemoveLabel, WaitAgain, ValidateAgain,
       MustOrFatal, GoTo, Stays, board
  <2> QED
    BY <1>3, <2>1, <2>2, <2>3 DEF Entered, Over, Toggling
<1>17. CASE OthersWrite
  BY <1>4, <1>17 DEF OthersWrite, Stays, board
<1>18. CASE RemoveAddedPod
  <2>1. CASE Fatal
    BY <1>6, <2>1 DEF Fatal, Departs
  <2>2. CASE UNCHANGED <<at, pc>>
    <3>1. pc = "remove" /\ slice' = slice /\ Stays /\ pc' = "remove" /\ Now \in Removing
      BY <1>18, <2>2 DEF RemoveAddedPod, RemovePod, Stays, LoopInv
    <3>2. CASE Now = "SessionAffinity"
      BY <1>0, <3>1, <3>2, StaysFacts DEF Stays, Reread, Serviceless
    <3>3. CASE Now # "SessionAffinity"
      <4>1. at[1] \notin TakesPods
        BY <1>0, <3>1, <3>3 DEF Removing, Serviceless
      <4> QED
        BY <1>5, <3>1, <4>1 DEF Entered, Over
    <3> QED
      BY <3>2, <3>3
  <2> QED
    BY <1>18, <2>1, <2>2 DEF RemoveAddedPod
<1>19. CASE RemoveIPerf
  BY <1>2, <1>3, <1>19 DEF RemoveIPerf, GoTo, Stays, Departs, Entered, Over
<1>20. CASE PodsRemoved
  BY <1>3, <1>20 DEF PodsRemoved, GoTo, Stays, board, Entered, Over
<1>21. CASE DeleteService \/ DeleteToggled \/ EndFeature
  BY <1>2, <1>4, <1>21 DEF DeleteService, DeleteToggled, EndFeature, StopDeleting, Fatal, Departs,
     Stays, board, Entered, Over
<1>22. CASE Terminated \/ UNCHANGED vars
  BY <1>4, <1>22 DEF Terminated, vars, Stays, board
<1> QED
  BY <1>7, <1>8, <1>9, <1>10, <1>11, <1>12, <1>13, <1>14, <1>15, <1>16, <1>17, <1>18, <1>19,
     <1>20, <1>21, <1>22 DEF Next

(* What the slice of a test function shows of the cache (model.go:100-160). *)
THEOREM SliceHolds == Spec => []SliceInv
<1>1. Init => SliceInv
  <2> SUFFICES ASSUME Init PROVE SliceInv
    OBVIOUS
  <2>1. at[1] = 1 /\ at[2] = 1 /\ pc = "begin"
    BY DEF Init
  <2> QED
    BY <2>1 DEF SliceInv, Entered, TakesPods
<1> QED
  BY <1>1, SliceInvStep, ControlHolds, BoardHolds, PTL DEF Spec

(* What is read of a held slice is of the model, each pod once, although      *)
(* RemovePod shifts the array under it (model.go:154).                      *)
THEOREM HeldSlicesAreCurrent == Spec => []HeldSliceIsCurrent
<1>1. Control /\ BoardInv /\ SliceInv => HeldSliceIsCurrent
  <2> SUFFICES ASSUME Control, BoardInv, SliceInv, pc \in {"serve", "assess"} \/ Validating
               PROVE  Elements(Pods) \subseteq Modelled /\ ~HasDuplicates(Pods)
    BY DEF HeldSliceIsCurrent
  <2>1. ModelInv(Pod) /\ Entered /\ ~Over
    BY DEF BoardInv, Entered, Over, Validating
  <2>2. CASE at[1] \notin TakesPods
    <3>1. Pods = <<>>
      BY <2>1, <2>2 DEF SliceInv, Pods, Detached
    <3> QED
      BY <3>1 DEF Elements, HasDuplicates
  <2>3. CASE Now = "SessionAffinity" /\ pc = "serve"
    BY <2>1, <2>3, HoldsPartIsCurrent DEF SliceInv
  <2>4. CASE at[1] \in TakesPods /\ ~(Now = "SessionAffinity" /\ pc = "serve")
    <3>1. Reread
      BY <2>4 DEF Reread, Validating, Control, Toggling, Label
    <3> QED
      BY <2>1, <2>4, <3>1, HoldsAllShowsModel DEF SliceInv
  <2> QED
    BY <2>2, <2>3, <2>4
<1> QED
  BY <1>1, ControlHolds, BoardHolds, SliceHolds, PTL

(* Every pod that is probed has a row in the table of the feature            *)
(* (truthtable.go:102).                                                    *)
THEOREM ProbesHaveRows == Spec => []EveryProbeHasARow
<1>1. Control /\ BoardInv /\ SliceInv => EveryProbeHasARow
  <2> SUFFICES ASSUME Control, BoardInv, SliceInv, Validating PROVE Modelled \subseteq Rows
    BY DEF EveryProbeHasARow
  <2>1. ModelInv(Pod) /\ Entered /\ ~Over /\ Reread
    BY DEF BoardInv, Entered, Over, Validating, Reread, Control, Toggling, Label
  <2>2. CASE at[1] \in TakesPods
    BY <2>1, <2>2, HoldsAllShowsModel DEF SliceInv, Rows
  <2>3. CASE at[1] \notin TakesPods
    BY <2>3, FeatureFacts DEF Rows, Control
  <2> QED
    BY <2>2, <2>3
<1> QED
  BY <1>1, ControlHolds, BoardHolds, SliceHolds, PTL

-----------------------------------------------------------------------------
(***************************************************************************)
(* One round of the loop over the pods: what the services come to, and what *)
(* that does to the pods.                                                  *)
(***************************************************************************)
Round(o) ==
  /\ live' = live \union {<<Head(todo), k>> : k \in {j \in DOMAIN o : o[j].there}}
  /\ hollow' = hollow \union
       {<<Head(todo), k>> : k \in {j \in DOMAIN o : o[j].address = "empty"}}
  /\ failed' = (failed \/ \E k \in DOMAIN o : o[k].reported)
  /\ field' = [q \in Pod |-> [x \in Field |->
                 IF q # Head(todo) \/ x \notin Writes(Now) THEN field[q][x]
                 ELSE IF HasValue(x, Answered(o)) THEN Now ELSE Blank]]
  /\ (\A k \in DOMAIN o : o[k].end = "end") \/ pc' = "dead"

LEMMA ServedRounds == ServePod => \E o \in Outcomes : Round(o)
BY DEF ServePod, Round, GoTo

LEMMA KindFacts ==
  /\ Now = "LoadBalancer" => Elements(Kinds(Now)) = {"tcp", "udp"}
  /\ Now # "LoadBalancer" => Elements(Kinds(Now)) = {"all"}
<1>1. Elements(<<"tcp", "udp">>) = {"tcp", "udp"} /\ Elements(<<"all">>) = {"all"}
  BY DEF Elements
<1> QED
  BY <1>1 DEF Kinds

LEMMA OutcomesAreOfKinds == \A o \in Outcomes : DOMAIN o = Elements(Kinds(Now))
BY DEF Outcomes

LEMMA ServedRound ==
  ASSUME ServePod
  PROVE  /\ \E there \in SUBSET Elements(Kinds(Now)) :
              live' = live \union {<<Head(todo), k>> : k \in there}
         /\ \E without \in SUBSET Elements(Kinds(Now)) :
              hollow' = hollow \union {<<Head(todo), k>> : k \in without}
         /\ \E found :
              field' = [q \in Pod |-> [x \in Field |->
                         IF q # Head(todo) \/ x \notin Writes(Now) THEN field[q][x]
                         ELSE IF HasValue(x, found) THEN Now ELSE Blank]]
         /\ failed' \in BOOLEAN
<1>1. PICK o \in Outcomes : Round(o)
  BY ServedRounds
<1>2. \E there \in SUBSET Elements(Kinds(Now)) :
        live' = live \union {<<Head(todo), k>> : k \in there}
  <2> DEFINE there == {j \in DOMAIN o : o[j].there}
  <2>1. there \in SUBSET Elements(Kinds(Now))
    BY OutcomesAreOfKinds
  <2>2. live' = live \union {<<Head(todo), k>> : k \in there}
    BY <1>1 DEF Round
  <2> HIDE DEF there
  <2> QED
    BY <2>1, <2>2
<1>3. \E without \in SUBSET Elements(Kinds(Now)) :
        hollow' = hollow \union {<<Head(todo), k>> : k \in without}
  <2> DEFINE without == {j \in DOMAIN o : o[j].address = "empty"}
  <2>1. without \in SUBSET Elements(Kinds(Now))
    BY OutcomesAreOfKinds
  <2>2. hollow' = hollow \union {<<Head(todo), k>> : k \in without}
    BY <1>1 DEF Round
  <2> HIDE DEF without
  <2> QED
    BY <2>1, <2>2
<1> QED
  BY <1>1, <1>2, <1>3 DEF Round

(* A feature that looks at every address has one for the pod, or said so:   *)
(* the promise of ClusterIP, of the two balancers together, and what a name *)
(* that is not waited for is worth.                                        *)
LEMMA SilentRoundFinds ==
  ASSUME Now \in {"ClusterIP", "LoadBalancer", "ExternalName"},
         NEW o \in Outcomes, Round(o), pc' = "serve", ~failed'
  PROVE  /\ Answered(o) # {}
         /\ Answered(o) \subseteq Elements(Kinds(Now))
         /\ Now = "LoadBalancer" => Answered(o) \subseteq {"tcp", "udp"}
         /\ Now # "LoadBalancer" => "all" \in Answered(o)
<1>1. DOMAIN o = Elements(Kinds(Now))
  BY OutcomesAreOfKinds
<1>2. \A k \in DOMAIN o : o[k].end = "end" /\ ~o[k].reported
  BY DEF Round
<1>3. CASE Now = "ClusterIP"
  <2>1. o["all"] \in Promised("clusterIP") /\ "all" \in DOMAIN o
    BY <1>1, <1>3, KindFacts DEF Outcomes
  <2> QED
    BY <1>1, <1>2, <1>3, <2>1, KindFacts DEF Promised, Careful, Answered
<1>4. CASE Now = "ExternalName"
  <2>1. o["all"] \in Unwaited /\ "all" \in DOMAIN o
    BY <1>1, <1>4, KindFacts DEF Outcomes
  <2> QED
    BY <1>1, <1>2, <1>4, <2>1, KindFacts DEF Unwaited, Answered
<1>5. CASE Now = "LoadBalancer"
  <2>1. /\ o["tcp"] \in Promised(Balancer(o["udp"].address))
        /\ "tcp" \in DOMAIN o /\ "udp" \in DOMAIN o
    BY <1>1, <1>5, KindFacts DEF Outcomes
  <2>2. o["udp"].address # "none" \/ o["tcp"].address # "none"
    <3>1. CASE o["udp"].address = "none"
      BY <1>2, <2>1, <3>1 DEF Balancer, Promised, Careful
    <3> QED
      BY <3>1
  <2> QED
    BY <1>1, <1>5, <2>1, <2>2, KindFacts DEF Answered
<1> QED
  BY <1>3, <1>4, <1>5

-----------------------------------------------------------------------------
(***************************************************************************)
(* The services that a feature leaves.  Teardown knows of every service     *)
(* that is there; those of the label features are the handle's.             *)
(***************************************************************************)
ServicesInv ==
  /\ handles \in Seq(Service)
  /\ pc \notin {"begin", "over", "dead"} =>
       /\ live \subseteq Elements(handles)
       /\ Now \in Label \union {"Bandwidth"} => live = {} /\ handles = <<>>

LEMMA ServicesInvStep ==
  Control /\ LoopInv /\ ServicesInv /\ [Next]_vars => ServicesInv'
<1> SUFFICES ASSUME Control, LoopInv, ServicesInv, [Next]_vars PROVE ServicesInv'
  OBVIOUS
<1> USE DEF ServicesInv
<1>0. <<>> \in Seq(Service) /\ Elements(<<>>) = {}
  BY DEF Elements
<1>1. ASSUME Departs, handles' \in Seq(Service) PROVE ServicesInv'
  BY <1>1, LeaveFacts DEF Control, Departs
<1>2. ASSUME Stays, UNCHANGED <<handles, live>>, pc \notin {"begin", "over", "dead"}
      PROVE  ServicesInv'
  BY <1>2, StaysFacts
<1>3. ASSUME Stays, handles' \in Seq(Service), pc' = "dead" PROVE ServicesInv'
  BY <1>3
<1>4. ASSUME Stays, handles' \in Seq(Service), Now \notin Label \union {"Bandwidth"},
             live' \subseteq Elements(handles')
      PROVE  ServicesInv'
  BY <1>4, StaysFacts
<1>5. CASE Begin
  <2>1. handles' = <<>> /\ live' = {} /\ (Stays \/ Departs)
    BY <1>5 DEF Begin, Stays, Departs, GoTo
  <2> QED
    BY <1>0, <1>1, <2>1
<1>6. CASE AddNewPod \/ StartIPerf \/ WaitForIPerf \/ DropPending \/ PodsAdded
  BY <1>1, <1>2, <1>6 DEF AddNewPod, StartIPerf, WaitForIPerf, DropPending, PodsAdded,
     Fatal, GoTo, Stays, Departs, services
<1>7. CASE ServePod
  <2> DEFINE new == [i \in DOMAIN Kinds(Now) |-> <<Head(todo), Kinds(Now)[i]>>]
  <2>1. /\ Head(todo) \in Pod /\ Now \notin Label \union {"Bandwidth"} /\ Stays
        /\ handles' = handles \o new
    BY <1>7, HeadAndTail DEF ServePod, LoopInv, PerPod, Label, GoTo, Stays
  <2>2. /\ new \in Seq(Service)
        /\ Elements(new) = {<<Head(todo), k>> : k \in Elements(Kinds(Now))}
    <3>1. CASE Now = "LoadBalancer"
      <4>1. Kinds(Now) = <<"tcp", "udp">> /\ DOMAIN Kinds(Now) = 1 .. 2
        BY <3>1 DEF Kinds
      <4>2. new = <<<<Head(todo), "tcp">>, <<Head(todo), "udp">>>>
        BY <4>1
      <4>3. <<Head(todo), "tcp">> \in Service /\ <<Head(todo), "udp">> \in Service
        BY <2>1 DEF Service
      <4>4. new \in Seq(Service)
        BY <4>2, <4>3
      <4> HIDE DEF new
      <4>5. Elements(new) = {<<Head(todo), "tcp">>, <<Head(todo), "udp">>}
        BY <4>2 DEF Elements
      <4>6. Elements(Kinds(Now)) = {"tcp", "udp"}
        BY <4>1 DEF Elements
      <4> QED
        BY <4>4, <4>5, <4>6
    <3>2. CASE Now # "LoadBalancer"
      <4>1. Kinds(Now) = <<"all">> /\ DOMAIN Kinds(Now) = 1 .. 1
        BY <3>2 DEF Kinds
      <4>2. new = <<<<Head(todo), "all">>>>
        BY <4>1
      <4>3. <<Head(todo), "all">> \in Service
        BY <2>1 DEF Service
      <4>4. new \in Seq(Service)
        BY <4>2, <4>3
      <4> HIDE DEF new
      <4>5. Elements(new) = {<<Head(todo), "all">>}
        BY <4>2 DEF Elements
      <4>6. Elements(Kinds(Now)) = {"all"}
        BY <4>1 DEF Elements
      <4> QED
        BY <4>4, <4>5, <4>6
    <3> QED
      BY <3>1, <3>2
  <2> HIDE DEF new
  <2>3. /\ handles' \in Seq(Service)
        /\ Elements(handles') = Elements(handles) \union Elements(new)
    BY <2>1, <2>2, ConcatFacts
  <2>4. PICK there \in SUBSET Elements(Kinds(Now)) :
          live' = live \union {<<Head(todo), k>> : k \in there}
    BY <1>7, ServedRound
  <2>5. pc = "serve"
    BY <1>7 DEF ServePod
  <2>6. live' \subseteq Elements(handles')
    BY <2>2, <2>3, <2>4, <2>5
  <2> QED
    BY <1>4, <2>1, <2>3, <2>6
<1>8. CASE ServeTemplate \/ ServeLocal
  <2>1. /\ Now \notin Label \union {"Bandwidth"} /\ Stays
        /\ \/ handles' = <<Single>> /\ live' \subseteq {Single}
           \/ handles' = handles /\ pc' = "dead"
    BY <1>8 DEF ServeTemplate, ServeLocal, Template, Label, GoTo, Stays
  <2>2. Single \in Service
    BY DEF Single, Service
  <2>3. <<Single>> \in Seq(Service) /\ Elements(<<Single>>) = {Single}
    BY <2>2 DEF Elements
  <2> QED
    BY <1>3, <1>4, <2>1, <2>3
<1>9. CASE Served \/ ServeToggled \/ Assess \/ Validate \/ AskForLabel \/ SetLabel
           \/ AskForRemoval \/ RemoveLabel \/ WaitAgain \/ ValidateAgain
  BY <1>1, <1>2, <1>9 DEF Served, ServeToggled, Assess, Validate, AskForLabel, SetLabel,
     AskForRemoval, RemoveLabel, WaitAgain, ValidateAgain, MustOrFatal, FatalHere, GoTo, Stays,
     Departs, services
<1>10. CASE OthersWrite \/ Terminated \/ UNCHANGED vars
  BY <1>10 DEF OthersWrite, Terminated, vars, services, Now
<1>11. CASE RemoveAddedPod \/ RemoveIPerf \/ PodsRemoved
  BY <1>1, <1>2, <1>11 DEF RemoveAddedPod, RemoveIPerf, PodsRemoved, Fatal, GoTo, Stays, Departs,
     services
<1>12. CASE DeleteService
  <2>1. /\ handles' = Tail(handles) /\ handles # <<>> /\ pc = "delete"
        /\ \/ live' = live \ {Head(handles)} /\ UNCHANGED <<at, pc>>
           \/ Departs
    BY <1>12 DEF DeleteService, StopDeleting, Fatal, Departs
  <2>2. Tail(handles) \in Seq(Service)
    BY <2>1, HeadAndTail
  <2>3. Elements(handles) \ {Head(handles)} \subseteq Elements(Tail(handles))
    <3>1. /\ DOMAIN handles = 1 .. Len(handles) /\ Len(handles) \in Nat
          /\ Head(handles) = handles[1]
      BY <2>1
    <3>2. \A i \in 1 .. Len(handles) :
            i # 1 => /\ i - 1 \in DOMAIN Tail(handles)
                     /\ Tail(handles)[i - 1] = handles[i]
      BY <2>1, <3>1
    <3> QED
      BY <3>1, <3>2 DEF Elements
  <2>4. Now \notin Label \union {"Bandwidth"}
    BY <2>1
  <2> QED
    BY <1>1, <1>4, <2>1, <2>2, <2>3, <2>4 DEF Stays
<1>13. CASE DeleteToggled \/ EndFeature
  BY <1>1, <1>13 DEF DeleteToggled, EndFeature, StopDeleting, Fatal, Departs, services
<1> QED
  BY <1>5, <1>6, <1>7, <1>8, <1>9, <1>10, <1>11, <1>12, <1>13 DEF Next

(* Every service in the cluster is in the list that Teardown deletes.       *)
THEOREM ServicesHold == Spec => []ServicesInv
<1>1. Init => ServicesInv
  BY DEF Init, ServicesInv
<1> QED
  BY <1>1, ServicesInvStep, ControlHolds, BoardHolds, PTL DEF Spec

(* A feature ends with its services deleted, or is reported as failed:        *)
(* Services.Delete stops at the first error, and that one is fatal           *)
(* (helpers.go:14).                                                        *)
THEOREM LeftoversFail == Spec => LeftoversAreReported
<1>1. Control /\ HandleInv /\ ServicesInv /\ [Next]_vars =>
        [pc # "begin" /\ pc' \in {"begin", "over"} /\ LeavesService => failed']_vars
  <2> SUFFICES ASSUME Control, HandleInv, ServicesInv, Next,
                      pc # "begin", pc' \in {"begin", "over"}, LeavesService, vars' # vars
               PROVE  failed'
    OBVIOUS
  <2>1. Fatal \/ FatalHere \/ RemoveIPerf \/ EndFeature \/ DeleteToggled
    BY DEF Next, vars, Control, Begin, AddNewPod, StartIPerf, WaitForIPerf, DropPending, PodsAdded,
       ServePod, Served, ServeTemplate, ServeLocal, ServeToggled, Assess, Validate, AskForLabel,
       SetLabel, AskForRemoval, RemoveLabel, WaitAgain, ValidateAgain, OthersWrite,
       RemoveAddedPod, PodsRemoved, DeleteService, Terminated, Over, MustOrFatal, StopDeleting,
       GoTo
  <2>2. CASE Fatal \/ FatalHere
    BY <2>2 DEF Fatal, FatalHere
  <2>3. CASE RemoveIPerf
    <3>1. Now = "Bandwidth" /\ pc = "remove" /\ live' = live
      BY <2>3 DEF RemoveIPerf, services
    <3> QED
      BY <3>1 DEF LeavesService, ServicesInv, Label
  <2>4. CASE EndFeature
    <3>1. pc = "delete" /\ Now \notin Label /\ handles = <<>> /\ live' = live
      BY <2>4 DEF EndFeature, services
    <3>2. live = {}
      BY <3>1 DEF ServicesInv, Elements
    <3> QED
      BY <3>1, <3>2 DEF LeavesService
  <2>5. CASE DeleteToggled
    <3>1. pc = "delete" /\ Now \in Label /\ live' = live
      BY <2>5 DEF DeleteToggled
    <3>2. live' = {}
      BY <3>1 DEF ServicesInv
    <3>3. CASE err' = "nil"
      <4>1. stored' = Gone
        BY <2>5, <3>3 DEF DeleteToggled, Delete
      <4> QED
        BY <3>2, <4>1, Kinds4 DEF LeavesService
    <3>4. CASE err' # "nil"
      BY <2>5, <3>4 DEF DeleteToggled, StopDeleting, Fatal
    <3> QED
      BY <3>3, <3>4
  <2> QED
    BY <2>1, <2>2, <2>3, <2>4, <2>5
<1> QED
  BY <1>1, ControlHolds, HandleHolds, ServicesHold, PTL DEF Spec, LeftoversAreReported

-----------------------------------------------------------------------------
(***************************************************************************)
(* Types.                                                                  *)
(***************************************************************************)
Fields == [Pod -> [Field -> Feature \union {Blank}]]

ValuesInv ==
  /\ selected \subseteq Feature
  /\ cluster \subseteq Pod
  /\ addressed \subseteq Pod
  /\ field \in Fields
  /\ live \subseteq Service
  /\ hollow \subseteq Service
  /\ failed \in BOOLEAN
  /\ aborted \in BOOLEAN

LEMMA WrittenFacts ==
  ASSUME field \in Fields, NEW ps, NEW fs, NEW value \in Feature \union {Blank}
  PROVE  Written(ps, fs, value) \in Fields
BY DEF Written, Fields

LEMMA FlagsStep ==
  ValuesInv /\ [Next]_vars => failed' \in BOOLEAN /\ aborted' \in BOOLEAN
<1> SUFFICES ASSUME failed \in BOOLEAN, aborted \in BOOLEAN, [Next]_vars
             PROVE  failed' \in BOOLEAN /\ aborted' \in BOOLEAN
  BY DEF ValuesInv
<1>1. CASE ServePod
  <2>1. failed' \in BOOLEAN
    BY <1>1 DEF ServePod
  <2>2. aborted' = aborted
    BY <1>1 DEF ServePod
  <2> QED
    BY <2>1, <2>2
<1>2. CASE ServeLocal
  <2>1. failed' \in BOOLEAN
    BY <1>2 DEF ServeLocal
  <2>2. aborted' = aborted
    BY <1>2 DEF ServeLocal
  <2> QED
    BY <2>1, <2>2
<1>3. CASE Next /\ ~ServePod /\ ~ServeLocal
  BY <1>3 DEF Next, Begin, AddNewPod, StartIPerf, WaitForIPerf, DropPending, PodsAdded,
     Served, ServeTemplate, ServeToggled, Assess, Validate, AskForLabel, SetLabel, AskForRemoval,
     RemoveLabel, WaitAgain, ValidateAgain, OthersWrite, RemoveAddedPod, RemoveIPerf,
     PodsRemoved, DeleteService, DeleteToggled, EndFeature, Terminated, vars, Fatal, FatalHere,
     StopDeleting, MustOrFatal
<1>4. CASE UNCHANGED vars
  BY <1>4 DEF vars
<1> QED
  BY <1>1, <1>2, <1>3, <1>4

LEMMA FieldStep ==
  Control /\ ValuesInv /\ [Next]_vars => field' \in Fields
<1> SUFFICES ASSUME field \in Fields, Now \in Feature, [Next]_vars PROVE field' \in Fields
  BY FeatureFacts DEF ValuesInv, Control
<1>1. \A ps, fs : \A value \in {Now, Blank} : Written(ps, fs, value) \in Fields
  BY WrittenFacts
<1>2. HandleAddress \in {Now, Blank} /\ ResetAllPods \in Fields
  BY <1>1 DEF HandleAddress, ResetAllPods
<1>3. CASE ServePod
  <2>1. PICK found :
          field' = [q \in Pod |-> [x \in Field |->
                      IF q # Head(todo) \/ x \notin Writes(Now) THEN field[q][x]
                      ELSE IF HasValue(x, found) THEN Now ELSE Blank]]
    BY <1>3, ServedRound
  <2> QED
    BY <2>1 DEF Fields
<1>4. CASE ServeTemplate
  BY <1>1, <1>4 DEF ServeTemplate
<1>5. CASE ServeLocal
  BY <1>1, <1>5 DEF ServeLocal
<1>6. CASE Assess
  <2>1. field' \in {field, Written(Modelled \ Perf, {"skipProbe"}, Now),
                    Written(FirstPod, {"clusterIP"}, HandleAddress)}
    BY <1>6 DEF Assess
  <2> QED
    BY <1>1, <1>2, <2>1
<1>7. CASE SetLabel
  BY <1>1, <1>2, <1>7 DEF SetLabel
<1>8. CASE WaitAgain
  BY <1>1, <1>8 DEF WaitAgain
<1>9. CASE EndFeature
  BY <1>2, <1>9 DEF EndFeature
<1>10. CASE UNCHANGED field
  BY <1>10
<1> QED
  BY <1>3, <1>4, <1>5, <1>6, <1>7, <1>8, <1>9, <1>10 DEF Next, Begin, AddNewPod, StartIPerf,
     WaitForIPerf, DropPending, PodsAdded, Served, ServeToggled, Validate, AskForLabel,
     AskForRemoval, RemoveLabel, ValidateAgain, OthersWrite, RemoveAddedPod, RemoveIPerf,
     PodsRemoved, DeleteService, DeleteToggled, Terminated, vars, board

LEMMA ClusterStep ==
  LoopInv /\ BoardInv /\ ValuesInv /\ [Next]_vars => cluster' \subseteq Pod
<1> SUFFICES ASSUME LoopInv, BoardInv, cluster \subseteq Pod, [Next]_vars
             PROVE  cluster' \subseteq Pod
  BY DEF ValuesInv
<1>1. CASE AddNewPod
  <2>1. Head(todo) \in Pod
    BY <1>1, HeadAndTail DEF AddNewPod, LoopInv
  <2> QED
    BY <1>1, <2>1 DEF AddNewPod
<1>2. CASE StartIPerf
  <2>1. Elements(todo) \subseteq Pod
    BY DEF LoopInv, Elements
  <2> QED
    BY <1>2, <2>1 DEF StartIPerf
<1>3. CASE cluster' \subseteq cluster
  BY <1>3
<1> QED
  BY <1>1, <1>2, <1>3 DEF Next, Begin, WaitForIPerf, DropPending, PodsAdded, ServePod, Served,
     ServeTemplate, ServeLocal, ServeToggled, Assess, Validate, AskForLabel, SetLabel,
     AskForRemoval, RemoveLabel, WaitAgain, ValidateAgain, OthersWrite, RemoveAddedPod,
     RemoveIPerf, PodsRemoved, DeleteService, DeleteToggled, EndFeature, Terminated, vars, board

LEMMA AddressedStep ==
  LoopInv /\ BoardInv /\ ValuesInv /\ [Next]_vars => addressed' \subseteq Pod
<1> SUFFICES ASSUME LoopInv, BoardInv, addressed \subseteq Pod, [Next]_vars
             PROVE  addressed' \subseteq Pod
  BY DEF ValuesInv
<1>1. CASE AddNewPod
  <2>1. Head(todo) \in Pod
    BY <1>1, HeadAndTail DEF AddNewPod, LoopInv
  <2> QED
    BY <1>1, <2>1 DEF AddNewPod
<1>2. CASE WaitForIPerf
  <2>1. Elements(namespace.iperf) \subseteq Pod
    BY DEF BoardInv, ModelInv, ModelType, Elements
  <2> QED
    BY <1>2, <2>1 DEF WaitForIPerf
<1>3. CASE addressed' \subseteq addressed
  BY <1>3
<1> QED
  BY <1>1, <1>2, <1>3 DEF Next, Begin, StartIPerf, DropPending, PodsAdded, ServePod, Served,
     ServeTemplate, ServeLocal, ServeToggled, Assess, Validate, AskForLabel, SetLabel,
     AskForRemoval, RemoveLabel, WaitAgain, ValidateAgain, OthersWrite, RemoveAddedPod,
     RemoveIPerf, PodsRemoved, DeleteService, DeleteToggled, EndFeature, Terminated, vars, board

LEMMA LiveStep ==
  LoopInv /\ ValuesInv /\ [Next]_vars => live' \subseteq Service /\ hollow' \subseteq Service
<1> SUFFICES ASSUME LoopInv, live \subseteq Service, hollow \subseteq Service, [Next]_vars
             PROVE  live' \subseteq Service /\ hollow' \subseteq Service
  BY DEF ValuesInv
<1>1. CASE ServePod
  <2>1. Head(todo) \in Pod
    BY <1>1, HeadAndTail DEF ServePod, LoopInv
  <2>2. PICK there, without \in SUBSET Elements(Kinds(Now)) :
          /\ live' = live \union {<<Head(todo), k>> : k \in there}
          /\ hollow' = hollow \union {<<Head(todo), k>> : k \in without}
    BY <1>1, ServedRound
  <2>3. Elements(Kinds(Now)) \subseteq {"all", "tcp", "udp"}
    BY DEF Elements, Kinds
  <2> QED
    BY <2>1, <2>2, <2>3 DEF Service
<1>2. CASE ServeTemplate \/ ServeLocal
  <2>1. Single \in Service
    BY DEF Single, Service
  <2> QED
    BY <1>2, <2>1 DEF ServeTemplate, ServeLocal
<1>3. CASE live' \subseteq live /\ hollow' \subseteq hollow
  BY <1>3
<1> QED
  BY <1>1, <1>2, <1>3 DEF Next, Begin, AddNewPod, StartIPerf, WaitForIPerf, DropPending, PodsAdded,
     Served, ServeToggled, Assess, Validate, AskForLabel, SetLabel,
     AskForRemoval, RemoveLabel, WaitAgain, ValidateAgain, OthersWrite, RemoveAddedPod,
     RemoveIPerf, PodsRemoved, DeleteService, DeleteToggled, EndFeature, Terminated, vars, services

LEMMA SelectedStep == [Next]_vars => selected' = selected
BY DEF Next, vars, Begin, AddNewPod, StartIPerf, WaitForIPerf, DropPending, PodsAdded, ServePod,
   Served, ServeTemplate, ServeLocal, ServeToggled, Assess, Validate, AskForLabel, SetLabel,
   AskForRemoval, RemoveLabel, WaitAgain, ValidateAgain, OthersWrite, RemoveAddedPod,
   RemoveIPerf, PodsRemoved, DeleteService, DeleteToggled, EndFeature, Terminated

(* The types of what the features write.                                    *)
THEOREM ValuesHold == Spec => []ValuesInv
<1>1. Init => ValuesInv
  <2> SUFFICES ASSUME Init PROVE ValuesInv
    OBVIOUS
  <2>1. field \in Fields
    BY DEF Init, Fields
  <2>2. selected \subseteq Feature
    BY DEF Init, Selections
  <2>3. cluster \subseteq Pod /\ addressed \subseteq Pod
    BY DEF Init, Pod, SuitePod
  <2> QED
    BY <2>1, <2>2, <2>3 DEF Init, ValuesInv
<1>2. Control /\ LoopInv /\ BoardInv /\ ValuesInv /\ [Next]_vars => ValuesInv'
  <2> SUFFICES ASSUME Control, LoopInv, BoardInv, ValuesInv, [Next]_vars PROVE ValuesInv'
    OBVIOUS
  <2>1. /\ field' \in Fields /\ cluster' \subseteq Pod /\ addressed' \subseteq Pod
        /\ live' \subseteq Service /\ hollow' \subseteq Service
    BY FieldStep, ClusterStep, AddressedStep, LiveStep
  <2>2. failed' \in BOOLEAN
    BY FlagsStep
  <2>3. aborted' \in BOOLEAN
    BY FlagsStep
  <2>4. selected' \subseteq Feature
    BY SelectedStep DEF ValuesInv
  <2> QED
    BY <2>1, <2>2, <2>3, <2>4 DEF ValuesInv
<1> QED
  BY <1>1, <1>2, ControlHolds, BoardHolds, PTL DEF Spec

(* Type correctness of the composition.                                    *)
THEOREM BoardTypes == Spec => []TypeOK
<1>1. Control /\ LoopInv /\ BoardInv /\ HandleInv /\ ServicesInv /\ ValuesInv => TypeOK
  BY DEF Control, AtPlace, Phase, LoopInv, BoardInv, ModelInv, HandleInv, ServicesInv, ValuesInv,
     Fields, TypeOK
<1> QED
  BY <1>1, ControlHolds, BoardHolds, HandleHolds, ServicesHold, ValuesHold, PTL

-----------------------------------------------------------------------------
(***************************************************************************)
(* The addresses that a validation uses.  While the services of a round are *)
(* made, every pod but those to come has an address, or the feature has a   *)
(* failure; the slice that is served shows all pods of the model.           *)
(***************************************************************************)
Addressing == {"ClusterIP", "LoadBalancer", "ExternalName"}

NoAddress(p) ==
  IF Now = "LoadBalancer"
  THEN field[p].toPort = Blank \/ (field[p].tcpIPs = Blank /\ field[p].udpIPs = Blank)
  ELSE \E x \in Reads(Now) \intersect Field : field[p][x] = Blank

Unserved(p) == NoAddress(p) /\ ~failed

AddressInv ==
  /\ pc = "serve" /\ Now \in Addressing =>
       \A p \in Elements(Pods) : Unserved(p) => p \in Elements(todo)
  /\ pc \in {"assess", "validate"} /\ Now \in Addressing \union {"EndlessService", "SessionAffinity"} =>
       \A p \in Modelled : ~Unserved(p)

LEMMA AddressFacts ==
  /\ Addressing \subseteq PerPod
  /\ Addressing \intersect (Label \union Template \union Serviceless) = {}
  /\ Blank \notin Feature
BY DEF Addressing, PerPod, Label, Template, Serviceless, Blank, Feature

LEMMA HeadIsOut ==
  ASSUME NEW S, NEW list \in Seq(S), list # <<>>
  PROVE  Elements(list) = {Head(list)} \union Elements(Tail(list))
<1>1. /\ Len(list) \in Nat /\ Len(list) >= 1 /\ DOMAIN list = 1 .. Len(list)
      /\ Head(list) = list[1] /\ Elements(Tail(list)) \subseteq Elements(list)
      /\ Head(list) \in Elements(list)
  BY HeadAndTail
<1>2. /\ DOMAIN Tail(list) = 1 .. Len(list) - 1
      /\ \A i \in 1 .. Len(list) - 1 : Tail(list)[i] = list[i + 1]
  BY <1>1
<1>3. ASSUME NEW i \in DOMAIN list, i # 1 PROVE list[i] \in Elements(Tail(list))
  <2>1. i - 1 \in DOMAIN Tail(list) /\ Tail(list)[i - 1] = list[i]
    BY <1>1, <1>2, <1>3
  <2> QED
    BY <2>1 DEF Elements
<1>4. Elements(list) \subseteq {Head(list)} \union Elements(Tail(list))
  BY <1>1, <1>3 DEF Elements
<1> QED
  BY <1>1, <1>4

LEMMA ServePodAddresses ==
  ASSUME Control, ServePod, Now \in Addressing, field \in Fields,
         NEW q \in Pod, q = Head(todo)
  PROVE  /\ \A p \in Pod \ {q} : Unserved(p)' => Unserved(p)
         /\ pc' = "serve" => ~Unserved(q)'
<1>1. Now \in Feature /\ Now' = Now
  BY FeatureFacts, StaysFacts DEF Control, ServePod, GoTo, Stays
<1>20. PICK o \in Outcomes : Round(o)
  BY ServedRounds
<1> DEFINE found == Answered(o)
<1>21. field' = [p \in Pod |-> [x \in Field |->
                   IF p # q \/ x \notin Writes(Now) THEN field[p][x]
                   ELSE IF HasValue(x, found) THEN Now ELSE Blank]]
  BY <1>20 DEF Round
<1>22. failed => failed'
  BY <1>20 DEF Round
<1>3. ASSUME NEW p \in Pod, p # q, Unserved(p)' PROVE Unserved(p)
  <2>1. field'[p] = [x \in Field |-> field[p][x]]
    BY <1>21, <1>3
  <2>2. \A x \in Field : field'[p][x] = field[p][x]
    BY <2>1
  <2>3. {"toPort", "tcpIPs", "udpIPs"} \subseteq Field
    BY DEF Field
  <2>4. ~failed
    BY <1>22, <1>3 DEF Unserved
  <2> QED
    BY <1>1, <1>3, <2>2, <2>3, <2>4 DEF Unserved, NoAddress
<1>4. ASSUME pc' = "serve", ~failed' PROVE ~NoAddress(q)'
  <2>1. \A x \in Writes(Now) \intersect Field :
          field'[q][x] = IF HasValue(x, found) THEN Now ELSE Blank
    BY <1>21
  <2>2. Now # Blank
    BY <1>1, AddressFacts
  <2>3. CASE Now = "LoadBalancer"
    <3>1. found # {} /\ found \subseteq {"tcp", "udp"}
      BY <1>20, <1>4, <2>3, SilentRoundFinds DEF Addressing
    <3>2. /\ HasValue("tcpIPs", found) \/ HasValue("udpIPs", found)
          /\ HasValue("toPort", found)
      BY <2>3, <3>1 DEF HasValue, Source
    <3>3. {"toPort", "tcpIPs", "udpIPs"} \subseteq Writes(Now) \intersect Field
      BY <2>3 DEF Writes, Field, Label
    <3> QED
      BY <1>1, <2>1, <2>2, <2>3, <3>2, <3>3 DEF NoAddress
  <2>4. CASE Now # "LoadBalancer"
    <3>1. Now \in {"ClusterIP", "ExternalName"}
      BY <2>4 DEF Addressing
    <3>2. "all" \in found
      BY <1>20, <1>4, <3>1, SilentRoundFinds
    <3>3. Reads(Now) \subseteq {"clusterIP", "serviceName"} /\ Reads(Now) \subseteq Writes(Now)
      BY <3>1 DEF Reads, Writes, Label
    <3>4. \A x \in Reads(Now) : HasValue(x, found) /\ x \in Field
      BY <3>2, <3>3 DEF HasValue, Source, Field
    <3> QED
      BY <1>1, <2>1, <2>2, <2>4, <3>3, <3>4 DEF NoAddress
  <2> QED
    BY <2>3, <2>4
<1> QED
  BY <1>3, <1>4 DEF Unserved

LEMMA SameAddresses ==
  Stays /\ UNCHANGED <<field, failed>> => \A p : Unserved(p)' <=> Unserved(p)
BY StaysFacts DEF Unserved, NoAddress

LEMMA AddressInvStep ==
  Control /\ LoopInv /\ BoardInv /\ SliceInv /\ ValuesInv /\ AddressInv /\ [Next]_vars
    => AddressInv'
<1> SUFFICES ASSUME Control, LoopInv, BoardInv, SliceInv, ValuesInv, AddressInv, [Next]_vars
             PROVE  AddressInv'
  OBVIOUS
<1> USE DEF AddressInv
<1>0. /\ Now \in Feature /\ ModelInv(Pod) /\ Pods \in Seq(Pod) /\ Elements(Pods) \subseteq Pod
      /\ Now \in Serviceless <=> at[1] \notin TakesPods
  <2>1. ModelInv(Pod) /\ Pods \in Seq(Pod)
    BY ModelFacts DEF BoardInv
  <2>2. Elements(Pods) \subseteq Pod
    BY <2>1 DEF Elements
  <2> QED
    BY <2>1, <2>2, FeatureFacts DEF Control, Serviceless
<1>1. ASSUME pc' \notin {"serve", "assess", "validate"} PROVE AddressInv'
  BY <1>1
<1>2. ASSUME Departs PROVE AddressInv'
  BY <1>2, <1>1, LeaveFacts DEF Departs, Control
<1>3. ASSUME Stays, pc' = pc, UNCHANGED <<todo, model, field, failed>> PROVE AddressInv'
  <2>1. Modelled' = Modelled /\ Pods' = Pods
    BY <1>3 DEF model, Modelled, Listed, Cached, Pods
  <2> QED
    BY <1>3, <2>1, SameAddresses, StaysFacts
<1>4. CASE PodsAdded
  <2>1. /\ Stays /\ Pods' = Pods /\ (Now \in PerPod => todo' = Pods)
        /\ pc' = IF Now \in Serviceless THEN "assess" ELSE "serve"
    BY <1>0, <1>4, ModelUnchanged DEF PodsAdded, GoTo, Stays, board, Serviceless
  <2>2. Now' = Now
    BY <2>1, StaysFacts
  <2> QED
    BY <2>1, <2>2, AddressFacts DEF Serviceless
<1>5. CASE ServePod
  <2>1. /\ Stays /\ Pods' = Pods /\ pc = "serve" /\ todo # <<>> /\ todo' = Tail(todo)
        /\ pc' \in {"serve", "dead"}
    BY <1>0, <1>5, ModelUnchanged DEF ServePod, GoTo, Stays
  <2>2. Now' = Now
    BY <2>1, StaysFacts
  <2>3. CASE Now \in Addressing /\ pc' = "serve"
    <3>1. PICK q \in Pod : q = Head(todo) /\ Elements(todo) = {q} \union Elements(Tail(todo))
      BY <2>1, HeadIsOut, HeadAndTail DEF LoopInv
    <3>2. /\ \A p \in Pod \ {q} : Unserved(p)' => Unserved(p)
          /\ ~Unserved(q)'
      BY <1>5, <2>3, <3>1, ServePodAddresses DEF ValuesInv
    <3>3. \A p \in Elements(Pods) : Unserved(p)' => p \in Elements(Tail(todo))
      BY <1>0, <2>1, <2>3, <3>1, <3>2
    <3> QED
      BY <2>1, <2>3, <3>3
  <2> QED
    BY <1>1, <2>1, <2>2, <2>3
<1>6. CASE Served
  <2>1. /\ Stays /\ UNCHANGED <<model, field, failed>> /\ pc = "serve" /\ todo = <<>>
        /\ pc' = "assess" /\ Now \in PerPod
    BY <1>6 DEF Served, GoTo, Stays, board
  <2>2. HoldsAll
    BY <1>0, <2>1 DEF SliceInv, Entered, Over, Reread, PerPod, Serviceless
  <2>3. Elements(Pods) = Modelled /\ Modelled' = Modelled
    BY <1>0, <2>1, <2>2, HoldsAllShowsModel DEF model, Modelled, Listed, Cached
  <2>4. Now' = Now /\ Now \notin {"EndlessService", "SessionAffinity"} /\ Elements(<<>>) = {}
    BY <2>1, StaysFacts DEF PerPod, Elements
  <2> QED
    BY <2>1, <2>3, <2>4, SameAddresses
<1>7. CASE ServeTemplate
  <2>1. /\ Stays /\ pc = "serve" /\ Now \in Template /\ pc' \in {"assess", "dead"}
    BY <1>7 DEF ServeTemplate, GoTo, Stays
  <2>2. Now' = Now
    BY <2>1, StaysFacts
  <2>3. CASE pc' = "assess" /\ Now \in {"EndlessService", "SessionAffinity"}
    <3>1. field' = Written(Elements(Pods'), Writes(Now), Now) /\ TakeSlice
      BY <1>7, <2>3 DEF ServeTemplate, GoTo
    <3>2. HoldsAll' /\ ModelInv(Pod)'
      <4>1. CASE Now = "SessionAffinity"
        BY <1>0, <3>1, <4>1, TakeAllPodsFacts DEF TakeSlice
      <4>2. CASE Now = "EndlessService"
        <5>1. HoldsAll
          BY <1>0, <2>1, <4>2 DEF SliceInv, Entered, Over, Reread, Serviceless
        <5>2. UNCHANGED model
          BY <3>1, <4>2 DEF TakeSlice
        <5> QED
          BY <1>0, <5>1, <5>2, HeldUnchanged, ModelUnchanged
      <4> QED
        BY <2>3, <4>1, <4>2
    <3>3. Elements(Pods') = Modelled'
      BY <3>2 DEF HoldsAll, Pods, Modelled, Cached
    <3>4. Modelled' \subseteq Pod
      <4>1. array' \in Seq(Pod) /\ size' \in 0 .. Len(array') /\ size' # Nil
        BY <3>2 DEF ModelInv, ModelType, HoldsAll
      <4>2. SubSeq(array', 1, size') \in Seq(Pod)
        BY <4>1
      <4> QED
        BY <4>1, <4>2 DEF Modelled, Cached, Elements
    <3>5. ASSUME NEW p \in Modelled' PROVE ~NoAddress(p)'
      <4>1. p \in Pod /\ p \in Elements(Pods')
        BY <3>3, <3>4
      <4>2. \A x \in Writes(Now) \intersect Field : field'[p][x] = Now
        BY <3>1, <4>1 DEF Written
      <4>3. Reads(Now) \subseteq Writes(Now) \intersect Field /\ Now # "LoadBalancer"
        BY <2>3 DEF Reads, Writes, Field, Label
      <4> QED
        BY <1>0, <2>2, <4>2, <4>3, AddressFacts DEF NoAddress
    <3> QED
      BY <2>3, <3>5 DEF Unserved
  <2>4. Now \notin Addressing
    BY <2>1, AddressFacts
  <2> QED
    BY <1>1, <2>1, <2>2, <2>3, <2>4
<1>8. CASE ServeLocal \/ ServeToggled
  <2>1. Stays \/ Departs
    BY <1>8 DEF ServeLocal, ServeToggled, FatalHere, GoTo, Stays, Departs
  <2>2. /\ Departs \/ pc' \notin {"serve", "validate"}
        /\ Now \in Label \union {"NodePortLocal"}
    BY <1>8 DEF ServeLocal, ServeToggled, FatalHere, GoTo, Departs
  <2>3. Now \notin Addressing \union {"EndlessService", "SessionAffinity"}
    BY <2>2 DEF Addressing, Label
  <2> QED
    BY <1>2, <2>1, <2>3, StaysFacts
<1>9. CASE Assess
  <2>1. /\ Stays /\ pc = "assess" /\ UNCHANGED <<model, failed>>
        /\ pc' \in {"validate", "validateUp"}
        /\ Now \notin Label \union {"PerfTesting", "Bandwidth"} => field' = field
    BY <1>9 DEF Assess, GoTo, Stays
  <2>2. Now' = Now /\ Modelled' = Modelled
    BY <2>1, StaysFacts DEF model, Modelled, Listed, Cached
  <2>3. CASE Now \in Addressing \union {"EndlessService", "SessionAffinity"}
    <3>1. field' = field
      BY <2>1, <2>3 DEF Addressing, Label
    <3> QED
      BY <2>1, <2>2, <2>3, <3>1, SameAddresses
  <2> QED
    BY <2>1, <2>2, <2>3
<1>10. CASE OthersWrite \/ Terminated \/ UNCHANGED vars
  BY <1>3, <1>10 DEF OthersWrite, Terminated, vars, board, Stays
<1>11. CASE \/ Begin \/ AddNewPod \/ StartIPerf \/ WaitForIPerf \/ DropPending
            \/ Validate \/ AskForLabel \/ SetLabel \/ AskForRemoval \/ RemoveLabel \/ WaitAgain
            \/ ValidateAgain \/ RemoveAddedPod \/ RemoveIPerf \/ PodsRemoved
            \/ DeleteService \/ DeleteToggled \/ EndFeature
  <2>1. Departs \/ pc' \notin {"serve", "assess", "validate"}
    BY <1>11 DEF Begin, AddNewPod, StartIPerf, WaitForIPerf, DropPending, Validate, AskForLabel,
       SetLabel, AskForRemoval, RemoveLabel, WaitAgain, ValidateAgain, RemoveAddedPod, RemoveIPerf,
       PodsRemoved, DeleteService, DeleteToggled, EndFeature, StopDeleting, MustOrFatal, Fatal,
       GoTo, Departs
  <2> QED
    BY <1>1, <1>2, <2>1
<1> QED
  BY <1>4, <1>5, <1>6, <1>7, <1>8, <1>9, <1>10, <1>11 DEF Next

(* Where a validation probes nothing and no failure was reported, it is one *)
(* of four things: a pod that the start-up left without its own IPs, a node *)
(* port, the cluster IP of hairpin or of a label feature, or a load balancer *)
(* with an entry for the other protocol or without an IP; every other       *)
(* feature has reported it (probe.go:50-75, tests/).                        *)
THEOREM BlanksAreReported == Spec => []BlankReadsAreReported
<1>1. Init => AddressInv
  BY DEF Init, AddressInv
<1>2. Control /\ AddressInv => BlankReadsAreReported
  <2> SUFFICES ASSUME Control, AddressInv, Validating, ~failed,
                      NEW p \in Modelled, NEW x \in Reads(Now), Lacks(p, x),
                      ~SaysNothing(x), ~IsCovered(p, x)
               PROVE  FALSE
    BY DEF BlankReadsAreReported, BlankReads, Probed
  <2>1. Now \in Feature /\ x \notin {"podIP", "hostIP"}
    BY FeatureFacts DEF Control, SaysNothing
  <2>2. CASE NoAddress(p)
    <3>1. Now \in Label \union {"NodePort", "NodePortLocal", "Hairpin"}
      <4>1. CASE pc = "validate"
        <5>1. Now \notin Addressing \union {"EndlessService", "SessionAffinity"}
          BY <2>2, <4>1 DEF AddressInv, Unserved
        <5>2. Now \notin Serviceless
          BY <2>2 DEF NoAddress, Reads, Field, Serviceless
        <5> QED
          BY <2>1, <5>1, <5>2 DEF Feature, Addressing, Serviceless, Label
      <4>2. CASE pc # "validate"
        BY <4>2 DEF Validating, Control, Toggling
      <4> QED
        BY <4>1, <4>2
    <3>2. CASE Now \in Label \union {"Hairpin"}
      <4>1. x = "clusterIP"
        BY <3>2 DEF Reads, Writes, Label
      <4> QED
        BY <3>2, <4>1 DEF SaysNothing
    <3>3. CASE Now \in {"NodePort", "NodePortLocal"}
      BY <2>1, <3>3 DEF Reads, SaysNothing
    <3> QED
      BY <3>1, <3>2, <3>3
  <2>3. CASE ~NoAddress(p) /\ Now = "LoadBalancer"
    <3>1. x \in {"toPort", "tcpIPs", "udpIPs"}
      BY <2>3 DEF Reads, Writes, Label
    <3> QED
      BY <2>3, <3>1 DEF NoAddress, Lacks, IsCovered
  <2>4. CASE ~NoAddress(p) /\ Now # "LoadBalancer"
    <3>1. x \notin {"tcpIPs", "udpIPs"}
      BY <2>4 DEF Reads, Writes
    <3> QED
      BY <2>1, <2>4, <3>1 DEF NoAddress, Lacks
  <2> QED
    BY <2>2, <2>3, <2>4
<1> QED
  BY <1>1, <1>2, AddressInvStep, ControlHolds, BoardHolds, SliceHolds, ValuesHold, PTL DEF Spec

-----------------------------------------------------------------------------
(***************************************************************************)
(* A run in which no feature is aborted: what is left in the fields of its   *)
(* pods, and, when the bandwidth test does not run either, what it has of the *)
(* pods of the suite.  First, for every run, where it is in its loops.       *)
(***************************************************************************)
Undisturbed == ~aborted /\ "Bandwidth" \notin selected

RunInv ==
  /\ selected \in Selections
  /\ pc \notin {"begin", "over", "dead"} => Now \in selected
  /\ pc = "over" => at[1] = 6
  /\ pc \in {"addPods", "remove"} => Elements(todo) \subseteq Elements(Added(Now))
  /\ pc = "serve" /\ Now \in PerPod => Elements(todo) \subseteq Elements(Pods)

LEMMA OverIsLast == AtPlace /\ Departs /\ pc' = "over" => at[1] = 6 /\ at' = at
<1> SUFFICES ASSUME AtPlace, Departs, pc' = "over" PROVE at[1] = 6 /\ at' = at
  OBVIOUS
<1>1. at[1] \in 1 .. 6 /\ Len(Suite) = 6
  BY DEF AtPlace, Suite
<1>2. ~(at[1] < 6) /\ at' = at
  BY <1>1 DEF Departs, Leave, NextFunction, GoTo
<1> QED
  BY <1>1, <1>2

LEMMA RunInvStep ==
  Control /\ LoopInv /\ BoardInv /\ RunInv /\ [Next]_vars => RunInv'
<1> SUFFICES ASSUME Control, LoopInv, BoardInv, RunInv, [Next]_vars PROVE RunInv'
  OBVIOUS
<1> USE DEF RunInv
<1>0. selected' = selected /\ ModelInv(Pod) /\ Elements(<<>>) = {} /\ todo \in Seq(Pod)
  BY SelectedStep DEF BoardInv, Elements, LoopInv
<1>1. ASSUME Departs PROVE RunInv'
  BY <1>0, <1>1, LeaveFacts, OverIsLast DEF Control, Departs
<1>2. ASSUME Stays, pc' = pc, todo' = todo, UNCHANGED model PROVE RunInv'
  BY <1>0, <1>2, ModelUnchanged, StaysFacts DEF Stays
<1>3. ASSUME Stays, pc \notin {"begin", "over", "dead"}, pc' \notin {"addPods", "remove", "serve", "over"}
      PROVE  RunInv'
  BY <1>0, <1>3, StaysFacts
<1>4. ASSUME Stays, pc \notin {"begin", "over", "dead"}, todo' = <<>>, pc' # "over" PROVE RunInv'
  BY <1>0, <1>4, StaysFacts
<1>5. CASE Begin
  <2>1. CASE GoTo("dead") \/ Leave
    BY <1>0, <1>1, <2>1 DEF GoTo, Departs
  <2>2. CASE Now \in selected /\ GoTo("addPods") /\ todo' = Added(Now)
    BY <1>0, <2>2, StaysFacts DEF GoTo, Stays
  <2> QED
    BY <1>5, <2>1, <2>2 DEF Begin
<1>6. CASE AddNewPod
  <2>1. CASE Fatal
    BY <1>1, <2>1 DEF Fatal, Departs
  <2>2. CASE todo' = Tail(todo) /\ UNCHANGED <<at, pc>>
    <3>1. Elements(Tail(todo)) \subseteq Elements(todo) /\ pc = "addPods"
      BY <1>0, <1>6, HeadAndTail DEF AddNewPod
    <3> QED
      BY <1>0, <2>2, <3>1, StaysFacts DEF Stays
  <2> QED
    BY <1>6, <2>1, <2>2 DEF AddNewPod
<1>7. CASE StartIPerf \/ WaitForIPerf \/ DropPending
  BY <1>3, <1>7 DEF StartIPerf, WaitForIPerf, DropPending, GoTo, Stays
<1>8. CASE PodsAdded
  <2>1. /\ Stays /\ pc \in {"pending", "addPods"} /\ pc' \in {"assess", "serve"}
        /\ todo' = (IF Now \in PerPod THEN Pods ELSE <<>>) /\ Pods' = Pods
    BY <1>0, <1>8, ModelUnchanged DEF PodsAdded, GoTo, Stays, board
  <2> QED
    BY <1>0, <2>1, StaysFacts
<1>9. CASE ServePod
  <2>1. /\ Stays /\ pc = "serve" /\ pc' \in {"serve", "dead"} /\ Now \in PerPod
        /\ todo' = Tail(todo) /\ Pods' = Pods /\ Elements(Tail(todo)) \subseteq Elements(todo)
    BY <1>0, <1>9, ModelUnchanged, HeadAndTail DEF ServePod, GoTo, Stays
  <2> QED
    BY <1>0, <2>1, StaysFacts
<1>10. CASE Served \/ ServeTemplate \/ ServeLocal \/ ServeToggled \/ Assess
  BY <1>1, <1>3, <1>10 DEF Served, ServeTemplate, ServeLocal, ServeToggled, Assess, FatalHere, GoTo,
     Stays, Departs
<1>11. CASE Validate
  <2>1. /\ Stays /\ pc = "validate" /\ pc' = "remove"
        /\ todo' = Added(Now) \/ todo' = <<>>
    BY <1>11 DEF Validate, GoTo, Stays
  <2> QED
    BY <1>0, <2>1, StaysFacts
<1>12. CASE AskForLabel \/ SetLabel \/ AskForRemoval \/ RemoveLabel \/ WaitAgain \/ ValidateAgain
  <2>1. Stays /\ pc \in Toggling /\ pc' # "over" /\ todo' = todo
    BY <1>12 DEF AskForLabel, SetLabel, AskForRemoval, RemoveLabel, WaitAgain, ValidateAgain,
       MustOrFatal, GoTo, Stays, Toggling
  <2> QED
    BY <1>4, <2>1 DEF Control, LoopInv, Toggling
<1>13. CASE RemoveAddedPod
  <2>1. CASE Fatal
    BY <1>1, <2>1 DEF Fatal, Departs
  <2>2. CASE todo' = Tail(todo) /\ UNCHANGED <<at, pc>>
    <3>1. Elements(Tail(todo)) \subseteq Elements(todo) /\ pc = "remove"
      BY <1>0, <1>13, HeadAndTail DEF RemoveAddedPod
    <3> QED
      BY <1>0, <2>2, <3>1, StaysFacts DEF Stays
  <2> QED
    BY <1>13, <2>1, <2>2 DEF RemoveAddedPod
<1>14. CASE RemoveIPerf \/ PodsRemoved \/ DeleteService \/ DeleteToggled \/ EndFeature
  BY <1>1, <1>3, <1>14 DEF RemoveIPerf, PodsRemoved, DeleteService, DeleteToggled, EndFeature,
     StopDeleting, Fatal, GoTo, Stays, Departs
<1>15. CASE OthersWrite \/ Terminated \/ UNCHANGED vars
  BY <1>2, <1>15 DEF OthersWrite, Terminated, vars, board, Stays
<1> QED
  BY <1>5, <1>6, <1>7, <1>8, <1>9, <1>10, <1>11, <1>12, <1>13, <1>14, <1>15 DEF Next

(* Where a run is in its loops, for every selection of features.            *)
THEOREM RunHolds == Spec => []RunInv
<1>1. Init => RunInv
  BY DEF Init, RunInv
<1> QED
  BY <1>1, RunInvStep, ControlHolds, BoardHolds, PTL DEF Spec

LEMMA NotAbortedStep ==
  [Next]_vars /\ ~aborted' =>
    /\ ~aborted
    /\ pc' # "dead" => pc # "dead"
    /\ pc' \notin {"over", "dead"} => pc # "over"
    /\ ~Fatal /\ ~FatalHere
<1> SUFFICES ASSUME [Next]_vars, ~aborted'
             PROVE  /\ ~aborted
                    /\ pc' # "dead" => pc # "dead"
                    /\ pc' \notin {"over", "dead"} => pc # "over"
                    /\ ~Fatal /\ ~FatalHere
  OBVIOUS
<1> USE DEF Begin, AddNewPod, StartIPerf, WaitForIPerf, DropPending, PodsAdded, ServePod, Served,
     ServeTemplate, ServeLocal, ServeToggled, Assess, Validate, AskForLabel, SetLabel, AskForRemoval,
     RemoveLabel, WaitAgain, ValidateAgain, OthersWrite, RemoveAddedPod, RemoveIPerf, PodsRemoved,
     DeleteService, DeleteToggled, EndFeature, Terminated, StopDeleting, Fatal, FatalHere, GoTo
<1>1. aborted' = aborted \/ aborted' = TRUE
  BY DEF Next, vars
<1>2. /\ pc' # "dead" => pc # "dead"
      /\ pc' \notin {"over", "dead"} => pc # "over"
  BY DEF Next, vars, Over
<1> QED
  BY <1>1, <1>2

LEMMA UndisturbedStep ==
  RunInv /\ [Next]_vars /\ Undisturbed' =>
    /\ Undisturbed
    /\ pc' # "dead" => pc # "dead"
    /\ Now = "Bandwidth" => pc \in {"begin", "over", "dead"}
    /\ ~Fatal /\ ~FatalHere
<1>1. [Next]_vars /\ Undisturbed' => Undisturbed
  BY NotAbortedStep, SelectedStep DEF Undisturbed
<1>2. RunInv /\ Undisturbed /\ Now = "Bandwidth" => pc \in {"begin", "over", "dead"}
  BY DEF RunInv, Undisturbed
<1> QED
  BY <1>1, <1>2, NotAbortedStep DEF Undisturbed

LEMMA LeaveMoves ==
  AtPlace /\ Leave =>
    \/ /\ at[2] < Len(Suite[at[1]]) /\ at' = <<at[1], at[2] + 1>>
       /\ pc' = "begin" /\ at'[1] = at[1] /\ at'[2] # 1
    \/ /\ at[2] = Len(Suite[at[1]]) /\ at' = <<at[1] + 1, 1>>
       /\ pc' = "begin" /\ at'[1] = at[1] + 1 /\ at'[2] = 1
    \/ at' = at /\ pc' = "over" /\ at[1] = 6
<1> SUFFICES ASSUME AtPlace, Leave
             PROVE  \/ /\ at[2] < Len(Suite[at[1]]) /\ at' = <<at[1], at[2] + 1>>
                       /\ pc' = "begin" /\ at'[1] = at[1] /\ at'[2] # 1
                    \/ /\ at[2] = Len(Suite[at[1]]) /\ at' = <<at[1] + 1, 1>>
                       /\ pc' = "begin" /\ at'[1] = at[1] + 1 /\ at'[2] = 1
                    \/ at' = at /\ pc' = "over" /\ at[1] = 6
  OBVIOUS
<1> DEFINE last == Len(Suite[at[1]])
<1>1. /\ at[1] \in 1 .. 6 /\ at[2] \in 1 .. last /\ Len(Suite) = 6 /\ last \in 1 .. 6
  BY DEF AtPlace, Suite
<1>2. /\ at[2] < last => at' = <<at[1], at[2] + 1>> /\ pc' = "begin"
      /\ ~(at[2] < last) /\ at[1] < 6 => at' = <<at[1] + 1, 1>> /\ pc' = "begin"
      /\ ~(at[2] < last) /\ ~(at[1] < 6) => at' = at /\ pc' = "over"
  BY <1>1 DEF Leave, NextFunction, GoTo
<1> HIDE DEF last
<1>3. at[2] < last \/ at[2] = last
  BY <1>1
<1>4. CASE at[2] < last
  <2>1. at'[1] = at[1] /\ at'[2] = at[2] + 1 /\ at[2] + 1 # 1
    BY <1>1, <1>2, <1>4
  <2> QED
    BY <1>2, <1>4, <2>1 DEF last
<1>5. CASE at[2] = last /\ at[1] < 6
  <2>1. at' = <<at[1] + 1, 1>> /\ pc' = "begin"
    BY <1>1, <1>2, <1>5
  <2> QED
    BY <1>5, <2>1 DEF last
<1>6. CASE at[2] = last /\ ~(at[1] < 6)
  BY <1>1, <1>2, <1>6
<1> QED
  BY <1>3, <1>4, <1>5, <1>6

(* The pods of SessionAffinity are there while it runs, and the one of       *)
(* HostNetwork is there when there was none of its name.                     *)
Guests ==
  IF Now # "SessionAffinity" \/ pc \in {"begin", "delete"} THEN {}
  ELSE IF pc = "remove" THEN Elements(todo) ELSE {"paf-0", "paf-1"}

Departing ==
  IF Now = "HostNetwork" /\ pc \notin {"begin", "over"} /\ ~(pc = "addPods" /\ todo # <<>>)
  THEN {"pod-5"} ELSE {}

Remaining == (Elements(namespace.suite) \intersect SuitePod) \ Departing

Early == at[1] < 3 \/ (at[1] = 3 /\ ~Entered)

PodsInv ==
  Undisturbed /\ pc # "dead" =>
    /\ Elements(namespace.iperf) = {}
    /\ Early => Elements(namespace.suite) \subseteq SuitePod \union Guests
    /\ ~Early => Remaining # {}

LEMMA NowAt ==
  AtPlace => /\ at[1] \in 1 .. 6
             /\ Now = "SessionAffinity" <=> at[1] = 2 /\ at[2] = 6
             /\ Now = "HostNetwork" <=> at[1] = 5
             /\ Now = "PerfTesting" <=> at[1] = 4
             /\ Now \in Label <=> at[1] = 6
             /\ at[1] = 2 => Len(Suite[at[1]]) = 6
             /\ at[1] = 3 => Len(Suite[at[1]]) = 2
             /\ Now \in Removing => Now # "Bandwidth"
<1> SUFFICES ASSUME AtPlace
             PROVE  /\ at[1] \in 1 .. 6
                    /\ Now = "SessionAffinity" <=> at[1] = 2 /\ at[2] = 6
                    /\ Now = "HostNetwork" <=> at[1] = 5
                    /\ Now = "PerfTesting" <=> at[1] = 4
                    /\ Now \in Label <=> at[1] = 6
                    /\ at[1] = 2 => Len(Suite[at[1]]) = 6
                    /\ at[1] = 3 => Len(Suite[at[1]]) = 2
                    /\ Now \in Removing => Now # "Bandwidth"
  OBVIOUS
<1>1. at[1] \in 1 .. 6 /\ Len(Suite[2]) = 6 /\ Len(Suite[3]) = 2
  BY DEF AtPlace, Suite
<1> QED
  BY <1>1, Places DEF Placed, Label, Removing

LEMMA PodsInvStep ==
  Control /\ LoopInv /\ BoardInv /\ RunInv /\ PodsInv /\ [Next]_vars => PodsInv'
<1> SUFFICES ASSUME Control, LoopInv, BoardInv, RunInv, PodsInv, [Next]_vars,
                    Undisturbed', pc' # "dead"
             PROVE  /\ Elements(namespace'.iperf) = {}
                    /\ Early' => Elements(namespace'.suite) \subseteq SuitePod \union Guests'
                    /\ ~Early' => Remaining' # {}
  BY DEF PodsInv
<1> DEFINE Goal == /\ Elements(namespace'.iperf) = {}
                   /\ Early' => Elements(namespace'.suite) \subseteq SuitePod \union Guests'
                   /\ ~Early' => Remaining' # {}
<1>0. /\ Elements(namespace.iperf) = {}
      /\ Early => Elements(namespace.suite) \subseteq SuitePod \union Guests
      /\ ~Early => Remaining # {}
      /\ pc # "dead" /\ ~Fatal /\ ~FatalHere
      /\ Now = "Bandwidth" => pc \in {"begin", "over"}
      /\ AtPlace /\ ModelInv(Pod) /\ todo \in Seq(Pod) /\ Elements(<<>>) = {}
  <2>1. /\ Undisturbed /\ pc # "dead" /\ ~Fatal /\ ~FatalHere
        /\ Now = "Bandwidth" => pc \in {"begin", "over"}
    BY UndisturbedStep
  <2>2. AtPlace /\ ModelInv(Pod) /\ todo \in Seq(Pod) /\ Elements(<<>>) = {}
    BY DEF Control, BoardInv, LoopInv, Elements
  <2> QED
    BY <2>1, <2>2 DEF PodsInv
\* A feature is left.
<1>1. ASSUME Leave, UNCHANGED namespace, pc \notin {"begin", "over"},
             Now = "SessionAffinity" => pc = "delete"
      PROVE  Goal
  <2>1. Departing' = {} /\ Departing' \subseteq Departing /\ Entered
    BY <1>0, <1>1, LeaveMoves DEF Departing, Entered
  <2>2. Guests = {}
    BY <1>1 DEF Guests
  <2>3. Early' => Early
    BY <1>0, <1>1, LeaveMoves, NowAt DEF Early, Entered
  <2>4. ~Early' => ~Early
    BY <1>0, <1>1, <2>1, LeaveMoves, NowAt DEF Early, Entered
  <2> QED
    BY <1>0, <1>1, <2>1, <2>2, <2>3, <2>4 DEF Remaining
\* A feature goes on with the same pods.
<1>2. ASSUME Stays, UNCHANGED namespace, pc # "begin", pc' # "begin",
             Guests \subseteq Guests', Departing' \subseteq Departing
      PROVE  Goal
  BY <1>0, <1>2 DEF Stays, Early, Entered, Remaining
<1>3. ASSUME Stays, UNCHANGED namespace, pc # "begin", pc' # "begin",
             Now \notin Removing
      PROVE  Goal
  <2>1. Guests = {} /\ Departing' = {}
    BY <1>3, StaysFacts DEF Guests, Departing, Removing
  <2> QED
    BY <1>2, <1>3, <2>1
<1>4. ASSUME Stays, UNCHANGED namespace,
             pc \in {"serve", "assess", "validate"} \/ (pc = "addPods" /\ todo = <<>>),
             pc' \in {"serve", "assess", "validate"}
      PROVE  Goal
  BY <1>2, <1>4, StaysFacts DEF Guests, Departing
<1>5. ASSUME UNCHANGED <<at, pc, todo, namespace>> PROVE Goal
  <2>1. Now' = Now /\ Guests' = Guests /\ Departing' = Departing /\ (Early' <=> Early)
    BY <1>5 DEF Now, Guests, Departing, Early, Entered
  <2> QED
    BY <1>0, <1>5, <2>1 DEF Remaining
<1>6. CASE Begin
  <2>1. /\ namespace' = namespace /\ pc = "begin"
        /\ Leave \/ (Stays /\ pc' = "addPods" /\ todo' = Added(Now))
    BY <1>6 DEF Begin, Enter, TakeAllPods, GoTo, Stays, model
  <2>2. Guests = {} /\ Departing = {} /\ Departing' = {}
    <3>1. CASE Leave
      BY <1>0, <2>1, <3>1, LeaveMoves DEF Guests, Departing
    <3>2. CASE Stays /\ pc' = "addPods" /\ todo' = Added(Now)
      BY <2>1, <3>2, StaysFacts DEF Guests, Departing, Added
    <3> QED
      BY <2>1, <3>1, <3>2
  <2>3. CASE at[1] < 3
    <3>1. Early /\ Early'
      BY <1>0, <2>1, <2>3, LeaveMoves, NowAt DEF Early, Entered, Stays
    <3> QED
      BY <1>0, <2>1, <2>2, <3>1
  <2>4. CASE at[1] = 3 /\ at[2] = 1
    <3>1. Early /\ ~Early'
      BY <1>0, <2>1, <2>4, LeaveMoves, NowAt DEF Early, Entered, Stays
    <3>2. HoldsAll' /\ Modelled' = Modelled /\ Pods' # <<>>
      BY <1>0, <1>6, <2>1, <2>4, TakeAllPodsFacts
         DEF Begin, Enter, TakesPods, TakesFirst, NoFirst, GoTo
    <3>3. Elements(Pods') = Modelled'
      BY <3>2 DEF HoldsAll, Pods, Modelled, Cached
    <3>4. Pods' \in Seq(Pod)
      <4>1. ModelInv(Pod)'
        BY <1>0, <1>6, <2>1, <2>4, TakeAllPodsFacts DEF Begin, Enter, TakesPods
      <4>2. array' \in Seq(Pod) /\ size' \in 0 .. Len(array') /\ slice'.shared /\ slice'.length = size'
        BY <3>2, <4>1 DEF ModelInv, ModelType, HoldsAll
      <4>3. SubSeq(array', 1, size') \in Seq(Pod)
        BY <4>2
      <4> QED
        BY <4>2, <4>3 DEF Pods
    <3>5. Elements(Pods') # {}
      <4>1. 1 \in DOMAIN Pods'
        BY <3>2, <3>4
      <4> QED
        BY <4>1 DEF Elements
    <3>6. Modelled = Elements(namespace.suite)
      BY <1>0, ModelFacts
    <3> QED
      BY <1>0, <2>1, <2>2, <3>1, <3>2, <3>3, <3>5, <3>6 DEF Remaining
  <2>5. CASE at[1] > 3 \/ (at[1] = 3 /\ at[2] # 1)
    <3>1. ~Early /\ ~Early'
      BY <1>0, <2>1, <2>5, LeaveMoves, NowAt DEF Early, Entered, Stays
    <3> QED
      BY <1>0, <2>1, <2>2, <3>1 DEF Remaining
  <2> QED
    BY <1>0, <2>3, <2>4, <2>5, NowAt
<1>7. CASE AddNewPod
  <2>1. /\ pc = "addPods" /\ Now # "Bandwidth" /\ todo # <<>> /\ Now \in Adding
        /\ AddPod(Head(todo)) /\ Head(todo) \notin cluster /\ todo' = Tail(todo) /\ UNCHANGED <<at, pc>>
    BY <1>0, <1>7 DEF AddNewPod, LoopInv
  <2>2. PICK p \in Pod : p = Head(todo) /\ p \in Elements(Added(Now))
    BY <1>0, <2>1, HeadAndTail DEF RunInv
  <2>3. p \notin Elements(namespace.suite) /\ p \notin Elements(Listed)
    <3>1. Elements(Listed) = Elements(namespace.suite) \union Elements(namespace.iperf)
      BY <1>0, ModelFacts
    <3> QED
      BY <1>0, <2>1, <2>2, <3>1 DEF BoardInv
  <2>4. /\ namespace'.iperf = namespace.iperf
        /\ Elements(namespace'.suite) = Elements(namespace.suite) \union {p}
    BY <1>0, <2>1, <2>2, <2>3, AddPodFacts
  <2>5. Stays /\ Now' = Now /\ (Early' <=> Early)
    BY <2>1, StaysFacts DEF Stays, Early, Entered
  <2>6. CASE Now = "SessionAffinity"
    <3>1. Early /\ Guests = {"paf-0", "paf-1"} /\ Guests' = {"paf-0", "paf-1"}
      BY <1>0, <2>1, <2>5, <2>6, NowAt DEF Early, Guests
    <3>2. p \in {"paf-0", "paf-1"}
      BY <2>2, <2>6 DEF Added, Elements
    <3> QED
      BY <1>0, <2>4, <2>5, <3>1, <3>2
  <2>7. CASE Now # "SessionAffinity"
    <3>1. Now \in {"PerfTesting", "HostNetwork"} /\ ~Early
      BY <1>0, <2>1, <2>7, NowAt DEF Adding, Removing, Early, Entered
    <3>2. Departing = {}
      BY <2>1 DEF Departing
    <3>3. Now = "HostNetwork" => p = "pod-5"
      BY <2>2 DEF Added, Elements
    <3>4. Departing' \subseteq {p}
      BY <2>5, <3>3 DEF Departing
    <3> QED
      BY <1>0, <2>3, <2>4, <2>5, <3>1, <3>2, <3>4 DEF Remaining
  <2> QED
    BY <2>6, <2>7
<1>8. CASE StartIPerf \/ WaitForIPerf \/ DropPending \/ RemoveIPerf
  BY <1>0, <1>8 DEF StartIPerf, WaitForIPerf, DropPending, RemoveIPerf, Control
<1>9. CASE PodsAdded
  <2>1. /\ Stays /\ UNCHANGED namespace /\ pc = "addPods" /\ todo = <<>>
        /\ pc' \in {"serve", "assess"}
    BY <1>0, <1>9 DEF PodsAdded, GoTo, Stays, board, model, Control
  <2> QED
    BY <1>4, <2>1
<1>10. CASE ServePod \/ Served \/ ServeLocal \/ ServeToggled
  <2>1. /\ Stays /\ UNCHANGED namespace /\ pc = "serve" /\ pc' # "begin"
        /\ Now \in PerPod \union Label \union {"NodePortLocal"}
    BY <1>0, <1>10 DEF ServePod, Served, ServeLocal, ServeToggled, GoTo, Stays, board, model
  <2>2. Now \notin Removing
    BY <2>1 DEF PerPod, Label, Removing
  <2> QED
    BY <1>3, <2>1, <2>2
<1>11. CASE ServeTemplate
  <2>1. Stays /\ UNCHANGED namespace /\ pc = "serve" /\ pc' \in {"assess", "dead"}
    BY <1>11 DEF ServeTemplate, GoTo, Stays, model, TakeSlice, TakeAllPods
  <2> QED
    BY <1>4, <2>1
<1>12. CASE Assess
  <2>1. /\ Stays /\ UNCHANGED namespace /\ pc = "assess"
        /\ pc' = IF Now \in Label THEN "validateUp" ELSE "validate"
    BY <1>12 DEF Assess, GoTo, Stays, model
  <2>2. Label \intersect Removing = {}
    BY DEF Label, Removing
  <2> QED
    BY <1>3, <1>4, <2>1, <2>2
<1>13. CASE Validate
  <2>1. /\ Stays /\ UNCHANGED namespace /\ pc = "validate" /\ pc' = "remove"
        /\ Now \in {"SessionAffinity", "HostNetwork"} => todo' = Added(Now)
    BY <1>13 DEF Validate, GoTo, Stays, board, model
  <2>2. Elements(Added("SessionAffinity")) = {"paf-0", "paf-1"}
    BY DEF Added, Elements
  <2>3. Guests \subseteq Guests' /\ Departing' \subseteq Departing
    BY <2>1, <2>2, StaysFacts DEF Guests, Departing
  <2> QED
    BY <1>2, <2>1, <2>3
<1>14. CASE AskForLabel \/ SetLabel \/ AskForRemoval \/ RemoveLabel \/ WaitAgain \/ ValidateAgain
  <2>1. Stays /\ UNCHANGED namespace /\ pc \in Toggling /\ pc' # "begin"
    BY <1>14 DEF AskForLabel, SetLabel, AskForRemoval, RemoveLabel, WaitAgain, ValidateAgain,
       MustOrFatal, GoTo, Stays, Toggling, board, model
  <2>2. Now \notin Removing /\ pc # "begin"
    BY <2>1 DEF Control, Label, Removing, Toggling
  <2> QED
    BY <1>3, <2>1, <2>2
<1>15. CASE OthersWrite \/ Terminated \/ UNCHANGED vars
  BY <1>5, <1>15 DEF OthersWrite, Terminated, vars, board, model
<1>16. CASE RemoveAddedPod
  <2>1. /\ pc = "remove" /\ todo # <<>> /\ Now \in Removing
        /\ RemovePod(Head(todo), "suite") /\ todo' = Tail(todo) /\ UNCHANGED <<at, pc>>
    BY <1>0, <1>16 DEF RemoveAddedPod, LoopInv
  <2>2. PICK p \in Pod : /\ p = Head(todo) /\ p \in Elements(Added(Now))
                         /\ Elements(todo) = {p} \union Elements(Tail(todo))
    BY <1>0, <2>1, HeadAndTail, HeadIsOut DEF RunInv
  <2>3. p \in Elements(Listed) => p \in Elements(namespace["suite"])
    <3>1. Elements(Listed) = Elements(namespace.suite) \union Elements(namespace.iperf)
      BY <1>0, ModelFacts
    <3> QED
      BY <1>0, <3>1
  <2>4. RemovePod(p, "suite")
    BY <2>1, <2>2
  <2>5. /\ Elements(namespace'.suite) = Elements(namespace.suite) \ {p}
        /\ Elements(namespace'.iperf) = Elements(namespace.iperf)
    BY <1>0, <2>3, <2>4, RemovePodFacts
  <2>6. Now' = Now /\ (Early' <=> Early)
    BY <2>1, StaysFacts DEF Stays, Early, Entered
  <2>7. CASE Now = "SessionAffinity"
    <3>1. Early /\ Guests = Elements(todo) /\ Guests' = Elements(Tail(todo))
      BY <1>0, <2>1, <2>6, <2>7, NowAt DEF Early, Guests
    <3> QED
      BY <1>0, <2>2, <2>5, <2>6, <3>1
  <2>8. CASE Now = "HostNetwork"
    <3>1. p = "pod-5" /\ ~Early
      BY <1>0, <2>2, <2>8, NowAt DEF Added, Elements, Early
    <3>2. Departing = {"pod-5"} /\ Departing' = {"pod-5"}
      BY <2>1, <2>6, <2>8 DEF Departing
    <3> QED
      BY <1>0, <2>5, <2>6, <3>1, <3>2 DEF Remaining
  <2> QED
    BY <2>1, <2>7, <2>8 DEF Removing
<1>17. CASE PodsRemoved
  <2>1. Stays /\ UNCHANGED namespace /\ pc = "remove" /\ pc' = "delete" /\ todo = <<>>
    BY <1>17 DEF PodsRemoved, GoTo, Stays, board, model
  <2>2. Guests \subseteq Guests' /\ Departing' \subseteq Departing
    BY <1>0, <2>1, StaysFacts DEF Guests, Departing
  <2> QED
    BY <1>2, <2>1, <2>2
<1>18. CASE DeleteService
  BY <1>0, <1>5, <1>18 DEF DeleteService, StopDeleting, board, model
<1>19. CASE DeleteToggled \/ EndFeature
  <2>1. Leave /\ UNCHANGED namespace /\ pc = "delete"
    BY <1>0, <1>19 DEF DeleteToggled, EndFeature, StopDeleting, board, model
  <2> QED
    BY <1>1, <2>1
<1> QED
  BY <1>6, <1>7, <1>8, <1>9, <1>10, <1>11, <1>12, <1>13, <1>14, <1>15, <1>16, <1>17, <1>18, <1>19
     DEF Next

(* Until the pods of the suite are counted, at the third test function, only *)
(* they and the guests of SessionAffinity are in its namespace; from then on *)
(* one of them is.                                                          *)
THEOREM PodsHold == Spec => []PodsInv
<1>1. Init => PodsInv
  <2> SUFFICES ASSUME Init PROVE PodsInv
    OBVIOUS
  <2>1. PICK list \in Clusters : NewModel(list)
    BY DEF Init
  <2>2. Elements(list) \subseteq SuitePod
    BY DEF SuitePod
  <2>3. Elements(namespace.suite) \subseteq SuitePod /\ Elements(namespace.iperf) = {}
    BY <2>1, <2>2 DEF NewModel, Elements
  <2>4. at[1] = 1
    BY DEF Init
  <2> QED
    BY <2>3, <2>4 DEF PodsInv, Early
<1> QED
  BY <1>1, PodsInvStep, ControlHolds, BoardHolds, RunHolds, PTL DEF Spec

(* A run that got to its end has a pod of its own to probe: pods[0] panics   *)
(* when there is none (basic_service_test.go, label_test.go), and what the   *)
(* later features remove is what they added, or a pod-5 that was there.      *)
THEOREM EmptyModelsAreNoticed == Spec => []EmptyModelIsNoticed
<1>1. RunInv /\ PodsInv => EmptyModelIsNoticed
  <2> SUFFICES ASSUME RunInv, PodsInv, pc = "over", Undisturbed
               PROVE  Elements(namespace.suite) \intersect SuitePod # {}
    BY DEF EmptyModelIsNoticed, Undisturbed
  <2>1. ~Early
    BY DEF RunInv, Early
  <2> QED
    BY <2>1 DEF PodsInv, Remaining
<1> QED
  BY <1>1, RunHolds, PodsHold, PTL

-----------------------------------------------------------------------------
(***************************************************************************)
(* What is left in the fields of the pods when no feature is aborted.  Due: a*)
(* pod of the model holds what the feature that runs has written, or, in the *)
(* last test function, the address of a service whose label was changed,     *)
(* which nobody resets.  Tainted: the bandwidth test has marked it, and the   *)
(* Teardown of ClusterIP, the first that resets, is still to come or was not  *)
(* selected.  Discarded: what the pods of SessionAffinity hold when they are  *)
(* removed is not reset either.                                             *)
(***************************************************************************)
Known == Elements(namespace.suite) \union Elements(namespace.iperf)

Measured == {"validate", "remove"}

Due(p, x) ==
  \/ Now \in Resetting /\ pc # "begin" /\ field[p][x] = Now
  \/ at[1] = 6 /\ Entered /\ x = "clusterIP" /\ p \in FirstPod

Tainted(p, x) ==
  /\ x = "skipProbe" /\ field[p][x] = "Bandwidth" /\ "Bandwidth" \in selected
  /\ \/ Now = "Bandwidth" /\ pc \in Measured
     \/ Now = "ClusterIP"
     \/ Now # "Bandwidth" /\ selected = {"Bandwidth"}

Discarded(p) ==
  /\ p \in {"paf-0", "paf-1"}
  /\ at[1] > 2 \/ (Now = "SessionAffinity" /\ pc \notin {"begin", "addPods"})

FieldsInv ==
  ~aborted /\ ~Over =>
    /\ \A p \in Known : \A x \in Field :
         field[p][x] = Blank \/ Due(p, x) \/ Tainted(p, x)
    /\ pc \in Toggling => \A p \in FirstPod : field[p]["clusterIP"] \in {Blank, Now}
    /\ \A p \in Pod \ Known : \A x \in Field : field[p][x] = Blank \/ Discarded(p)

LEMMA WrittenAt ==
  ASSUME NEW p \in Pod, NEW x \in Field
  PROVE  \A ps, fs, value :
           Written(ps, fs, value)[p][x] = IF p \in ps /\ x \in fs THEN value ELSE field[p][x]
BY DEF Written

LEMMA FirstIsHeld ==
  ModelInv(Pod) => FirstPod \subseteq Elements(Pods)
<1> SUFFICES ASSUME ModelInv(Pod) PROVE FirstPod \subseteq Elements(Pods)
  OBVIOUS
<1>1. Pods \in Seq(Pod)
  BY ModelFacts
<1>2. Pods # <<>> => 1 \in DOMAIN Pods
  BY <1>1
<1> QED
  BY <1>2 DEF FirstPod, Elements

LEMMA KnownFacts == BoardInv => Modelled = Known /\ Known \subseteq Pod
<1> SUFFICES ASSUME BoardInv PROVE Modelled = Known /\ Known \subseteq Pod
  OBVIOUS
<1>1. /\ Modelled = Elements(namespace.suite) \union Elements(namespace.iperf)
      /\ namespace.suite \in Seq(Pod) /\ namespace.iperf \in Seq(Pod)
  BY ModelFacts DEF BoardInv
<1>2. \A list \in Seq(Pod) : Elements(list) \subseteq Pod
  BY DEF Elements
<1> QED
  BY <1>1, <1>2 DEF Known

(* The taint outlasts ClusterIP only where nothing but the bandwidth test is *)
(* selected.                                                               *)
LEMMA TaintIsRead ==
  ASSUME RunInv, pc \notin {"begin", "over", "dead"}, Now \notin {"Bandwidth", "ClusterIP"},
         NEW p, NEW x
  PROVE  ~Tainted(p, x)
BY DEF RunInv, Tainted

LEMMA FieldsInvStep ==
  Control /\ LoopInv /\ BoardInv /\ SliceInv /\ HeldSliceIsCurrent /\ RunInv
    /\ FieldsInv /\ [Next]_vars /\ BoardInv' => FieldsInv'
<1> SUFFICES ASSUME Control, LoopInv, BoardInv, SliceInv, HeldSliceIsCurrent, RunInv,
                    FieldsInv, [Next]_vars, BoardInv', ~aborted', ~Over'
             PROVE  /\ \A p \in Known' : \A x \in Field :
                         field'[p][x] = Blank \/ Due(p, x)' \/ Tainted(p, x)'
                    /\ pc' \in Toggling =>
                         \A p \in FirstPod' : field'[p]["clusterIP"] \in {Blank, Now'}
                    /\ \A p \in Pod \ Known' : \A x \in Field :
                         field'[p][x] = Blank \/ Discarded(p)'
  BY DEF FieldsInv
<1> DEFINE Goal == /\ \A p \in Known' : \A x \in Field :
                        field'[p][x] = Blank \/ Due(p, x)' \/ Tainted(p, x)'
                   /\ pc' \in Toggling =>
                        \A p \in FirstPod' : field'[p]["clusterIP"] \in {Blank, Now'}
                   /\ \A p \in Pod \ Known' : \A x \in Field :
                        field'[p][x] = Blank \/ Discarded(p)'
<1>0. /\ ~Over /\ ~aborted /\ ~Fatal /\ ~FatalHere /\ pc' \notin {"over", "dead"}
      /\ selected' = selected /\ selected \in Selections
  BY NotAbortedStep, SelectedStep DEF Over, RunInv
<1>a. /\ \A p \in Known : \A x \in Field :
           field[p][x] = Blank \/ Due(p, x) \/ Tainted(p, x)
      /\ pc \in Toggling => \A p \in FirstPod : field[p]["clusterIP"] \in {Blank, Now}
      /\ \A p \in Pod \ Known : \A x \in Field : field[p][x] = Blank \/ Discarded(p)
  BY <1>0 DEF FieldsInv
<1>b. /\ AtPlace /\ ModelInv(Pod) /\ Modelled = Known /\ Known \subseteq Pod
      /\ Known' \subseteq Pod
      /\ FirstPod \subseteq Elements(Pods)
      /\ todo \in Seq(Pod)
  <2>1. (Known \subseteq Pod)'
    BY KnownFacts, PTL
  <2> QED
    BY <2>1, KnownFacts, FirstIsHeld DEF Control, BoardInv, LoopInv
<1>c. /\ at[1] \in 1 .. 6
      /\ Now \in Label <=> at[1] = 6
      /\ Resetting \intersect Label = {}
      /\ Now \in Resetting => Now # "HostNetwork" /\ at[1] # 6
  <2>1. Resetting \intersect Label = {} /\ "HostNetwork" \notin Resetting
    BY DEF Resetting, Label, PerPod, Template
  <2> QED
    BY <1>b, <2>1, NowAt
\* The feature that runs writes to pods of the suite, or nobody writes.
<1>1. ASSUME Stays, Known' = Known, pc # "begin", pc' # "begin", pc' = "addPods" => pc = "addPods",
             pc' \notin Toggling, at[1] = 6 => FirstPod' = FirstPod,
             Now = "Bandwidth" /\ pc \in Measured => pc' \in Measured,
             \A p \in Pod : \A x \in Field :
               \/ field'[p][x] = field[p][x]
               \/ p \in Known /\ Now \in Resetting /\ field'[p][x] \in {Now, Blank}
      PROVE  Goal
  <2>1. Now' = Now /\ at' = at /\ Entered'
    BY <1>1, StaysFacts DEF Stays, Entered
  <2>2. ASSUME NEW p \in Known, NEW x \in Field
        PROVE  field'[p][x] = Blank \/ Due(p, x)' \/ Tainted(p, x)'
    <3>1. CASE field'[p][x] = field[p][x]
      <4>1. CASE Now \in Resetting /\ field[p][x] = Now
        BY <1>1, <2>1, <3>1, <4>1 DEF Due
      <4>2. CASE at[1] = 6 /\ x = "clusterIP" /\ p \in FirstPod
        BY <1>1, <2>1, <4>2 DEF Due
      <4>3. CASE Tainted(p, x)
        BY <1>0, <1>1, <2>1, <3>1, <4>3 DEF Tainted
      <4> QED
        BY <1>a, <3>1, <4>1, <4>2, <4>3 DEF Due
    <3>2. CASE Now \in Resetting /\ field'[p][x] \in {Now, Blank}
      BY <1>1, <2>1, <3>2 DEF Due
    <3> QED
      BY <1>1, <1>b, <3>1, <3>2
  <2>3. ASSUME NEW p \in Pod \ Known, NEW x \in Field PROVE field'[p][x] = Blank \/ Discarded(p)'
    <3>1. field'[p][x] = field[p][x]
      BY <1>1
    <3>2. Discarded(p) => Discarded(p)'
      BY <1>1, <2>1 DEF Discarded
    <3> QED
      BY <1>a, <3>1, <3>2
  <2> QED
    BY <1>1, <2>2, <2>3
<1>2. ASSUME Stays, UNCHANGED <<model, field>>, pc # "begin", pc' # "begin",
             pc' = "addPods" => pc = "addPods", pc' \notin Toggling,
             Now = "Bandwidth" /\ pc \in Measured => pc' \in Measured
      PROVE  Goal
  <2>1. Known' = Known /\ FirstPod' = FirstPod
    BY <1>2, HeldUnchanged DEF Known, FirstPod, model
  <2> QED
    BY <1>1, <1>2, <2>1
\* The address of the service whose label is changed, in the first pod.
<1>3. ASSUME Stays, UNCHANGED model, Now \in Label, pc \notin {"begin", "addPods"},
             pc' \notin {"begin", "addPods"},
             \/ field' = field /\ pc \in Toggling
             \/ \E v \in {Now, Blank} : field' = Written(FirstPod, {"clusterIP"}, v)
      PROVE  Goal
  <2>1. /\ Now' = Now /\ at' = at /\ Entered' /\ Entered /\ at[1] = 6
        /\ FirstPod' = FirstPod /\ Known' = Known
    <3>1. Now' = Now /\ at' = at /\ pc # "begin" /\ pc' # "begin" /\ at[1] = 6
      BY <1>3, <1>c, StaysFacts DEF Stays
    <3>2. FirstPod' = FirstPod /\ Known' = Known
      BY <1>3, HeldUnchanged DEF FirstPod, Known, model
    <3> QED
      BY <3>1, <3>2 DEF Entered
  <2>2. FirstPod \subseteq Known
    <3>1. HoldsAll
      <4>1. Now # "SessionAffinity"
        BY <1>3 DEF Label
      <4> QED
        BY <1>0, <2>1, <4>1 DEF SliceInv, TakesPods, Reread
    <3> QED
      BY <1>b, <3>1, HoldsAllShowsModel
  <2>3. ASSUME NEW p \in Pod, NEW x \in Field
        PROVE  \/ field'[p][x] = field[p][x] /\ (pc \in Toggling \/ p \notin FirstPod \/ x # "clusterIP")
               \/ p \in FirstPod /\ x = "clusterIP" /\ field'[p][x] \in {Now, Blank}
    <3>1. CASE field' = field /\ pc \in Toggling
      BY <3>1
    <3>2. ASSUME NEW v \in {Now, Blank}, field' = Written(FirstPod, {"clusterIP"}, v)
          PROVE  \/ field'[p][x] = field[p][x] /\ (p \notin FirstPod \/ x # "clusterIP")
                 \/ p \in FirstPod /\ x = "clusterIP" /\ field'[p][x] \in {Now, Blank}
      BY <3>2, WrittenAt
    <3> QED
      BY <1>3, <3>1, <3>2
  <2>4. ASSUME NEW p \in Known, NEW x \in Field
        PROVE  field'[p][x] = Blank \/ Due(p, x)' \/ Tainted(p, x)'
    <3>1. CASE p \in FirstPod /\ x = "clusterIP"
      BY <2>1, <3>1 DEF Due
    <3>2. CASE ~(p \in FirstPod /\ x = "clusterIP")
      <4>1. field'[p][x] = field[p][x] /\ p \in Pod
        BY <1>b, <2>3, <3>2
      <4>2. Now \notin Resetting /\ Now # "Bandwidth"
        BY <1>3, <1>c DEF Label
      <4>3. Tainted(p, x) => Tainted(p, x)'
        BY <1>0, <2>1, <4>1, <4>2 DEF Tainted
      <4> QED
        BY <1>a, <3>2, <4>1, <4>2, <4>3 DEF Due
    <3> QED
      BY <3>1, <3>2
  <2>5. ASSUME NEW p \in FirstPod PROVE field'[p]["clusterIP"] \in {Blank, Now}
    BY <1>a, <1>b, <2>2, <2>3 DEF Field
  <2>6. ASSUME NEW p \in Pod \ Known, NEW x \in Field PROVE field'[p][x] = Blank \/ Discarded(p)'
    <3>1. field'[p][x] = field[p][x]
      BY <2>2, <2>3
    <3>2. Discarded(p) => Discarded(p)'
      BY <2>1 DEF Discarded
    <3> QED
      BY <1>a, <3>1, <3>2
  <2> QED
    BY <2>1, <2>4, <2>5, <2>6
\* A feature is left.
<1>4. ASSUME Leave, pc # "begin", UNCHANGED model,
             \A p \in Pod \ Known : \A x \in Field : field'[p][x] = field[p][x],
             \/ \A p \in Known : \A x \in Field : field'[p][x] = Blank
             \/ field' = field /\ at[1] = 6,
             pc # "addPods"
      PROVE  Goal
  <2>1. /\ pc' = "begin" /\ FirstPod' = FirstPod /\ Known' = Known
        /\ at[1] = 6 => at'[1] = 6 /\ at'[2] # 1
        /\ at[1] > 2 => at'[1] > 2
        /\ Now = "SessionAffinity" => at'[1] > 2
    <3>1. /\ pc' = "begin"
          /\ \/ at[2] < Len(Suite[at[1]]) /\ at'[1] = at[1] /\ at'[2] # 1
             \/ at[2] = Len(Suite[at[1]]) /\ at'[1] = at[1] + 1
      BY <1>0, <1>4, <1>b, LeaveMoves
    <3>2. Now = "SessionAffinity" => at[1] = 2 /\ ~(at[2] < Len(Suite[at[1]]))
      <4> DEFINE last == Len(Suite[at[1]])
      <4>1. Now = "SessionAffinity" => at[1] = 2 /\ at[2] = 6 /\ last = 6
        BY <1>b, NowAt
      <4> HIDE DEF last
      <4>2. Now = "SessionAffinity" => at[1] = 2 /\ ~(at[2] < last)
        BY <4>1
      <4> QED
        BY <4>2 DEF last
    <3>3. at'[1] \in 1 .. 6
      <4>1. AtPlace'
        BY <1>4, <1>b, LeaveFacts
      <4> QED
        BY <4>1 DEF AtPlace, Suite
    <3>4. FirstPod' = FirstPod /\ Known' = Known
      BY <1>4, HeldUnchanged DEF FirstPod, Known, model
    <3>5. at[1] = 6 => at'[1] = 6 /\ at'[2] # 1
      BY <3>1, <3>3
    <3>6. at[1] > 2 => at'[1] > 2
      BY <1>c, <3>1
    <3>7. Now = "SessionAffinity" => at'[1] > 2
      BY <3>1, <3>2
    <3> QED
      BY <3>1, <3>4, <3>5, <3>6, <3>7
  <2>2. ASSUME NEW p \in Known, NEW x \in Field
        PROVE  field'[p][x] = Blank \/ Due(p, x)' \/ Tainted(p, x)'
    <3>1. CASE field' = field /\ at[1] = 6
      <4>1. Now \notin {"Bandwidth", "ClusterIP"}
        BY <1>c, <3>1 DEF Label
      <4>2. ~Tainted(p, x)
        BY <1>0, <1>4, <4>1, TaintIsRead DEF Over
      <4>3. field[p][x] = Blank \/ (x = "clusterIP" /\ p \in FirstPod)
        BY <1>a, <1>c, <3>1, <4>2 DEF Due
      <4> QED
        BY <2>1, <3>1, <4>3 DEF Due, Entered
    <3> QED
      BY <1>4, <3>1
  <2>3. ASSUME NEW p \in Pod \ Known, NEW x \in Field PROVE field'[p][x] = Blank \/ Discarded(p)'
    <3>1. Discarded(p) => Discarded(p)'
      BY <2>1 DEF Discarded
    <3>2. field'[p][x] = field[p][x]
      BY <1>4
    <3> QED
      BY <1>a, <3>1, <3>2
  <2>4. pc' \notin Toggling
    BY <2>1 DEF Toggling
  <2> QED
    BY <2>1, <2>2, <2>3, <2>4
<1>5. CASE Begin
  <2>1. /\ pc = "begin" /\ field' = field /\ Known' = Known /\ pc' \notin Toggling
        /\ at[2] # 1 => UNCHANGED model
        /\ Leave \/ (Stays /\ pc' = "addPods")
    BY <1>0, <1>5, <1>b, LeaveMoves
       DEF Begin, Enter, TakeAllPods, GoTo, Stays, model, Known, Toggling
  <2>2. at[1] > 2 => at'[1] > 2
    <3>1. Leave => at'[1] = at[1] \/ at'[1] = at[1] + 1
      BY <1>0, <1>b, LeaveMoves
    <3>2. Stays => at'[1] = at[1]
      BY DEF Stays
    <3>3. at'[1] = at[1] \/ at'[1] = at[1] + 1
      BY <2>1, <3>1, <3>2
    <3> QED
      BY <1>c, <3>3
  <2>3. ASSUME NEW p \in Pod \ Known, NEW x \in Field PROVE field'[p][x] = Blank \/ Discarded(p)'
    <3>1. Discarded(p) => Discarded(p)'
      BY <2>1, <2>2 DEF Discarded
    <3> QED
      BY <1>a, <2>1, <3>1
  <2>6. ASSUME NEW p, NEW x, Tainted(p, x) PROVE Tainted(p, x)'
    <3>1. Now # "Bandwidth" /\ "Bandwidth" \in selected
      BY <2>1, <2>6 DEF Tainted, Measured
    <3>2. CASE Stays
      BY <1>0, <2>1, <2>6, <3>1, <3>2, StaysFacts DEF Tainted
    <3>3. CASE Leave
      <4>1. Now' # "Bandwidth"
        BY <1>0, <1>b, <3>3, LeaveFacts
      <4>2. Now = "ClusterIP" => Now \notin selected \/ Stays
        BY <1>5, <1>0 DEF Begin, GoTo, Stays
      <4>3. Now = "ClusterIP" /\ Now \notin selected => selected = {"Bandwidth"}
        BY <1>0, <3>1 DEF Selections, Feature
      <4> QED
        BY <1>0, <2>1, <2>6, <3>1, <3>2, <4>1, <4>2, <4>3 DEF Tainted
    <3> QED
      BY <2>1, <3>2, <3>3
  <2>4. CASE at[1] = 6 /\ at[2] # 1
    <3>1. Stays
      <4>1. at[2] = 2 /\ Len(Suite[at[1]]) = 2
        <5>1. at[2] = 2
          BY <1>b, <2>4, Places DEF Placed
        <5>2. Len(Suite[6]) = 2
          BY DEF Suite
        <5> QED
          BY <2>4, <5>1, <5>2
      <4>2. ASSUME Leave PROVE FALSE
        <5>1. ~(at[2] < Len(Suite[at[1]])) /\ pc' # "over"
          BY <1>0, <4>1
        <5>2. at'[1] = at[1] + 1
          BY <1>b, <4>2, <5>1, LeaveMoves
        <5>3. at'[1] \in 1 .. 6
          <6>1. AtPlace'
            BY <1>b, <4>2, LeaveFacts
          <6> QED
            BY <6>1 DEF AtPlace, Suite
        <5> QED
          BY <2>4, <5>2, <5>3
      <4> QED
        BY <2>1, <4>2
    <3>2. FirstPod' = FirstPod
      BY <2>1, <2>4, HeldUnchanged DEF FirstPod
    <3>3. ASSUME NEW p \in Known, NEW x \in Field
          PROVE  field'[p][x] = Blank \/ Due(p, x)' \/ Tainted(p, x)'
      <4>1. field[p][x] = Blank \/ (x = "clusterIP" /\ p \in FirstPod) \/ Tainted(p, x)
        BY <1>a, <2>1 DEF Due
      <4> QED
        BY <2>1, <2>4, <2>6, <3>1, <3>2, <4>1 DEF Due, Entered, Stays
    <3> QED
      BY <2>1, <2>3, <3>3
  <2>5. CASE ~(at[1] = 6 /\ at[2] # 1)
    <3>1. \A p \in Known : \A x \in Field : field[p][x] = Blank \/ Tainted(p, x)
      BY <1>a, <2>1, <2>5 DEF Due, Entered
    <3> QED
      BY <2>1, <2>3, <2>6, <3>1
  <2> QED
    BY <2>4, <2>5
<1>6. CASE AddNewPod
  <2>1. /\ pc = "addPods" /\ Now # "Bandwidth" /\ todo # <<>> /\ Now \in Adding
        /\ AddPod(Head(todo)) /\ Head(todo) \notin cluster /\ field' = field /\ UNCHANGED <<at, pc>>
    BY <1>0, <1>6 DEF AddNewPod, LoopInv
  <2>2. PICK p \in Pod : p = Head(todo) /\ p \in Elements(Added(Now))
    BY <1>b, <2>1, HeadAndTail DEF RunInv
  <2>3. p \notin Known /\ p \notin Elements(Listed)
    <3>1. Elements(Listed) = Known
      BY <1>b, ModelFacts DEF Known
    <3>2. p \in Elements(todo) /\ p \notin cluster
      BY <1>b, <2>1, <2>2, HeadAndTail
    <3>3. p \notin IPerf
      BY <2>1, <3>2 DEF LoopInv
    <3> QED
      BY <3>1, <3>2, <3>3 DEF BoardInv, Known
  <2>4. Known' = Known \union {p}
    BY <1>b, <2>1, <2>2, <2>3, AddPodFacts DEF Known
  <2>5. Now' = Now /\ at[1] # 6 /\ pc' \notin Toggling
    <3>1. Label \intersect Adding = {}
      BY DEF Label, Adding, Removing
    <3> QED
      BY <1>c, <2>1, <3>1, StaysFacts DEF Stays, Toggling
  <2>6. ~Discarded(p)
    <3>1. Now = "SessionAffinity" => at[1] = 2
      BY <1>b, NowAt
    <3>2. Now # "SessionAffinity" => p \in {"per-1", "pod-5"}
      <4>1. Now # "SessionAffinity" => Now \in {"PerfTesting", "HostNetwork"}
        BY <2>1 DEF Adding, Removing
      <4> QED
        BY <2>2, <4>1 DEF Added, Elements
    <3> QED
      BY <2>1, <3>1, <3>2 DEF Discarded
  <2>7. ASSUME NEW q \in Known', NEW x \in Field
        PROVE  field'[q][x] = Blank \/ Due(q, x)' \/ Tainted(q, x)'
    <3>1. CASE q \in Known
      <4>1. Tainted(q, x) => Tainted(q, x)'
        BY <1>0, <2>1, <2>5 DEF Tainted
      <4> QED
        BY <1>a, <2>1, <2>5, <3>1, <4>1 DEF Due
    <3>2. CASE q = p
      BY <1>a, <2>1, <2>2, <2>3, <2>6, <3>2
    <3> QED
      BY <2>4, <3>1, <3>2
  <2>8. ASSUME NEW q \in Pod \ Known', NEW x \in Field PROVE field'[q][x] = Blank \/ Discarded(q)'
    <3>1. Discarded(q) => Discarded(q)'
      BY <2>1, <2>5 DEF Discarded
    <3> QED
      BY <1>a, <2>1, <2>4, <3>1
  <2> QED
    BY <2>5, <2>7, <2>8
<1>7. CASE StartIPerf \/ WaitForIPerf \/ DropPending
  <2>1. /\ field' = field /\ Now = "Bandwidth" /\ pc \notin Measured /\ pc' \notin Toggling
    BY <1>0, <1>7 DEF StartIPerf, WaitForIPerf, DropPending, GoTo, Control, Measured, Toggling
  <2>2. \A p \in Pod : \A x \in Field : field[p][x] = Blank
    <3>1. at[1] = 1 /\ Now \notin Resetting
      BY <1>b, <2>1, Places DEF Placed, Resetting, PerPod, Template
    <3>2. \A p, x : ~Due(p, x) /\ ~Tainted(p, x) /\ ~Discarded(p)
      BY <2>1, <3>1 DEF Due, Tainted, Discarded
    <3> QED
      BY <1>a, <3>2
  <2> QED
    BY <1>b, <2>1, <2>2
<1>21. CASE RemoveIPerf
  <2>1. /\ Leave /\ field' = field /\ UNCHANGED model /\ Now = "Bandwidth" /\ pc = "remove"
    BY <1>0, <1>21 DEF RemoveIPerf, GoTo
  <2>2. /\ at = <<1, 1>> /\ pc' = "begin" /\ Now' = "ClusterIP" /\ Known' = Known
    <3>1. at = <<1, 1>>
      BY <1>b, <2>1, Places DEF Placed, AtPlace
    <3>2. at' = <<2, 1>> /\ pc' = "begin"
      BY <2>1, <3>1 DEF Leave, NextFunction, Suite
    <3> QED
      BY <2>1, <3>1, <3>2 DEF Now, Suite, Known, model
  <2>3. ASSUME NEW p \in Known, NEW x \in Field PROVE field'[p][x] = Blank \/ Tainted(p, x)'
    <3>1. ~Due(p, x)
      BY <2>1, <2>2 DEF Due, Resetting, PerPod, Template
    <3>2. Tainted(p, x) => Tainted(p, x)'
      BY <1>0, <2>1, <2>2 DEF Tainted
    <3> QED
      BY <1>a, <2>1, <3>1, <3>2
  <2>4. ASSUME NEW p \in Pod \ Known, NEW x \in Field PROVE field'[p][x] = Blank
    BY <1>a, <2>1, <2>2 DEF Discarded
  <2>5. pc' \notin Toggling
    BY <2>2 DEF Toggling
  <2> QED
    BY <2>2, <2>3, <2>4, <2>5
<1>8. CASE PodsAdded
  BY <1>0, <1>2, <1>8 DEF PodsAdded, GoTo, Stays, board, Toggling, Measured
<1>9. CASE ServePod
  <2>1. /\ Stays /\ UNCHANGED model /\ pc = "serve" /\ pc' = "serve" /\ Now \in PerPod /\ todo # <<>>
    BY <1>0, <1>9 DEF ServePod, GoTo, Stays
  <2>2. PICK found :
          field' = [q \in Pod |-> [x \in Field |->
                      IF q # Head(todo) \/ x \notin Writes(Now) THEN field[q][x]
                      ELSE IF HasValue(x, found) THEN Now ELSE Blank]]
    BY <1>9, ServedRound
  <2>3. Head(todo) \in Known
    BY <1>b, <2>1, HeadAndTail DEF RunInv, HeldSliceIsCurrent
  <2>4. /\ Now \in Resetting /\ Now # "Bandwidth" /\ pc' \notin Toggling /\ Known' = Known
    BY <2>1 DEF PerPod, Resetting, Toggling, Known, model
  <2>5. \A p \in Pod : \A x \in Field :
          \/ field'[p][x] = field[p][x]
          \/ p \in Known /\ Now \in Resetting /\ field'[p][x] \in {Now, Blank}
    BY <2>2, <2>3, <2>4
  <2> QED
    BY <1>1, <1>c, <2>1, <2>4, <2>5
<1>10. CASE Served \/ ServeToggled
  <2>1. Stays /\ UNCHANGED <<model, field>> /\ pc = "serve" /\ pc' = "assess"
    BY <1>0, <1>10 DEF Served, ServeToggled, GoTo, Stays, board
  <2> QED
    BY <1>2, <2>1 DEF Toggling, Measured
<1>11. CASE ServeTemplate
  <2>1. /\ Stays /\ pc = "serve" /\ pc' = "assess" /\ Now \in Template /\ TakeSlice
        /\ field' = Written(IF Now = "Hairpin" THEN FirstPod ELSE Elements(Pods'), Writes(Now), Now)
    BY <1>0, <1>11 DEF ServeTemplate, GoTo, Stays
  <2>2. /\ Now \in Resetting /\ Now # "Bandwidth" /\ pc' \notin Toggling
        /\ Elements(Pods) \subseteq Known
    BY <1>b, <2>1 DEF Resetting, Template, Toggling, HeldSliceIsCurrent
  <2>3. Known' = Known /\ Elements(Pods') \subseteq Known
    <3>1. CASE Now = "SessionAffinity"
      <4>1. HoldsAll' /\ UNCHANGED namespace /\ Modelled' = Modelled
        BY <1>b, <2>1, <3>1, TakeAllPodsFacts DEF TakeSlice
      <4>2. Elements(Pods') = Modelled'
        BY <4>1 DEF HoldsAll, Pods, Modelled, Cached
      <4> QED
        BY <1>b, <4>1, <4>2 DEF Known
    <3>2. CASE Now # "SessionAffinity"
      BY <2>1, <2>2, <3>2, HeldUnchanged DEF TakeSlice, Known, model
    <3> QED
      BY <3>1, <3>2
  <2>4. ASSUME NEW p \in Pod, NEW x \in Field
        PROVE  \/ field'[p][x] = field[p][x]
               \/ p \in Known /\ Now \in Resetting /\ field'[p][x] \in {Now, Blank}
    <3>1. PICK ps : field' = Written(ps, Writes(Now), Now) /\ ps \subseteq Known
      BY <1>b, <2>1, <2>2, <2>3
    <3> QED
      BY <2>2, <3>1, WrittenAt
  <2> QED
    BY <1>1, <1>c, <2>1, <2>2, <2>3, <2>4
<1>12. CASE ServeLocal
  <2>1. /\ Stays /\ UNCHANGED model /\ pc = "serve" /\ pc' = "assess" /\ Now = "NodePortLocal"
        /\ \E v \in {Now, Blank} : field' = Written(Elements(Pods), Writes(Now), v)
    BY <1>0, <1>12 DEF ServeLocal, GoTo, Stays
  <2>2. /\ Now \in Resetting /\ pc' \notin Toggling /\ Known' = Known
        /\ Elements(Pods) \subseteq Known
    BY <1>b, <2>1 DEF Resetting, Toggling, HeldSliceIsCurrent, Known, model
  <2>3. ASSUME NEW p \in Pod, NEW x \in Field
        PROVE  \/ field'[p][x] = field[p][x]
               \/ p \in Known /\ Now \in Resetting /\ field'[p][x] \in {Now, Blank}
    BY <2>1, <2>2, WrittenAt
  <2> QED
    BY <1>1, <1>c, <2>1, <2>2, <2>3
<1>13. CASE Assess
  <2>1. Stays /\ UNCHANGED model /\ pc = "assess" /\ Known' = Known
    BY <1>13 DEF Assess, GoTo, Stays, Known, model
  <2>2. CASE Now \in Label
    <3>1. field' = Written(FirstPod, {"clusterIP"}, HandleAddress)
      <4>1. Now \notin {"PerfTesting", "Bandwidth"}
        BY <2>2 DEF Label
      <4> QED
        BY <1>13, <2>2, <4>1 DEF Assess
    <3>2. HandleAddress \in {Now, Blank} /\ pc' = "validateUp"
      BY <1>13, <2>2 DEF HandleAddress, Assess, GoTo
    <3> QED
      BY <1>3, <2>1, <2>2, <3>1, <3>2
  <2>3. CASE Now = "PerfTesting"
    <3>1. /\ field' = Written(Modelled \ Perf, {"skipProbe"}, Now) /\ pc' = "validate"
          /\ Now \in Resetting /\ at[1] = 4 /\ pc' \notin Toggling
      BY <1>13, <1>b, <2>3, NowAt DEF Assess, GoTo, Label, Resetting, Toggling
    <3>2. ASSUME NEW p \in Pod, NEW x \in Field
          PROVE  \/ field'[p][x] = field[p][x]
                 \/ p \in Known /\ Now \in Resetting /\ field'[p][x] \in {Now, Blank}
      BY <1>b, <3>1, WrittenAt
    <3> QED
      BY <1>1, <1>c, <2>1, <2>3, <3>1, <3>2
  <2>4. CASE Now = "Bandwidth"
    <3>1. /\ field' = Written(Modelled \ Perf, {"skipProbe"}, Now) /\ pc' = "validate"
          /\ pc' \notin Toggling /\ Now' = Now /\ "Bandwidth" \in selected
      BY <1>13, <2>1, <2>4, StaysFacts DEF Assess, GoTo, Label, Toggling, RunInv
    <3>2. \A p, x : ~Due(p, x) /\ ~Tainted(p, x) /\ ~Discarded(p)
      <4>1. at[1] = 1 /\ Now \notin Resetting
        BY <1>b, <2>4, Places DEF Placed, Resetting, PerPod, Template
      <4> QED
        BY <2>1, <2>4, <4>1 DEF Due, Tainted, Discarded, Measured
    <3>3. ASSUME NEW p \in Pod, NEW x \in Field
          PROVE  \/ field'[p][x] = Blank
                 \/ p \in Known /\ x = "skipProbe" /\ field'[p][x] = "Bandwidth"
      <4>1. field[p][x] = Blank
        BY <1>a, <3>2
      <4> QED
        BY <1>b, <2>4, <3>1, <4>1, WrittenAt
    <3>4. ASSUME NEW p \in Known, NEW x \in Field PROVE field'[p][x] = Blank \/ Tainted(p, x)'
      BY <1>0, <1>b, <2>4, <3>1, <3>3 DEF Tainted, Measured
    <3> QED
      BY <2>1, <3>1, <3>3, <3>4
  <2>5. CASE Now \notin Label \union {"PerfTesting", "Bandwidth"}
    <3>1. field' = field /\ pc' = "validate"
      BY <1>0, <1>13, <2>1, <2>5 DEF Assess, GoTo
    <3> QED
      BY <1>2, <2>1, <2>5, <3>1 DEF Toggling
  <2> QED
    BY <2>2, <2>3, <2>4, <2>5
<1>14. CASE Validate \/ PodsRemoved
  BY <1>2, <1>14 DEF Validate, PodsRemoved, GoTo, Stays, board, Toggling, Measured
<1>15. CASE AskForLabel \/ SetLabel \/ AskForRemoval \/ RemoveLabel \/ WaitAgain \/ ValidateAgain
  <2>1. /\ Stays /\ UNCHANGED model /\ pc \in Toggling /\ pc' \in Toggling \union {"remove"}
        /\ \/ field' = field
           \/ \E v \in {Now, Blank} : field' = Written(FirstPod, {"clusterIP"}, v)
    <3>1. HandleAddress \in {Now, Blank}
      BY DEF HandleAddress
    <3>2. CASE AskForLabel \/ AskForRemoval \/ RemoveLabel \/ ValidateAgain
      BY <3>2 DEF AskForLabel, AskForRemoval, RemoveLabel, ValidateAgain, MustOrFatal, GoTo, Stays,
         Toggling, board
    <3>3. CASE SetLabel
      BY <3>1, <3>3 DEF SetLabel, MustOrFatal, GoTo, Stays, Toggling
    <3>4. CASE WaitAgain
      BY <1>0, <3>4 DEF WaitAgain, GoTo, Stays, Toggling
    <3> QED
      BY <1>15, <3>2, <3>3, <3>4
  <2>2. Now \in Label /\ pc \notin {"begin", "addPods"} /\ pc' \notin {"begin", "addPods"}
    BY <2>1 DEF Control, Toggling
  <2> QED
    BY <1>3, <2>1, <2>2
<1>16. CASE OthersWrite \/ Terminated \/ UNCHANGED vars
  <2>1. UNCHANGED <<at, pc, model, field>>
    BY <1>16 DEF OthersWrite, Terminated, vars, board
  <2>2. Now' = Now /\ Known' = Known /\ FirstPod' = FirstPod /\ (Entered' <=> Entered)
    BY <2>1, HeldUnchanged DEF Now, Known, FirstPod, Entered, model
  <2>3. /\ \A p, x : (Due(p, x)' <=> Due(p, x)) /\ (Tainted(p, x)' <=> Tainted(p, x))
        /\ \A p : Discarded(p)' <=> Discarded(p)
    BY <1>0, <2>1, <2>2 DEF Due, Tainted, Discarded
  <2> QED
    BY <1>a, <2>1, <2>2, <2>3
<1>17. CASE RemoveAddedPod
  <2>1. /\ pc = "remove" /\ todo # <<>> /\ Now \in Removing
        /\ RemovePod(Head(todo), "suite") /\ field' = field /\ UNCHANGED <<at, pc>>
    BY <1>0, <1>17 DEF RemoveAddedPod, LoopInv
  <2>2. PICK p \in Pod : p = Head(todo) /\ p \in Elements(Added(Now))
    BY <1>b, <2>1, HeadAndTail DEF RunInv
  <2>3. /\ p \in Elements(Listed) => p \in Elements(namespace["suite"])
        /\ p \notin Elements(namespace.iperf)
    <3>1. Elements(Listed) = Elements(namespace.suite) \union Elements(namespace.iperf)
      BY <1>b, ModelFacts
    <3>2. p \notin IPerf
      <4>1. p \in Elements(todo) /\ Now # "Bandwidth"
        BY <1>b, <2>1, <2>2, HeadAndTail DEF Removing
      <4> QED
        BY <2>1, <4>1 DEF LoopInv
    <3> QED
      BY <3>1, <3>2 DEF BoardInv
  <2>4. RemovePod(p, "suite")
    BY <2>1, <2>2
  <2>5. Known' = Known \ {p}
    BY <1>b, <2>3, <2>4, RemovePodFacts DEF Known
  <2>6. Now' = Now /\ at[1] # 6 /\ pc' \notin Toggling
    <3>1. Label \intersect Removing = {}
      BY DEF Label, Removing
    <3> QED
      BY <1>c, <2>1, <3>1, StaysFacts DEF Stays, Toggling
  <2>7. ASSUME NEW q \in Known', NEW x \in Field
        PROVE  field'[q][x] = Blank \/ Due(q, x)' \/ Tainted(q, x)'
    <3>1. Tainted(q, x) => Tainted(q, x)'
      BY <1>0, <2>1, <2>6 DEF Tainted
    <3> QED
      BY <1>a, <2>1, <2>5, <2>6, <3>1 DEF Due
  <2>8. ASSUME NEW q \in Pod \ Known', NEW x \in Field PROVE field'[q][x] = Blank \/ Discarded(q)'
    <3>1. Discarded(q) => Discarded(q)'
      BY <2>1, <2>6 DEF Discarded
    <3>2. CASE q \notin Known
      BY <1>a, <2>1, <3>1, <3>2
    <3>3. CASE q = p /\ q \in Known /\ Now = "SessionAffinity"
      <4>1. p \in {"paf-0", "paf-1"}
        BY <2>2, <3>3 DEF Added, Elements
      <4> QED
        BY <2>1, <2>6, <3>3, <4>1 DEF Discarded
    <3>4. CASE q \in Known /\ Now = "HostNetwork"
      <4>1. ~Tainted(q, x)
        BY <1>0, <2>1, <3>4, TaintIsRead
      <4> QED
        BY <1>a, <1>c, <2>1, <2>6, <3>4, <4>1 DEF Due
    <3> QED
      BY <2>1, <2>5, <3>2, <3>3, <3>4 DEF Removing
  <2> QED
    BY <2>6, <2>7, <2>8
<1>18. CASE DeleteService
  <2>1. Stays /\ UNCHANGED <<model, field>> /\ pc = "delete" /\ pc' = pc
    BY <1>0, <1>18 DEF DeleteService, StopDeleting, board, Stays
  <2> QED
    BY <1>2, <2>1 DEF Toggling, Measured
<1>19. CASE DeleteToggled
  <2>1. Leave /\ UNCHANGED model /\ pc = "delete" /\ field' = field /\ at[1] = 6
    <3>1. Leave /\ UNCHANGED <<model, field>> /\ pc = "delete" /\ Now \in Label
      BY <1>0, <1>19 DEF DeleteToggled, StopDeleting, board
    <3> QED
      BY <1>c, <3>1
  <2> QED
    BY <1>4, <2>1
<1>20. CASE EndFeature
  <2>1. /\ Leave /\ UNCHANGED model /\ pc = "delete" /\ Now \notin Label
        /\ field' = IF Now \in Resetting THEN ResetAllPods ELSE field
    BY <1>20 DEF EndFeature
  <2>2. CASE Now \in Resetting
    <3>1. \A p \in Pod : \A x \in Field :
            field'[p][x] = IF p \in Known THEN Blank ELSE field[p][x]
      BY <1>b, <2>1, <2>2, WrittenAt DEF ResetAllPods
    <3> QED
      BY <1>4, <1>b, <2>1, <3>1
  <2>3. CASE Now \notin Resetting
    <3>1. \A p \in Known : \A x \in Field : field[p][x] = Blank
      <4>1. Now \notin {"Bandwidth", "ClusterIP"}
        BY <2>1, <2>3 DEF Control, Resetting, PerPod
      <4>2. \A p, x : ~Tainted(p, x)
        BY <2>1, <4>1, TaintIsRead
      <4> QED
        BY <1>a, <1>c, <2>1, <2>3, <4>2 DEF Due
    <3> QED
      BY <1>4, <2>1, <2>3, <3>1
  <2> QED
    BY <2>2, <2>3
<1> QED
  BY <1>5, <1>6, <1>7, <1>8, <1>9, <1>10, <1>11, <1>12, <1>13, <1>14, <1>15, <1>16, <1>17, <1>18,
     <1>19, <1>20, <1>21 DEF Next

(* A validation reads nothing that another feature left, as pod.go:248 means *)
(* it, when no feature was aborted; but for the marks of the bandwidth test,  *)
(* which outlast it by exactly one validation, that of ClusterIP.           *)
THEOREM StaleReadsNever == Spec => []NoStaleReads
<1>1. Init => FieldsInv
  <2> SUFFICES ASSUME Init PROVE FieldsInv
    OBVIOUS
  <2>1. pc \notin Toggling
    BY DEF Init, Toggling
  <2>2. \A p \in Pod : \A x \in Field : field[p][x] = Blank
    BY DEF Init
  <2>3. Known \subseteq Pod
    BY BoardInvInit, ModelFacts DEF BoardInv, Known, Elements
  <2> QED
    BY <2>1, <2>2, <2>3 DEF FieldsInv
<1>2. Control /\ BoardInv /\ RunInv /\ FieldsInv => NoStaleReads
  <2> SUFFICES ASSUME Control, BoardInv, RunInv, FieldsInv, Validating, ~aborted,
                      NEW read \in StaleReads
               PROVE  /\ Now = "ClusterIP" /\ "Bandwidth" \in selected
                      /\ read[2] = "skipProbe"
    BY DEF NoStaleReads
  <2>1. ~Over /\ Modelled = Known /\ AtPlace /\ pc \notin {"begin", "over", "dead"}
    BY KnownFacts DEF Validating, Over, Control
  <2>2. PICK p \in Known, x \in Field : read[1] = p /\ read[2] = x /\ Stale(p, x)
    <3>1. ReadFields \subseteq Field
      BY DEF ReadFields, Field
    <3>2. read[1] \in Known /\ read[2] \in Field /\ Stale(read[1], read[2])
      BY <2>1, <3>1 DEF StaleReads
    <3> QED
      BY <3>2
  <2>3. Due(p, x) \/ Tainted(p, x)
    BY <2>1, <2>2 DEF FieldsInv, Stale
  <2>4. ~Due(p, x)
    <3>1. CASE at[1] = 6 /\ x = "clusterIP" /\ p \in FirstPod
      <4>1. Now \in Label
        BY <2>1, <3>1, NowAt
      <4>2. pc \in Toggling
        BY <4>1 DEF Validating, Toggling, Control
      <4> QED
        BY <2>1, <2>2, <3>1, <4>2 DEF FieldsInv, Stale
    <3> QED
      BY <2>2, <3>1 DEF Due, Stale
  <2>5. Now # "Bandwidth"
    BY <2>2, <2>3, <2>4 DEF Tainted, Stale
  <2> QED
    BY <2>1, <2>2, <2>3, <2>4, <2>5, TaintIsRead DEF Tainted
<1> QED
  BY <1>1, <1>2, FieldsInvStep, ControlHolds, BoardHolds, SliceHolds, HeldSlicesAreCurrent, RunHolds,
     PTL DEF Spec
=============================================================================
