------------------------- MODULE PodStartupProofs -------------------------
(***************************************************************************)
(* Theorems about PodStartup, for any number of nodes, polls and failures. *)
(***************************************************************************)
EXTENDS PodStartup, FiniteSetTheorems, TLAPS

SuitePod(name) == <<"suite", name>>
InSetup == target[1] = "suite"

-----------------------------------------------------------------------------
(* Until its wait a pod of the suite has not been seen running, and has not*)
(* been found pending too often: nothing is known of it.                   *)
Ahead(name) ==
  \/ pc \in {"namespace", "create"}
  \/ pc = "wait" /\ name >= target[2]
  \/ pc = "fetch" /\ name > target[2]

AheadIsOpen ==
  InSetup => \A name \in Name :
    Ahead(name) => own[SuitePod(name)] <= PollTimes /\ SuitePod(name) \notin started

(* While the suite is set up the count kept for a name is the count of the *)
(* suite's pod, until the pod is dropped.                                  *)
CountsAreOwn ==
  InSetup /\ pc # "fatal" =>
    \A name \in Name :
      pending[name] = IF name \in modelled THEN own[SuitePod(name)] ELSE 0

(* Nothing is dropped before every pod has been waited for.                *)
NothingDroppedYet ==
  InSetup /\ pc \in {"namespace", "create", "wait", "fetch"} => modelled = Name

(* A pod that was seen running had not been found pending too often.       *)
RunningWasInTime ==
  \A name \in Name : SuitePod(name) \in started => own[SuitePod(name)] <= PollTimes

DroppedWasStale == \A name \in Name \ modelled : own[SuitePod(name)] > PollTimes

(* The end of a wait: the pod was seen running, or found pending too often.*)
WaitIsDecided ==
  pc = "fetch" => target \in started \/ pending[target[2]] > PollTimes

(* A pod that the loop is past has its addresses or is slow.               *)
Passed(name) ==
  IF InSetup THEN \/ pc \in {"wait", "fetch"} /\ name < target[2]
                  \/ pc \in {"remove", "ready", "tested", "exited"}
             ELSE TRUE

PassedIsSettled ==
  \A name \in Name :
    Passed(name) => SuitePod(name) \in address \/ own[SuitePod(name)] >= PollTimes

(* What removing the pending pods leaves.                                  *)
KeptWasInTime ==
  SetupDone => \A name \in modelled : own[SuitePod(name)] <= PollTimes

ModelIsCluster ==
  ~InSetup \/ pc # "fatal" =>
    modelled = {name \in Name : phase[SuitePod(name)] # "deleted"}

-----------------------------------------------------------------------------
(* Type correctness, one step per action.                                  *)
LEMMA TargetIsAPair ==
  ASSUME target \in Pod
  PROVE  /\ target[1] \in {"suite", "udp"} /\ target[2] \in Name
         /\ target = <<target[1], target[2]>>
  BY DEF Pod

LEMMA PodOf ==
  ASSUME NEW where \in {"suite", "udp"}, NEW name \in Name
  PROVE  <<where, name>> \in Pod
  BY DEF Pod

LEMMA OneIsAName == 1 \in Name
  BY NAssumption DEF Name

LEMMA TypeInit == Init => TypeOK
  BY OneIsAName, PodOf, MaxPollsAssumption, MaxUpsetsAssumption
     DEF Init, TypeOK, Phase, Final

LEMMA TypeNext == TypeOK /\ [Next]_vars => TypeOK'
  <1> SUFFICES ASSUME TypeOK, [Next]_vars PROVE TypeOK'
    OBVIOUS
  <1> USE TargetIsAPair, MaxPollsAssumption, MaxUpsetsAssumption
      DEF manager, cluster, history, TypeOK, Phase, Final
  <1>1. CASE CreateNamespace
    BY <1>1 DEF CreateNamespace
  <1>2. CASE CreatePod
    <2>1. CASE target[1] = "suite" /\ target[2] < N
      <3>1. <<"suite", target[2] + 1>> \in Pod
        BY <2>1, NAssumption DEF Pod, Name
      <3> QED
        BY <1>2, <2>1, <3>1 DEF CreatePod
    <2>2. CASE ~(target[1] = "suite" /\ target[2] < N)
      <3>1. <<"suite", 1>> \in Pod
        BY OneIsAName, PodOf
      <3> QED
        BY <1>2, <2>2, <3>1 DEF CreatePod, WaitFor
    <2> QED
      BY <2>1, <2>2
  <1>3. CASE PollRunning
    BY <1>3 DEF PollRunning
  <1>4. CASE PollCompleted
    BY <1>4 DEF PollCompleted, OnError
  <1>5. CASE PollPending
    <2>1. pending' \in [Name -> Nat] /\ own' \in [Pod -> Nat]
      BY <1>5 DEF PollPending
    <2>2. pc' \in {"wait", "fetch"} /\ polls' \in 0 .. MaxPolls
      BY <1>5 DEF PollPending
    <2> QED
      BY <1>5, <2>1, <2>2 DEF PollPending
  <1>6. CASE PollUnknown
    BY <1>6 DEF PollUnknown
  <1>7. CASE Timeout
    BY <1>7 DEF Timeout, OnError
  <1>8. CASE NextPodOfSuite
    <2>1. CASE target[2] < N
      <3>1. <<"suite", target[2] + 1>> \in Pod
        BY <2>1, NAssumption DEF Pod, Name
      <3> QED
        BY <1>8, <2>1, <3>1 DEF NextPodOfSuite, SetIPs, WaitFor
    <2>2. CASE ~(target[2] < N)
      BY <1>8, <2>2 DEF NextPodOfSuite, SetIPs
    <2> QED
      BY <2>1, <2>2
  <1>9. CASE NextPodOfTest
    <2>1. \A name \in Nth(2) : <<"udp", name>> \in Pod
      BY PodOf DEF Nth
    <2> QED
      BY <1>9, <2>1 DEF NextPodOfTest, SetIPs
  <1>10. CASE RemovePod
    <2>1. \A name \in RemovablePods :
            /\ [phase EXCEPT ![<<"suite", name>>] = "deleted"] \in [Pod -> Phase]
            /\ [pending EXCEPT ![name] = 0] \in [Name -> Nat]
      OBVIOUS
    <2> QED
      BY <1>10, <2>1 DEF RemovePod
  <1>11. CASE SuiteReady
    BY <1>11 DEF SuiteReady, GoTo
  <1>12. CASE SkipTest
    BY <1>12 DEF SkipTest, GoTo
  <1>13. CASE StartTest
    <2>1. \A name \in Nth(1) : <<"udp", name>> \in Pod
      BY PodOf DEF Nth
    <2> QED
      BY <1>13, <2>1 DEF StartTest
  <1>14. CASE Teardown \/ Finish
    BY <1>14 DEF Teardown, Finish
  <1>15. CASE ApiError
    BY <1>15 DEF ApiError, OnError
  <1>16. ASSUME NEW pod \in Pod, Schedule(pod) PROVE TypeOK'
    BY <1>16 DEF Schedule
  <1>17. ASSUME NEW pod \in Pod, NEW to \in Phase, Upset(pod, to) PROVE TypeOK'
    BY <1>17 DEF Upset
  <1>18. CASE UNCHANGED vars
    BY <1>18 DEF vars
  <1> QED
    BY <1>1, <1>2, <1>3, <1>4, <1>5, <1>6, <1>7, <1>8, <1>9, <1>10, <1>11, <1>12,
       <1>13, <1>14, <1>15, <1>16, <1>17, <1>18 DEF Next, CallerStep, Terminating

(* Every reachable state is of its type.                                   *)
THEOREM StartupTypes == Spec => []TypeOK
  BY TypeInit, TypeNext, PTL DEF Spec

-----------------------------------------------------------------------------
(* The addresses of a pod are read only after it was seen running.         *)
LEMMA DecidedStep ==
  ASSUME TypeOK, WaitIsDecided, AddressesOfRunningPods, [Next]_vars
  PROVE  WaitIsDecided' /\ AddressesOfRunningPods'
  <1> USE TargetIsAPair, PollTimesAssumption
      DEF manager, cluster, history, TypeOK, WaitIsDecided, AddressesOfRunningPods
  <1>1. CASE PollRunning
    BY <1>1 DEF PollRunning
  <1>2. CASE PollPending
    <2>1. pending'[target[2]] = pending[target[2]] + 1
      BY <1>2 DEF PollPending
    <2> QED
      BY <1>2, <2>1 DEF PollPending, Stale
  <1>3. CASE NextPodOfSuite \/ NextPodOfTest
    <2>1. SetIPs /\ pc' # "fetch"
      BY <1>3 DEF NextPodOfSuite, NextPodOfTest, SetIPs, WaitFor
    <2>2. Fetches => target \in started
      BY <2>1 DEF SetIPs, Fetches, FetchesBelow
    <2> QED
      BY <2>1, <2>2 DEF SetIPs
  <1>4. CASE RemovePod
    BY <1>4 DEF RemovePod
  <1>5. CASE CreateNamespace \/ CreatePod
    BY <1>5 DEF CreateNamespace, CreatePod, WaitFor
  <1>6. CASE PollCompleted \/ PollUnknown \/ Timeout \/ ApiError
    BY <1>6 DEF PollCompleted, PollUnknown, Timeout, ApiError, OnError
  <1>7. CASE SuiteReady \/ SkipTest \/ StartTest \/ Teardown \/ Finish
    BY <1>7 DEF SuiteReady, SkipTest, GoTo, StartTest, Teardown, Finish
  <1>8. ASSUME NEW pod \in Pod, Schedule(pod) \/ \E to \in Phase : Upset(pod, to)
        PROVE  WaitIsDecided' /\ AddressesOfRunningPods'
    BY <1>8 DEF Schedule, Upset
  <1>9. CASE UNCHANGED vars
    BY <1>9 DEF vars
  <1> QED
    BY <1>1, <1>2, <1>3, <1>4, <1>5, <1>6, <1>7, <1>8, <1>9
       DEF Next, CallerStep, Terminating

(* No pod has addresses that were read before the pod was seen running,    *)
(* although the reading is a call of its own after the last poll.          *)
THEOREM AddressesAreOfRunningPods == Spec => []AddressesOfRunningPods
  <1>1. Init => WaitIsDecided /\ AddressesOfRunningPods
    BY DEF Init, WaitIsDecided, AddressesOfRunningPods
  <1> QED
    BY <1>1, TypeInit, TypeNext, DecidedStep, PTL DEF Spec
-----------------------------------------------------------------------------
(* What the polls of Setup count.  Steps that touch neither the counts nor *)
(* the place of the caller first.                                          *)
Counts == AheadIsOpen /\ CountsAreOwn /\ NothingDroppedYet /\ RunningWasInTime

LEMMA CountsInit == Init => Counts
  BY PollTimesAssumption, PodOf
     DEF Init, Counts, AheadIsOpen, CountsAreOwn, NothingDroppedYet, RunningWasInTime,
         SuitePod, Ahead

(* Neither a count nor the model changes, and no pod is ahead that was not.*)
LEMMA CountsKept ==
  ASSUME TypeOK, Counts, UNCHANGED <<pending, modelled, own, started>>,
         InSetup' => InSetup,
         InSetup' /\ pc' # "fatal" => pc # "fatal",
         InSetup' => \A name \in Name : Ahead(name)' => Ahead(name),
         InSetup' /\ pc' \in {"namespace", "create", "wait", "fetch"} =>
           pc \in {"namespace", "create", "wait", "fetch"}
  PROVE  Counts'
  BY DEF Counts, AheadIsOpen, CountsAreOwn, NothingDroppedYet, RunningWasInTime, SuitePod

LEMMA CountsNext == TypeOK /\ Counts /\ [Next]_vars => Counts'
  <1> SUFFICES ASSUME TypeOK, Counts, [Next]_vars PROVE Counts'
    OBVIOUS
  <1> USE DEF manager, cluster, history
  <1>t. /\ target \in Pod /\ target[1] \in {"suite", "udp"} /\ target[2] \in Name
        /\ target = <<target[1], target[2]>>
        /\ Name \subseteq Nat
    BY TargetIsAPair DEF TypeOK, Name
  <1>1. CASE CreateNamespace
    BY <1>1, CountsKept DEF CreateNamespace, InSetup, Ahead
  <1>2. CASE CreatePod
    BY <1>2, CountsKept DEF CreatePod, WaitFor, InSetup, Ahead
  <1>3. CASE PollRunning
    <2>1. /\ started' = started \cup {target} /\ pc = "wait" /\ pc' = "fetch"
          /\ UNCHANGED <<target, pending, modelled, own>>
      BY <1>3 DEF PollRunning
    <2>2. \A name \in Name : SuitePod(name) = target <=> InSetup /\ name = target[2]
      BY <1>t DEF SuitePod, InSetup
    <2>3. RunningWasInTime'
      <3>1. ASSUME NEW name \in Name, SuitePod(name) = target
            PROVE  own[SuitePod(name)] <= PollTimes
        BY <1>t, <2>1, <2>2, <3>1 DEF Counts, AheadIsOpen, Ahead
      <3> QED
        BY <2>1, <3>1 DEF Counts, RunningWasInTime, SuitePod
    <2>4. AheadIsOpen'
      BY <1>t, <2>1, <2>2 DEF Counts, AheadIsOpen, Ahead, InSetup, SuitePod
    <2>5. CountsAreOwn' /\ NothingDroppedYet'
      BY <2>1 DEF Counts, CountsAreOwn, NothingDroppedYet, InSetup, SuitePod
    <2> QED
      BY <2>3, <2>4, <2>5 DEF Counts
  <1>4. CASE PollCompleted \/ Timeout \/ ApiError
    BY <1>4, CountsKept DEF PollCompleted, Timeout, ApiError, OnError, InSetup, Ahead
  <1>5. CASE PollPending
    <2>1. /\ pc = "wait" /\ pc' \in {"wait", "fetch"}
          /\ UNCHANGED <<target, modelled, started>>
          /\ pending' = [pending EXCEPT ![target[2]] = @ + 1]
          /\ own' = [own EXCEPT ![target] = @ + 1]
          /\ pc' = "wait" => ~Stale(pending'[target[2]])
      BY <1>5 DEF PollPending
    <2>2. /\ pending \in [Name -> Nat] /\ own \in [Pod -> Nat]
          /\ \A name \in Name : SuitePod(name) \in Pod
      BY PodOf DEF TypeOK, SuitePod
    <2>3. \A name \in Name :
            /\ pending'[name] = IF name = target[2] THEN pending[name] + 1 ELSE pending[name]
            /\ own'[SuitePod(name)] = IF SuitePod(name) = target
                                        THEN own[SuitePod(name)] + 1
                                        ELSE own[SuitePod(name)]
      BY <2>1, <2>2
    <2>4. \A name \in Name : SuitePod(name) = target <=> InSetup /\ name = target[2]
      BY <1>t DEF SuitePod, InSetup
    <2>5. InSetup => modelled = Name
      BY <2>1 DEF Counts, NothingDroppedYet
    <2>6. CountsAreOwn'
      BY <2>1, <2>3, <2>4, <2>5 DEF Counts, CountsAreOwn, InSetup, SuitePod
    <2>7. NothingDroppedYet'
      BY <2>1, <2>5 DEF NothingDroppedYet, InSetup
    <2>8. AheadIsOpen'
      <3> SUFFICES ASSUME InSetup', NEW name \in Name, Ahead(name)'
                   PROVE  own'[SuitePod(name)] <= PollTimes /\ SuitePod(name) \notin started'
        BY DEF AheadIsOpen, SuitePod
      <3>1. InSetup /\ Ahead(name) /\ name >= target[2]
        BY <1>t, <2>1 DEF InSetup, Ahead
      <3>2. own[SuitePod(name)] <= PollTimes /\ SuitePod(name) \notin started
        BY <3>1 DEF Counts, AheadIsOpen
      <3>3. CASE name # target[2]
        BY <2>1, <2>3, <2>4, <3>2, <3>3
      <3>4. CASE name = target[2]
        <4>1. pc' = "wait"
          BY <1>t, <2>1, <3>4 DEF Ahead
        <4>2. pending'[name] = own'[SuitePod(name)] /\ pending'[name] \in Nat
          BY <2>1, <2>2, <2>3, <2>4, <2>5, <3>1, <3>4 DEF Counts, CountsAreOwn
        <4> QED
          BY <2>1, <3>2, <3>4, <4>1, <4>2, PollTimesAssumption DEF Stale
      <3> QED
        BY <3>3, <3>4
    <2>9. RunningWasInTime'
      <3> SUFFICES ASSUME NEW name \in Name, SuitePod(name) \in started
                   PROVE  own'[SuitePod(name)] <= PollTimes
        BY <2>1 DEF RunningWasInTime, SuitePod
      <3>1. SuitePod(name) # target
        BY <1>t, <2>1, <2>4 DEF Counts, AheadIsOpen, Ahead
      <3> QED
        BY <2>3, <3>1 DEF Counts, RunningWasInTime
    <2> QED
      BY <2>6, <2>7, <2>8, <2>9 DEF Counts
  <1>6. CASE PollUnknown
    BY <1>6, CountsKept DEF PollUnknown, InSetup, Ahead
  <1>7. CASE NextPodOfSuite
    <2>1. UNCHANGED <<pending, modelled, own, started>> /\ pc = "fetch" /\ InSetup
      BY <1>7 DEF NextPodOfSuite, SetIPs, InSetup
    <2>2. \/ pc' = "wait" /\ target' = <<"suite", target[2] + 1>>
          \/ pc' = "remove" /\ target' = target
      BY <1>7 DEF NextPodOfSuite, WaitFor
    <2>3. \A name \in Name : Ahead(name)' => Ahead(name)
      BY <1>t, <2>1, <2>2 DEF Ahead
    <2> QED
      BY <2>1, <2>2, <2>3, CountsKept
  <1>8. CASE NextPodOfTest
    <2>1. UNCHANGED <<pending, modelled, own, started>> /\ ~InSetup'
      BY <1>8 DEF NextPodOfTest, SetIPs, InSetup
    <2> QED
      BY <2>1, CountsKept
  <1>9. CASE RemovePod
    <2>1. PICK name \in RemovablePods :
            /\ modelled' = modelled \ {name}
            /\ \/ pending' = [pending EXCEPT ![name] = 0] /\ UNCHANGED pc
               \/ pc' = "fatal" /\ UNCHANGED pending
      BY <1>9 DEF RemovePod
    <2>2. UNCHANGED <<target, own, started>> /\ pc = "remove" /\ pc' \in {"remove", "fatal"}
      BY <1>9 DEF RemovePod
    <2>3. CountsAreOwn'
      <3>1. name \in Name /\ pending \in [Name -> Nat]
        BY DEF RemovablePods, TypeOK
      <3> QED
        BY <2>1, <2>2, <3>1 DEF Counts, CountsAreOwn, InSetup, SuitePod
    <2>4. AheadIsOpen' /\ NothingDroppedYet'
      BY <2>2 DEF AheadIsOpen, NothingDroppedYet, Ahead
    <2>5. RunningWasInTime'
      BY <2>2 DEF Counts, RunningWasInTime, SuitePod
    <2> QED
      BY <2>3, <2>4, <2>5 DEF Counts
  <1>10. CASE SuiteReady \/ SkipTest \/ Teardown \/ Finish
    BY <1>10, CountsKept DEF SuiteReady, SkipTest, GoTo, Teardown, Finish, InSetup, Ahead
  <1>11. CASE StartTest
    <2>1. UNCHANGED <<pending, modelled, own, started>>
      BY <1>11 DEF StartTest
    <2>2. ~InSetup' \/ (pc' = "fatal" /\ target' = target)
      BY <1>11 DEF StartTest, InSetup
    <2> QED
      BY <2>1, <2>2, CountsKept DEF InSetup, Ahead
  <1>12. ASSUME NEW pod \in Pod, Schedule(pod) \/ \E to \in Phase : Upset(pod, to)
         PROVE  Counts'
    BY <1>12, CountsKept DEF Schedule, Upset, InSetup, Ahead
  <1>13. CASE UNCHANGED vars
    BY <1>13, CountsKept DEF vars, InSetup, Ahead
  <1> QED
    BY <1>1, <1>2, <1>3, <1>4, <1>5, <1>6, <1>7, <1>8, <1>9, <1>10, <1>11, <1>12,
       <1>13 DEF Next, CallerStep, Terminating
-----------------------------------------------------------------------------
(* What is dropped.                                                        *)
LEMMA OwnGrows ==
  ASSUME TypeOK, [Next]_vars
  PROVE  \A pod \in Pod : own'[pod] >= own[pod]
  <1>1. CASE PollPending
    BY <1>1 DEF PollPending, TypeOK
  <1>2. CASE UNCHANGED own
    BY <1>2 DEF TypeOK
  <1> QED
    BY <1>1, <1>2 DEF Next, CallerStep, Terminating, CreateNamespace, CreatePod,
       PollRunning, PollCompleted, PollUnknown, Timeout, SetIPs, NextPodOfSuite,
       NextPodOfTest, RemovePod, SuiteReady, SkipTest, StartTest, Teardown, Finish, GoTo,
       ApiError, Schedule, Upset, vars, history

(* The model changes in one step only.                                     *)
LEMMA ModelKept ==
  ASSUME [Next]_vars, ~RemovePod
  PROVE  modelled' = modelled
  BY DEF Next, CallerStep, Terminating, CreateNamespace, CreatePod, PollRunning,
     PollCompleted, PollPending, PollUnknown, Timeout, SetIPs, NextPodOfSuite,
     NextPodOfTest, SuiteReady, SkipTest, StartTest, Teardown, Finish, GoTo, ApiError,
     Schedule, Upset, vars, manager

(* Pods are removed during Setup only, and only the test is torn down.     *)
PlacesOfCaller ==
  /\ pc \in {"remove", "ready"} => InSetup
  /\ pc \in {"teardown", "failed"} => ~InSetup

LEMMA PlacesStep == PlacesOfCaller /\ [Next]_vars => PlacesOfCaller'
  BY DEF PlacesOfCaller, InSetup, Next, CallerStep, Terminating, CreateNamespace,
     CreatePod, WaitFor, PollRunning, PollCompleted, PollPending, PollUnknown,
     Timeout, SetIPs, NextPodOfSuite, NextPodOfTest, RemovePod, SuiteReady, SkipTest,
     StartTest, Teardown, Finish, GoTo, ApiError, OnError, Schedule, Upset, vars

LEMMA DroppedStep ==
  ASSUME TypeOK, Counts, PlacesOfCaller, DroppedWasStale, [Next]_vars
  PROVE  DroppedWasStale'
  <1>t. \A name \in Name : /\ SuitePod(name) \in Pod
                           /\ own[SuitePod(name)] \in Nat
                           /\ own'[SuitePod(name)] \in Nat
    BY PodOf, TypeNext DEF SuitePod, TypeOK
  <1>1. CASE RemovePod
    <2>1. PICK name \in RemovablePods : modelled' = modelled \ {name}
      BY <1>1 DEF RemovePod
    <2>2. pc = "remove" /\ own' = own
      BY <1>1 DEF RemovePod, history
    <2>3. name \in Name /\ pending[name] > PollTimes
      BY DEF RemovablePods
    <2>4. pending[name] = own[SuitePod(name)] \/ pending[name] = 0
      BY <2>2, <2>3 DEF Counts, CountsAreOwn, PlacesOfCaller
    <2>5. own[SuitePod(name)] > PollTimes
      BY <2>3, <2>4, PollTimesAssumption
    <2> QED
      BY <2>1, <2>2, <2>5 DEF DroppedWasStale, SuitePod
  <1>2. CASE ~RemovePod
    <2>1. \A name \in Name \ modelled : own[SuitePod(name)] > PollTimes
      BY DEF DroppedWasStale
    <2>2. \A name \in Name \ modelled : own'[SuitePod(name)] > PollTimes
      BY <1>t, <2>1, OwnGrows, PollTimesAssumption
    <2> QED
      BY <1>2, <2>2, ModelKept DEF DroppedWasStale, SuitePod
  <1> QED
    BY <1>1, <1>2

(* RemovePendingPods drops a pod only if more than PollTimes polls found it*)
(* pending, and never one whose wait ended because it was running.         *)
THEOREM DroppedPodsAreStale == Spec => []OnlyStalePodsAreDropped
  <1>1. Init => PlacesOfCaller /\ DroppedWasStale
    BY DEF Init, PlacesOfCaller, DroppedWasStale
  <1>2. TypeOK /\ Counts /\ DroppedWasStale => OnlyStalePodsAreDropped
    <2> SUFFICES ASSUME TypeOK, Counts, DroppedWasStale, NEW name \in Name \ modelled
                 PROVE  /\ own[<<"suite", name>>] > PollTimes
                        /\ <<"suite", name>> \notin started
      BY DEF OnlyStalePodsAreDropped
    <2>1. own[SuitePod(name)] > PollTimes /\ own[SuitePod(name)] \in Nat
      BY PodOf DEF DroppedWasStale, TypeOK, SuitePod
    <2>2. SuitePod(name) \in started => own[SuitePod(name)] <= PollTimes
      BY DEF Counts, RunningWasInTime
    <2> QED
      BY <2>1, <2>2, PollTimesAssumption DEF SuitePod
  <1> QED
    BY <1>1, <1>2, TypeInit, TypeNext, CountsInit, CountsNext, PlacesStep,
       DroppedStep, PTL DEF Spec

-----------------------------------------------------------------------------
(* The model and the cluster.                                              *)
LEMMA ModelStep ==
  ASSUME TypeOK, Counts, PlacesOfCaller, ModelIsCluster, [Next]_vars
  PROVE  ModelIsCluster'
  <1> USE DEF manager, cluster, history
  <1>t. /\ target \in Pod /\ target[1] \in {"suite", "udp"} /\ target[2] \in Name
        /\ target = <<target[1], target[2]>>
        /\ phase \in [Pod -> Phase]
        /\ \A name \in Name : SuitePod(name) \in Pod
    BY TargetIsAPair, PodOf DEF TypeOK, SuitePod
  <1>1. CASE RemovePod
    <2>1. PICK name \in RemovablePods :
            /\ modelled' = modelled \ {name}
            /\ \/ phase' = [phase EXCEPT ![<<"suite", name>>] = "deleted"]
               \/ pc' = "fatal"
      BY <1>1 DEF RemovePod
    <2>2. pc = "remove" /\ target' = target /\ InSetup
      BY <1>1 DEF RemovePod, PlacesOfCaller
    <2>3. CASE pc' = "fatal"
      BY <2>2, <2>3 DEF ModelIsCluster, InSetup
    <2>4. CASE phase' = [phase EXCEPT ![<<"suite", name>>] = "deleted"]
      <3>1. \A other \in Name : phase'[SuitePod(other)] =
                                  IF other = name THEN "deleted" ELSE phase[SuitePod(other)]
        BY <1>t, <2>4 DEF SuitePod
      <3>2. modelled = {other \in Name : phase[SuitePod(other)] # "deleted"}
        BY <2>2 DEF ModelIsCluster
      <3>3. modelled' = {other \in Name : phase'[SuitePod(other)] # "deleted"}
        BY <2>1, <3>1, <3>2
      <3> QED
        BY <3>3 DEF ModelIsCluster, SuitePod
    <2> QED
      BY <2>1, <2>3, <2>4
  <1>2. CASE CreatePod
    <2>1. /\ phase' = [phase EXCEPT ![target] = "pending"] /\ modelled' = modelled
          /\ pc = "create"
      BY <1>2 DEF CreatePod
    <2>2. \A name \in Name : phase'[SuitePod(name)] =
                               IF SuitePod(name) = target THEN "pending"
                                                          ELSE phase[SuitePod(name)]
      BY <1>t, <2>1
    <2>3. modelled = {name \in Name : phase[SuitePod(name)] # "deleted"}
      BY <2>1 DEF ModelIsCluster
    <2>4. \A name \in Name : SuitePod(name) = target => name \in modelled
      BY <1>t, <2>1 DEF Counts, NothingDroppedYet, InSetup, SuitePod
    <2>5. modelled = {name \in Name : phase'[SuitePod(name)] # "deleted"}
      BY <2>2, <2>3, <2>4
    <2> QED
      BY <2>1, <2>5 DEF ModelIsCluster, SuitePod
  <1>3. ASSUME NEW pod \in Pod, Schedule(pod) \/ \E to \in Phase : Upset(pod, to)
        PROVE  ModelIsCluster'
    <2>1. UNCHANGED <<pc, target, modelled>>
      BY <1>3 DEF Schedule, Upset
    <2>2. /\ phase[pod] # "deleted"
          /\ \E to \in Phase \ {"deleted"} : phase' = [phase EXCEPT ![pod] = to]
      BY <1>3 DEF Schedule, Upset, Phase
    <2>3. \A name \in Name : phase'[SuitePod(name)] = "deleted" <=>
                              phase[SuitePod(name)] = "deleted"
      BY <1>t, <2>2
    <2> QED
      BY <2>1, <2>3 DEF ModelIsCluster, InSetup, SuitePod
  <1>4. CASE /\ UNCHANGED <<phase, modelled>>
             /\ ~InSetup' \/ pc' # "fatal" => ~InSetup \/ pc # "fatal"
    BY <1>4 DEF ModelIsCluster, SuitePod
  <1>5. \/ RemovePod \/ CreatePod
        \/ \E pod \in Pod : Schedule(pod) \/ \E to \in Phase : Upset(pod, to)
        \/ /\ UNCHANGED <<phase, modelled>>
           /\ ~InSetup' \/ pc' # "fatal" => ~InSetup \/ pc # "fatal"
    BY DEF Next, CallerStep, Terminating, CreateNamespace, PollRunning,
       PollCompleted, PollPending, PollUnknown, Timeout, SetIPs, NextPodOfSuite,
       NextPodOfTest, WaitFor, SuiteReady, SkipTest, StartTest, Teardown, Finish, GoTo,
       ApiError, OnError, InSetup, vars, Final
  <1> QED
    BY <1>1, <1>2, <1>3, <1>4, <1>5

(* After Setup exactly the pods that were deleted have left the model.     *)
THEOREM ModelAgrees == Spec => []ModelMatchesCluster
  <1>1. Init => PlacesOfCaller /\ ModelIsCluster
    BY PodOf DEF Init, PlacesOfCaller, ModelIsCluster, SuitePod, InSetup
  <1>2. TypeOK /\ ModelIsCluster => ModelMatchesCluster
    BY TargetIsAPair DEF TypeOK, ModelIsCluster, ModelMatchesCluster, SetupDone,
       InSetup, SuitePod
  <1> QED
    BY <1>1, <1>2, TypeInit, TypeNext, CountsInit, CountsNext, PlacesStep,
       ModelStep, PTL DEF Spec
-----------------------------------------------------------------------------
(* The pods that are kept, and their addresses.                            *)
LEMMA PassedStep ==
  ASSUME TypeOK, Counts, PassedIsSettled, PlacesOfCaller, [Next]_vars
  PROVE  PassedIsSettled'
  <1> USE DEF manager, cluster, history
  <1>t. /\ target \in Pod /\ target[1] \in {"suite", "udp"} /\ target[2] \in Name
        /\ target = <<target[1], target[2]>>
        /\ \A name \in Name : /\ SuitePod(name) \in Pod
                              /\ own[SuitePod(name)] \in Nat
                              /\ own'[SuitePod(name)] \in Nat
    BY TargetIsAPair, PodOf, TypeNext DEF TypeOK, SuitePod
  <1>1. CASE NextPodOfSuite
    <2>1. /\ pc = "fetch" /\ InSetup /\ SetIPs /\ own' = own
      BY <1>1 DEF NextPodOfSuite, SetIPs, InSetup
    <2>2. \A name \in Name : Passed(name)' => Passed(name) \/ name = target[2]
      BY <1>t, <1>1, NAssumption DEF NextPodOfSuite, WaitFor, Passed, InSetup, SetIPs, Name
    <2>3. pending[target[2]] = own[target]
      BY <1>t, <2>1 DEF Counts, CountsAreOwn, NothingDroppedYet, InSetup, SuitePod
    <2>4. target \in address' \/ own[target] >= PollTimes
      <3>1. pending[target[2]] \in Nat
        BY <1>t DEF TypeOK
      <3>2. CASE pending[target[2]] < PollTimes
        BY <2>1, <3>2 DEF SetIPs, Fetches, FetchesBelow
      <3>3. CASE pending[target[2]] >= PollTimes
        BY <2>3, <3>3
      <3> QED
        BY <3>1, <3>2, <3>3, PollTimesAssumption
    <2>5. SuitePod(target[2]) = target
      BY <1>t, <2>1 DEF SuitePod, InSetup
    <2>6. address \subseteq address'
      BY <2>1 DEF SetIPs
    <2> QED
      BY <2>1, <2>2, <2>4, <2>5, <2>6 DEF PassedIsSettled, SuitePod
  <1>2. ASSUME ~NextPodOfSuite, NEW name \in Name, Passed(name)' PROVE Passed(name)
    BY <1>t, <1>2 DEF PlacesOfCaller, Passed, InSetup, Next, CallerStep, Terminating, CreateNamespace,
       CreatePod, WaitFor, PollRunning, PollCompleted, PollPending, PollUnknown,
       Timeout, SetIPs, NextPodOfTest, RemovePod, SuiteReady, SkipTest, StartTest,
       Teardown, Finish, GoTo, ApiError, OnError, Schedule, Upset, vars, Name
  <1>3. address \subseteq address'
    BY DEF Next, CallerStep, Terminating, CreateNamespace, CreatePod, PollRunning,
       PollCompleted, PollPending, PollUnknown, Timeout, SetIPs, NextPodOfSuite,
       NextPodOfTest, RemovePod, SuiteReady, SkipTest, StartTest, Teardown, Finish, GoTo,
       ApiError, Schedule, Upset, vars
  <1>4. CASE ~NextPodOfSuite
    BY <1>t, <1>2, <1>3, <1>4, OwnGrows, PollTimesAssumption DEF PassedIsSettled, SuitePod
  <1> QED
    BY <1>1, <1>4

LEMMA KeptStep ==
  ASSUME TypeOK, Counts, PlacesOfCaller, KeptWasInTime, [Next]_vars
  PROVE  KeptWasInTime'
  <1> USE DEF manager, cluster, history
  <1>t. /\ target \in Pod /\ target[1] \in {"suite", "udp"}
        /\ \A name \in Name : SuitePod(name) \in Pod
        /\ own \in [Pod -> Nat] /\ pending \in [Name -> Nat] /\ modelled \subseteq Name
    BY TargetIsAPair, PodOf DEF TypeOK, SuitePod
  <1>1. CASE SuiteReady
    <2>1. /\ pc = "remove" /\ RemovablePods = {} /\ UNCHANGED <<modelled, own>>
      BY <1>1 DEF SuiteReady, GoTo
    <2>2. InSetup
      BY <2>1 DEF PlacesOfCaller
    <2>3. \A name \in Name : ~(pending[name] > PollTimes)
      BY <2>1 DEF RemovablePods
    <2>4. \A name \in modelled : pending[name] = own[SuitePod(name)]
      BY <1>t, <2>1, <2>2 DEF Counts, CountsAreOwn
    <2>5. \A name \in modelled : own[SuitePod(name)] <= PollTimes
      <3> SUFFICES ASSUME NEW name \in modelled PROVE own[SuitePod(name)] <= PollTimes
        OBVIOUS
      <3>1. pending[name] \in Nat /\ ~(pending[name] > PollTimes)
        BY <1>t, <2>3
      <3>2. pending[name] <= PollTimes
        BY <3>1, PollTimesAssumption
      <3> QED
        BY <2>4, <3>2
    <2> QED
      BY <2>1, <2>5 DEF KeptWasInTime, SuitePod
  <1>2. CASE PollPending
    <2>1. /\ SetupDone' => ~InSetup /\ SetupDone
          /\ modelled' = modelled /\ own' = [own EXCEPT ![target] = @ + 1]
      BY <1>t, <1>2 DEF PollPending, SetupDone, InSetup
    <2>2. ~InSetup => \A name \in Name : own'[SuitePod(name)] = own[SuitePod(name)]
      <3>1. ~InSetup => \A name \in Name : SuitePod(name) # target
        BY <1>t DEF InSetup, SuitePod
      <3> QED
        BY <1>t, <2>1, <3>1
    <2> QED
      BY <1>t, <2>1, <2>2 DEF KeptWasInTime, SuitePod
  <1>3. CASE RemovePod
    BY <1>t, <1>3 DEF RemovePod, PlacesOfCaller, InSetup, KeptWasInTime, SetupDone
  <1>4. CASE ~SuiteReady /\ ~PollPending /\ ~RemovePod
    <2>1. own' = own
      BY <1>4 DEF Next, CallerStep, Terminating, CreateNamespace, CreatePod,
         PollRunning, PollCompleted, PollUnknown, Timeout, SetIPs, NextPodOfSuite,
         NextPodOfTest, SkipTest, StartTest, Teardown, Finish, GoTo, ApiError, Schedule, Upset, vars
    <2>2. SetupDone' => SetupDone
      BY <1>t, <1>4 DEF PlacesOfCaller, InSetup, SetupDone, Next, CallerStep, Terminating, CreateNamespace,
         CreatePod, WaitFor, PollRunning, PollCompleted, PollUnknown, Timeout, SetIPs,
         NextPodOfSuite, NextPodOfTest, SkipTest, StartTest, Teardown, Finish, GoTo, ApiError,
         OnError, Schedule, Upset, vars, Final
    <2> QED
      BY <1>4, <2>1, <2>2, ModelKept DEF KeptWasInTime, SuitePod
  <1> QED
    BY <1>1, <1>2, <1>3, <1>4

(* After Setup a pod of the model has its addresses, or was found pending  *)
(* by exactly PollTimes polls: the two comparisons with the threshold leave*)
(* no other gap.                                                           *)
THEOREM OnlyTheGapLacksAddresses == Spec => []OnlySlowPodsLackAddresses
  <1>1. Init => PlacesOfCaller /\ PassedIsSettled /\ KeptWasInTime
    BY DEF Init, PlacesOfCaller, PassedIsSettled, Passed, InSetup, KeptWasInTime, SetupDone
  <1>2. TypeOK /\ PassedIsSettled /\ KeptWasInTime => OnlySlowPodsLackAddresses
    <2> SUFFICES ASSUME TypeOK, PassedIsSettled, KeptWasInTime, SetupDone,
                        NEW name \in modelled
                 PROVE  \/ <<"suite", name>> \in address
                        \/ own[<<"suite", name>>] = PollTimes
      BY DEF OnlySlowPodsLackAddresses
    <2>1. name \in Name
      BY DEF TypeOK
    <2>2. own[SuitePod(name)] \in Nat
      BY <2>1, PodOf DEF TypeOK, SuitePod
    <2>3. Passed(name)
      BY DEF Passed, InSetup, SetupDone
    <2> QED
      BY <2>1, <2>2, <2>3, PollTimesAssumption DEF PassedIsSettled, KeptWasInTime, SuitePod
  <1> QED
    BY <1>1, <1>2, TypeInit, TypeNext, CountsInit, CountsNext, PlacesStep,
       PassedStep, KeptStep, PTL DEF Spec

(* Addresses are of pods that were seen running, and of all of those but   *)
(* the ones in the gap.                                                    *)
THEOREM AddressesAreAsPolled == Spec => []AddressesFollowThePolls
  BY AddressesAreOfRunningPods, OnlyTheGapLacksAddresses, PTL DEF AddressesFollowThePolls

-----------------------------------------------------------------------------
(* A wait that is given up.  The count kept for a name that is still in the*)
(* model is the polls of both pods of that name, and the test waits only   *)
(* for pods of such names.                                                 *)
TestPod(name) == <<"udp", name>>

GivenUpOnEvidence ==
  /\ \A name \in modelled :
       pending[name] = own[SuitePod(name)] + own[TestPod(name)]
  /\ ~InSetup => target[2] \in modelled
  /\ pc = "fetch" /\ target \notin started =>
       own[target] > 0 /\ pending[target[2]] > PollTimes

LEMMA GivenUpStep ==
  ASSUME TypeOK, Counts, PlacesOfCaller, GivenUpOnEvidence, [Next]_vars
  PROVE  GivenUpOnEvidence'
  <1> USE DEF manager, cluster, history
  <1>t. /\ target \in Pod /\ target[1] \in {"suite", "udp"} /\ target[2] \in Name
        /\ target = <<target[1], target[2]>>
        /\ pending \in [Name -> Nat] /\ own \in [Pod -> Nat] /\ modelled \subseteq Name
        /\ \A name \in Name : SuitePod(name) \in Pod /\ TestPod(name) \in Pod
    BY TargetIsAPair, PodOf DEF TypeOK, SuitePod, TestPod
  <1>1. CASE PollPending
    <2>1. /\ pending' = [pending EXCEPT ![target[2]] = @ + 1]
          /\ own' = [own EXCEPT ![target] = @ + 1]
          /\ UNCHANGED <<target, modelled, started>>
          /\ pc' = "fetch" => pending'[target[2]] > PollTimes
          /\ pc = "wait"
      BY <1>1 DEF PollPending, Stale
    <2>2. target[2] \in modelled
      BY <1>t, <2>1 DEF GivenUpOnEvidence, Counts, NothingDroppedYet
    <2>3. ASSUME NEW name \in modelled
          PROVE  pending'[name] = own'[SuitePod(name)] + own'[TestPod(name)]
      <3>1. pending[name] = own[SuitePod(name)] + own[TestPod(name)]
        BY DEF GivenUpOnEvidence
      <3>2. /\ name \in Name
            /\ own[SuitePod(name)] \in Nat /\ own[TestPod(name)] \in Nat
        BY <1>t
      <3>3. SuitePod(name) # TestPod(name)
        BY DEF SuitePod, TestPod
      <3>4. CASE name # target[2]
        <4>1. SuitePod(name) # target /\ TestPod(name) # target
          BY <1>t, <3>4 DEF SuitePod, TestPod
        <4> QED
          BY <1>t, <2>1, <3>1, <3>2, <3>4, <4>1
      <3>5. CASE name = target[2]
        <4>1. target = SuitePod(name) \/ target = TestPod(name)
          BY <1>t, <3>5 DEF SuitePod, TestPod
        <4> QED
          BY <1>t, <2>1, <3>1, <3>2, <3>3, <3>5, <4>1
      <3> QED
        BY <3>4, <3>5
    <2>4. own'[target] > 0
      BY <1>t, <2>1
    <2> QED
      BY <2>1, <2>2, <2>3, <2>4 DEF GivenUpOnEvidence, SuitePod, TestPod, InSetup
  <1>2. CASE RemovePod
    <2>1. PICK name \in RemovablePods :
            /\ modelled' = modelled \ {name}
            /\ pending' = [pending EXCEPT ![name] = 0] \/ UNCHANGED pending
      BY <1>2 DEF RemovePod
    <2>2. /\ InSetup /\ UNCHANGED <<target, own>> /\ pc' # "fetch"
      BY <1>2 DEF RemovePod, PlacesOfCaller
    <2>3. \A other \in modelled' : pending'[other] = pending[other]
      BY <1>t, <2>1
    <2> QED
      BY <2>1, <2>2, <2>3 DEF GivenUpOnEvidence, InSetup, SuitePod, TestPod
  <1>3. CASE NextPodOfTest \/ StartTest
    <2>0. Nth(1) \subseteq modelled /\ Nth(2) \subseteq modelled
      BY DEF Nth
    <2>1. /\ pc' # "fetch" /\ UNCHANGED <<pending, own, modelled>>
          /\ target' = target \/ target'[2] \in modelled
      BY <1>3, <2>0 DEF NextPodOfTest, SetIPs, StartTest
    <2>2. target' = target => ~InSetup \/ InSetup'
      BY DEF InSetup
    <2> QED
      BY <2>1, <2>2 DEF GivenUpOnEvidence, InSetup, SuitePod, TestPod
  <1>4. CASE PollRunning
    BY <1>4 DEF PollRunning, GivenUpOnEvidence, InSetup, SuitePod, TestPod
  <1>5. CASE ~PollPending /\ ~RemovePod /\ ~NextPodOfTest /\ ~StartTest /\ ~PollRunning
    <2>1. /\ UNCHANGED <<pending, own, modelled, started>>
          /\ pc' = "fetch" => pc = "fetch" /\ target' = target
          /\ ~InSetup' => target' = target
      BY <1>t, <1>5 DEF InSetup, Next, CallerStep, Terminating, CreateNamespace,
         CreatePod, WaitFor, PollCompleted, PollUnknown, Timeout, SetIPs,
         NextPodOfSuite, SuiteReady, SkipTest, Teardown, Finish, GoTo, ApiError,
         OnError, Schedule, Upset, vars, Final
    <2> QED
      BY <2>1 DEF GivenUpOnEvidence, InSetup, SuitePod, TestPod
  <1> QED
    BY <1>1, <1>2, <1>3, <1>4, <1>5

(* podRunning gives a pod up only after a poll that found it pending, and  *)
(* when more than PollTimes polls found a pod of its name pending: what the*)
(* key of PendingPods mixes up is the two pods of one name, nothing more.  *)
THEOREM GivenUpPodsWerePending == Spec => []GivenUpOnPendingPolls
  <1>1. Init => PlacesOfCaller /\ GivenUpOnEvidence
    BY PodOf DEF Init, PlacesOfCaller, GivenUpOnEvidence, InSetup, SuitePod, TestPod
  <1>2. TypeOK /\ Counts /\ GivenUpOnEvidence => GivenUpOnPendingPolls
    <2>1. TypeOK /\ Counts /\ GivenUpOnEvidence /\ pc = "fetch" => target[2] \in modelled
      BY TargetIsAPair DEF TypeOK, Counts, NothingDroppedYet, GivenUpOnEvidence
    <2> QED
      BY <2>1 DEF GivenUpOnEvidence, GivenUpOnPendingPolls, SuitePod, TestPod
  <1> QED
    BY <1>1, <1>2, TypeInit, TypeNext, CountsInit, CountsNext, PlacesStep, GivenUpStep,
       PTL DEF Spec

-----------------------------------------------------------------------------
(* The namespaces that are left.  Only the test creates the second one, and*)
(* only its Teardown leads to a test that has passed.                      *)
NamespacesAccounted ==
  /\ InSetup \/ pc = "tested" => "udp" \notin namespaces
  /\ pc = "exited" => namespaces = {}

LEMMA NamespacesStep ==
  ASSUME TypeOK, PlacesOfCaller, NamespacesAccounted, [Next]_vars
  PROVE  NamespacesAccounted'
  <1> USE DEF manager, cluster, history
  <1>t. target[1] \in {"suite", "udp"} /\ namespaces \subseteq {"suite", "udp"}
    BY TargetIsAPair DEF TypeOK
  <1>1. CASE CreateNamespace
    BY <1>t, <1>1 DEF CreateNamespace, NamespacesAccounted, InSetup
  <1>2. CASE Teardown
    BY <1>t, <1>2 DEF Teardown, NamespacesAccounted, PlacesOfCaller, InSetup
  <1>3. CASE Finish
    BY <1>t, <1>3 DEF Finish, NamespacesAccounted, InSetup
  <1>4. CASE SkipTest
    BY <1>4 DEF SkipTest, GoTo, NamespacesAccounted, PlacesOfCaller, InSetup
  <1>5. CASE ~CreateNamespace /\ ~Teardown /\ ~Finish /\ ~SkipTest
    <2>1. namespaces' = namespaces
      BY <1>5 DEF Next, CallerStep, Terminating, CreatePod, PollRunning,
         PollCompleted, PollPending, PollUnknown, Timeout, SetIPs, NextPodOfSuite,
         NextPodOfTest, RemovePod, SuiteReady, StartTest, GoTo, ApiError, Schedule,
         Upset, vars
    <2>2. InSetup' => InSetup
      BY <1>5 DEF InSetup, Next, CallerStep, Terminating, CreatePod, WaitFor,
         PollRunning, PollCompleted, PollPending, PollUnknown, Timeout,
         NextPodOfSuite, NextPodOfTest, RemovePod, SuiteReady, StartTest, GoTo,
         ApiError, Schedule, Upset, vars
    <2>3. pc' \in {"tested", "exited"} => pc' = pc
      BY <1>5 DEF Next, CallerStep, Terminating, CreatePod, WaitFor, PollRunning,
         PollCompleted, PollPending, PollUnknown, Timeout, NextPodOfSuite,
         NextPodOfTest, RemovePod, SuiteReady, StartTest, GoTo, ApiError, OnError,
         Schedule, Upset, vars
    <2> QED
      BY <2>1, <2>2, <2>3 DEF NamespacesAccounted
  <1> QED
    BY <1>1, <1>2, <1>3, <1>4, <1>5

(* Whatever call fails, and wherever the test or the suite is given up, an *)
(* exit code of 0 means that both namespaces were deleted.                 *)
THEOREM SuccessLeavesNothing == Spec => []SuccessMeansCleanedUp
  <1>1. Init => PlacesOfCaller /\ NamespacesAccounted
    BY DEF Init, PlacesOfCaller, NamespacesAccounted, InSetup
  <1>2. NamespacesAccounted => SuccessMeansCleanedUp
    BY DEF NamespacesAccounted, SuccessMeansCleanedUp
  <1> QED
    BY <1>1, <1>2, TypeInit, TypeNext, PlacesStep, NamespacesStep, PTL DEF Spec

-----------------------------------------------------------------------------
(* The caller comes closer to its end with every step.                     *)

(* The second pod of the model comes after the first.                      *)
LEMMA NthInOrder ==
  ASSUME modelled \subseteq Name, NEW first \in Nth(1), NEW second \in Nth(2)
  PROVE  first < second
  <1> DEFINE Before(name) == {m \in modelled : m < name}
  <1>1. /\ first \in modelled /\ Cardinality(Before(first)) = 0
        /\ second \in modelled /\ Cardinality(Before(second)) = 1
    BY DEF Nth
  <1>2. IsFiniteSet(Before(first))
    <2>1. IsFiniteSet(Name)
      BY NAssumption, FS_Interval DEF Name
    <2>2. Before(first) \subseteq Name
      OBVIOUS
    <2> QED
      BY <2>1, <2>2, FS_Subset
  <1>3. Before(first) = {}
    BY <1>1, <1>2, FS_EmptySet
  <1>4. ~(second < first) /\ second # first
    BY <1>1, <1>3
  <1> QED
    BY <1>1, <1>4 DEF Name

LEMMA Advances ==
  ASSUME TypeOK, Counts, PlacesOfCaller, CallerStep
  PROVE  Further
  <1> USE DEF manager, cluster, history, StageInSetup, StageInTest
  <1>t. /\ target \in Pod /\ target[1] \in {"suite", "udp"} /\ target[2] \in Name
        /\ target = <<target[1], target[2]>>
        /\ Name \subseteq Nat /\ modelled \subseteq Name
        /\ polls \in 0 .. MaxPolls /\ pending \in [Name -> Nat]
    BY TargetIsAPair DEF TypeOK, Name
  <1>1. CASE CreateNamespace
    <2>1. pc = "namespace" /\ pc' = "create" /\ target' = target
      BY <1>1 DEF CreateNamespace
    <2> QED
      BY <1>t, <2>1 DEF Further, Stage
  <1>2. CASE CreatePod
    <2>1. /\ pc = "create"
          /\ \/ pc' = "create" /\ InSetup /\ target' = <<"suite", target[2] + 1>>
             \/ pc' = "wait" /\ InSetup /\ target' = <<"suite", 1>>
             \/ pc' = "wait" /\ ~InSetup /\ target' = target
      BY <1>2 DEF CreatePod, WaitFor, InSetup
    <2> QED
      BY <1>t, <2>1 DEF Further, Stage, Turn, InSetup
  <1>3. CASE PollRunning \/ PollPending \/ PollUnknown
    <2>1. /\ pc = "wait" /\ UNCHANGED <<target, modelled>>
          /\ pc' = "fetch" \/ (pc' = "wait" /\ polls' = polls + 1)
      BY <1>3 DEF PollRunning, PollPending, PollUnknown
    <2>2. polls' > polls \/ pc' = "fetch"
      BY <1>t, <2>1, MaxPollsAssumption
    <2> QED
      BY <1>t, <2>1, <2>2 DEF Further, Stage, Turn
  <1>4. CASE PollCompleted \/ Timeout
    <2>1. /\ pc = "wait" /\ target' = target
          /\ pc' = IF InSetup THEN "fatal" ELSE "failed"
      BY <1>4 DEF PollCompleted, Timeout, OnError, InSetup
    <2> QED
      BY <1>t, <2>1 DEF Further, Stage, InSetup
  <1>5. CASE NextPodOfSuite
    <2>1. /\ pc = "fetch" /\ InSetup
          /\ \/ pc' = "wait" /\ target' = <<"suite", target[2] + 1>>
             \/ pc' = "remove" /\ target' = target
      BY <1>5 DEF NextPodOfSuite, SetIPs, WaitFor, InSetup
    <2> QED
      BY <1>t, <2>1 DEF Further, Stage, InSetup
  <1>6. CASE NextPodOfTest
    <2>1. /\ pc = "fetch" /\ ~InSetup
          /\ \/ pc' \in {"fatal", "teardown"} /\ target' = target
             \/ /\ target[2] \in Nth(1) /\ pc' = "create"
                /\ \E name \in Nth(2) : target' = <<"udp", name>>
      BY <1>6 DEF NextPodOfTest, SetIPs, InSetup
    <2>2. CASE pc' \in {"fatal", "teardown"} /\ target' = target
      BY <1>t, <2>1, <2>2 DEF Further, Stage, InSetup
    <2>3. CASE target[2] \in Nth(1) /\ pc' = "create"
      <3>1. PICK name \in Nth(2) : target' = <<"udp", name>>
        BY <2>1, <2>3
      <3>2. target[2] < name
        BY <1>t, <2>3, NthInOrder
      <3>3. target'[1] = "udp" /\ target'[2] > target[2]
        BY <1>t, <3>1, <3>2
      <3>4. Stage = 7 /\ Stage' = 7
        BY <1>t, <2>1, <2>3, <3>3 DEF Stage, InSetup
      <3> QED
        BY <3>3, <3>4 DEF Further
    <2> QED
      BY <2>1, <2>2, <2>3
  <1>7. CASE RemovePod
    <2>1. PICK name \in RemovablePods : modelled' = modelled \ {name}
      BY <1>7 DEF RemovePod
    <2>2. /\ pc = "remove" /\ pc' \in {"remove", "fatal"} /\ InSetup
          /\ UNCHANGED <<target, polls>>
      BY <1>7 DEF RemovePod, PlacesOfCaller
    <2>3. name \in modelled
      <3>1. name \in Name /\ pending[name] > PollTimes
        BY DEF RemovablePods
      <3>2. pending[name] # 0
        BY <1>t, <3>1, PollTimesAssumption
      <3> QED
        BY <2>2, <3>1, <3>2 DEF Counts, CountsAreOwn
    <2> QED
      BY <1>t, <2>1, <2>2, <2>3 DEF Further, Stage, Turn, InSetup
  <1>8. CASE SuiteReady \/ SkipTest
    <2>1. /\ InSetup /\ target' = target
          /\ \/ pc = "remove" /\ pc' \in {"ready", "fatal"}
             \/ pc = "ready" /\ pc' = "tested"
      BY <1>8 DEF SuiteReady, SkipTest, GoTo, PlacesOfCaller
    <2> QED
      BY <1>t, <2>1 DEF Further, Stage, InSetup
  <1>9. CASE StartTest
    <2>1. /\ InSetup /\ pc = "ready"
          /\ \/ pc' = "fatal" /\ target' = target
             \/ pc' = "namespace" /\ target'[1] = "udp"
      BY <1>9 DEF StartTest, PlacesOfCaller
    <2> QED
      BY <1>t, <2>1 DEF Further, Stage, InSetup
  <1>10. CASE Teardown \/ Finish
    <2>1. /\ target' = target
          /\ \/ pc = "teardown" /\ ~InSetup /\ pc' \in {"tested", "failed"}
             \/ pc = "tested" /\ pc' \in {"exited", "fatal"}
             \/ pc = "failed" /\ ~InSetup /\ pc' = "fatal"
      BY <1>10 DEF Teardown, Finish, PlacesOfCaller
    <2> QED
      BY <1>t, <2>1 DEF Further, Stage, InSetup
  <1> QED
    BY <1>1, <1>2, <1>3, <1>4, <1>5, <1>6, <1>7, <1>8, <1>9, <1>10 DEF CallerStep

(* Every call that returns brings the caller closer to its end, for any    *)
(* number of nodes and polls: what remains to be assumed for the suite to  *)
(* end is that the calls return.                                           *)
THEOREM NothingIsDoneTwice == Spec => CallerAdvances
  <1>1. Init => PlacesOfCaller
    BY DEF Init, PlacesOfCaller, InSetup
  <1>2. TypeOK /\ Counts /\ PlacesOfCaller /\ [Next]_vars => [CallerStep => Further]_vars
    BY Advances
  <1> QED
    BY <1>1, <1>2, TypeInit, TypeNext, CountsInit, CountsNext, PlacesStep, PTL
       DEF Spec, CallerAdvances
=============================================================================
