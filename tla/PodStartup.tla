----------------------------- MODULE PodStartup -----------------------------
(***************************************************************************)
(* How the suite brings its pods up and tears them down: the Setup and     *)
(* Finish functions of tests/main_test.go over StartPods, WaitAndSetIPs    *)
(* and RemovePendingPodsInNamespace (pkg/matrix/manager.go), podRunning    *)
(* (pkg/entities/kubernetes/exec.go), and the one test that creates pods   *)
(* under names already in use, TestUDPInitContainer.                       *)
(*                                                                         *)
(* The caller is sequential; the cluster is not.  Pods get scheduled, or   *)
(* not, get lost and fail while the caller polls, and every call of the    *)
(* API may fail.  PendingPods, the map in which the manager counts the     *)
(* polls that found a pod pending, is keyed by the name of the pod alone.  *)
(***************************************************************************)
EXTENDS Naturals, FiniteSets

CONSTANTS N,          \* nodes of the cluster, one pod for each
          PollTimes,  \* consts.PollTimesToDeterminePendingPod
          MaxPolls,   \* polls until WaitForPodRunningInNamespace times out
          MaxUpsets   \* bound: pods that fail, get lost or come back

(* StartPods returns an error at once for fewer than two nodes.            *)
ASSUME NAssumption == N \in Nat \ {0, 1}
ASSUME PollTimesAssumption == PollTimes \in Nat
ASSUME MaxPollsAssumption == MaxPolls \in Nat \ {0}
ASSUME MaxUpsetsAssumption == MaxUpsets \in Nat

Name == 1 .. N
Pod == {"suite", "udp"} \X Name
Phase == {"absent", "pending", "running", "failed", "unknown", "deleted"}

VARIABLES
  pc,          \* the caller
  target,      \* the pod it creates or waits for
  polls,       \* polls of the wait that is going on
  pending,     \* PendingPods; 0 for a name that is not in the map
  modelled,    \* names of the suite's pods in the model
  address,     \* pods of the model with an IP address
  namespaces,  \* namespaces that exist in the cluster
  phase,       \* the pods in the cluster
  upsets,      \* failures and losses so far
  own,         \* history: polls that found this very pod pending
  started      \* history: pods whose wait ended because they were running

manager == <<pending, modelled, address>>
cluster == <<namespaces, phase, upsets>>
history == <<own, started>>
vars == <<pc, target, polls, manager, cluster, history>>

Init ==
  /\ pc = "namespace"
  /\ target = <<"suite", 1>>
  /\ polls = 0
  /\ pending = [name \in Name |-> 0]
  /\ modelled = Name
  /\ address = {}
  /\ namespaces = {}
  /\ phase = [pod \in Pod |-> "absent"]
  /\ upsets = 0
  /\ own = [pod \in Pod |-> 0]
  /\ started = {}

(* The exit code: 0, or not 0.  Only the first says that all is well.      *)
Final == {"exited", "fatal"}

-----------------------------------------------------------------------------
(* The cluster.                                                            *)
Schedule(pod) ==
  /\ pc \notin Final
  /\ phase[pod] = "pending"
  /\ phase' = [phase EXCEPT ![pod] = "running"]
  /\ UNCHANGED <<pc, target, polls, manager, namespaces, upsets, history>>

Upset(pod, to) ==
  /\ pc \notin Final
  /\ upsets < MaxUpsets
  /\ \/ phase[pod] = "running" /\ to \in {"failed", "unknown"}
     \/ phase[pod] = "pending" /\ to = "failed"
     \/ phase[pod] = "unknown" /\ to = "running"
  /\ upsets' = upsets + 1
  /\ phase' = [phase EXCEPT ![pod] = to]
  /\ UNCHANGED <<pc, target, polls, manager, namespaces, history>>

-----------------------------------------------------------------------------
(* The caller.  An error during Setup is log.Fatal: the process exits and  *)
(* Finish is not called.  An error in the test is t.Fatal of the test that *)
(* encloses the feature: the test has failed and its Teardown is skipped.  *)
OnError == pc' = IF target[1] = "suite" THEN "fatal" ELSE "failed"

GoTo(place) ==
  pc' = place /\ UNCHANGED <<target, polls, manager, cluster, history>>

(* Only a pod that was not pending too often gets its addresses.           *)
FetchesBelow(bound) == pending[target[2]] < bound

(* Mutant of Fetches: off by one.                                          *)
FetchesTooRarely == FetchesBelow(PollTimes - 1)
Fetches == FetchesBelow(PollTimes)

(* Any call of the API may return an error, in which case nothing else of  *)
(* the operation happens.                                                  *)
ApiError ==
  /\ pc \in {"namespace", "create", "wait"} \/ (pc = "fetch" /\ Fetches)
  /\ OnError
  /\ UNCHANGED <<target, polls, manager, cluster, history>>

CreateNamespace ==
  /\ pc = "namespace"
  /\ namespaces' = namespaces \cup {target[1]}
  /\ pc' = "create"
  /\ UNCHANGED <<target, polls, manager, phase, upsets, history>>

WaitFor(pod) ==
  /\ pc' = "wait"
  /\ target' = pod
  /\ polls' = 0

(* Setup creates every pod before it waits for the first, the test waits   *)
(* for each pod it has created.                                            *)
CreatePod ==
  /\ pc = "create"
  /\ phase' = [phase EXCEPT ![target] = "pending"]
  /\ IF target[1] = "suite" /\ target[2] < N
       THEN target' = <<"suite", target[2] + 1>> /\ UNCHANGED <<pc, polls>>
       ELSE WaitFor(IF target[1] = "suite" THEN <<"suite", 1>> ELSE target)
  /\ UNCHANGED <<manager, namespaces, upsets, history>>

(* One call of the condition that podRunning returns.                      *)
PollRunning ==
  /\ pc = "wait"
  /\ polls < MaxPolls
  /\ phase[target] = "running"
  /\ started' = started \cup {target}
  /\ pc' = "fetch"
  /\ UNCHANGED <<target, polls, manager, cluster, own>>

PollCompleted ==
  /\ pc = "wait"
  /\ polls < MaxPolls
  /\ phase[target] = "failed"
  /\ OnError
  /\ UNCHANGED <<target, polls, manager, cluster, history>>

Stale(count) == count > PollTimes

PollPending ==
  /\ pc = "wait"
  /\ polls < MaxPolls
  /\ phase[target] = "pending"
  /\ pending' = [pending EXCEPT ![target[2]] = @ + 1]
  /\ own' = [own EXCEPT ![target] = @ + 1]
  /\ IF Stale(pending'[target[2]])
       THEN pc' = "fetch" /\ UNCHANGED polls
       ELSE polls' = polls + 1 /\ UNCHANGED pc
  /\ UNCHANGED <<target, modelled, address, cluster, started>>

(* Mutant of PollUnknown: a pod that is lost counts as pending.            *)
PollUnknownCounted ==
  /\ pc = "wait"
  /\ polls < MaxPolls
  /\ phase[target] = "unknown"
  /\ polls' = polls + 1
  /\ pending' = [pending EXCEPT ![target[2]] = @ + 1]
  /\ UNCHANGED <<pc, target, modelled, address, cluster, history>>

(* Mutant of PollUnknown: the bound of the polls overrun by one.           *)
PollUnknownUncounted ==
  /\ pc = "wait"
  /\ polls <= MaxPolls
  /\ phase[target] = "unknown"
  /\ polls' = polls + 1
  /\ UNCHANGED <<pc, target, manager, cluster, history>>

PollUnknown ==
  /\ pc = "wait"
  /\ polls < MaxPolls
  /\ phase[target] = "unknown"
  /\ polls' = polls + 1
  /\ UNCHANGED <<pc, target, manager, cluster, history>>

(* Mutant of Timeout: polling goes on for good.                            *)
NoTimeout ==
  /\ pc = "wait"
  /\ polls = MaxPolls
  /\ UNCHANGED vars

Timeout ==
  /\ pc = "wait"
  /\ polls = MaxPolls
  /\ OnError
  /\ UNCHANGED <<target, polls, manager, cluster, history>>

(* The udp test uses the names of the first two pods of the model.         *)
Nth(k) == {name \in modelled : Cardinality({m \in modelled : m < name}) = k - 1}

(* The end of WaitAndSetIPs, and on to the next pod of the loop.           *)
SetIPs ==
  /\ pc = "fetch"
  /\ address' = IF Fetches THEN address \cup {target} ELSE address
  /\ UNCHANGED <<pending, modelled, cluster, history>>

NextPodOfSuite ==
  /\ SetIPs
  /\ target[1] = "suite"
  /\ IF target[2] < N
       THEN WaitFor(<<"suite", target[2] + 1>>)
       ELSE pc' = "remove" /\ UNCHANGED <<target, polls>>

NextPodOfTest ==
  /\ SetIPs
  /\ target[1] = "udp"
  /\ IF target[2] \in Nth(1)
       THEN IF Nth(2) = {}
              THEN pc' = "fatal" /\ UNCHANGED <<target, polls>>
              ELSE \E name \in Nth(2) :
                     target' = <<"udp", name>> /\ pc' = "create" /\ UNCHANGED polls
       ELSE pc' = "teardown" /\ UNCHANGED <<target, polls>>

(* Mutant of RemovablePods: off by one.                                    *)
RemovableTooEarly == {name \in Name : pending[name] >= PollTimes}

(* RemovePendingPodsInNamespace, for one entry of the map: the model first,*)
(* then the cluster, then the entry itself.                                *)
RemovablePods == {name \in Name : pending[name] > PollTimes}

(* Mutant of RemovePod: an error of the deletion is only logged.           *)
RemoveFromModelOnly ==
  /\ pc = "remove"
  /\ \E name \in RemovablePods :
       /\ modelled' = modelled \ {name}
       /\ pending' = [pending EXCEPT ![name] = 0]
       /\ \/ phase' = [phase EXCEPT ![<<"suite", name>>] = "deleted"]
          \/ UNCHANGED phase
  /\ UNCHANGED <<pc, target, polls, address, namespaces, upsets, history>>

RemovePod ==
  /\ pc = "remove"
  /\ \E name \in RemovablePods :
       /\ modelled' = modelled \ {name}
       /\ \/ /\ phase' = [phase EXCEPT ![<<"suite", name>>] = "deleted"]
             /\ pending' = [pending EXCEPT ![name] = 0]
             /\ UNCHANGED pc
          \/ /\ pc' = "fatal"
             /\ UNCHANGED <<phase, pending>>
  /\ UNCHANGED <<target, polls, address, namespaces, upsets, history>>

(* WaitForHTTPServers comes before the tests, and its error is fatal.      *)
SuiteReady ==
  /\ pc = "remove"
  /\ RemovablePods = {}
  /\ \E place \in {"ready", "fatal"} : GoTo(place)

(* The suite runs without the udp test, or with it.                        *)
SkipTest == pc = "ready" /\ GoTo("tested")

StartTest ==
  /\ pc = "ready"
  /\ IF Nth(1) = {}
       THEN pc' = "fatal" /\ UNCHANGED target
       ELSE \E name \in Nth(1) : target' = <<"udp", name>> /\ pc' = "namespace"
  /\ UNCHANGED <<polls, manager, cluster, history>>

(* Mutant of Teardown: an error of the deletion is only logged.            *)
TeardownLogs ==
  /\ pc = "teardown"
  /\ pc' \in {"tested", "failed"}
  /\ \/ namespaces' = namespaces \ {"udp"}
     \/ UNCHANGED namespaces
  /\ UNCHANGED <<target, polls, manager, phase, upsets, history>>

(* The validation of the test is over, with its verdict; t.Error does not  *)
(* keep the Teardown from being called.                                    *)
Teardown ==
  /\ pc = "teardown"
  /\ \/ pc' \in {"tested", "failed"} /\ namespaces' = namespaces \ {"udp"}
     \/ pc' = "failed" /\ UNCHANGED namespaces
  /\ UNCHANGED <<target, polls, manager, phase, upsets, history>>

(* Finish deletes the suite's namespace and writes the results; an error of*)
(* either is fatal.  The exit code is 0 only if no test has failed.        *)
Finish ==
  /\ pc \in {"tested", "failed"}
  /\ \/ /\ namespaces' = namespaces \ {"suite"}
        /\ pc' = "fatal" \/ (pc = "tested" /\ pc' = "exited")
     \/ pc' = "fatal" /\ UNCHANGED namespaces
  /\ UNCHANGED <<target, polls, manager, phase, upsets, history>>

CallerStep ==
  \/ CreateNamespace \/ CreatePod
  \/ PollRunning \/ PollCompleted \/ PollPending \/ PollUnknown \/ Timeout
  \/ NextPodOfSuite \/ NextPodOfTest
  \/ RemovePod \/ SuiteReady \/ SkipTest \/ StartTest \/ Teardown \/ Finish

Terminating == pc \in Final /\ UNCHANGED vars

Next ==
  \/ CallerStep
  \/ ApiError
  \/ \E pod \in Pod : Schedule(pod) \/ \E to \in Phase : Upset(pod, to)
  \/ Terminating

Spec == Init /\ [][Next]_vars

(* The calls of the API return.  Neither that they succeed nor anything of *)
(* the cluster is assumed.                                                 *)
FairSpec == Spec /\ WF_vars(CallerStep)

-----------------------------------------------------------------------------
(* Every variable has a value of its type.                                 *)
TypeOK ==
  /\ pc \in {"namespace", "create", "wait", "fetch", "remove", "ready", "teardown",
             "tested", "failed"} \cup Final
  /\ target \in Pod
  /\ polls \in 0 .. MaxPolls
  /\ pending \in [Name -> Nat]
  /\ modelled \subseteq Name
  /\ address \subseteq Pod
  /\ namespaces \subseteq {"suite", "udp"}
  /\ phase \in [Pod -> Phase]
  /\ upsets \in 0 .. MaxUpsets
  /\ own \in [Pod -> Nat]
  /\ started \subseteq Pod

SetupDone == target[1] = "udp" \/ pc \in {"ready", "tested", "exited"}

(* After Setup the model and the cluster agree on the suite's pods: what   *)
(* was dropped from the one was deleted from the other, and only that.     *)
ModelMatchesCluster ==
  SetupDone => modelled = {name \in Name : phase[<<"suite", name>>] # "deleted"}

(* A pod is dropped only on the evidence of more than PollTimes polls that *)
(* found it pending, never one whose wait ended because it was running.    *)
OnlyStalePodsAreDropped ==
  \A name \in Name \ modelled :
    own[<<"suite", name>>] > PollTimes /\ <<"suite", name>> \notin started

(* Addresses are read only from a pod that was seen running, for the fields*)
(* of the pod's status may be empty before.                                *)
AddressesOfRunningPods == address \subseteq started

(* After Setup a pod of the model lacks its addresses only when it was seen*)
(* pending exactly PollTimes times and running then.                       *)
OnlySlowPodsLackAddresses ==
  SetupDone => \A name \in modelled :
                 \/ <<"suite", name>> \in address
                 \/ own[<<"suite", name>>] = PollTimes

(* Both: what the polls of a pod said decides whether it has its addresses,*)
(* whatever happens between the last poll and the reading.                 *)
AddressesFollowThePolls == AddressesOfRunningPods /\ OnlySlowPodsLackAddresses

(* A wait that ends without the pod running has found that pod pending, and*)
(* more than PollTimes polls found a pod of its name pending: no other poll*)
(* counts, and no poll counts twice.                                       *)
GivenUpOnPendingPolls ==
  pc = "fetch" /\ target \notin started =>
    /\ own[target] > 0
    /\ own[<<"suite", target[2]>>] + own[<<"udp", target[2]>>] > PollTimes

(* A run that reports success has deleted every namespace that it created; *)
(* one that left a namespace behind has failed, wherever it was given up.  *)
SuccessMeansCleanedUp == pc = "exited" => namespaces = {}

(* How far the caller is: the stage of the run, and what it is at for the  *)
(* pod of its loop.                                                        *)
StageInSetup ==
  [namespace |-> 1, create |-> 2, wait |-> 3, fetch |-> 3, remove |-> 4, ready |-> 5,
   tested |-> 9, exited |-> 10, fatal |-> 10]

StageInTest ==
  [namespace |-> 6, create |-> 7, wait |-> 7, fetch |-> 7, teardown |-> 8,
   tested |-> 9, failed |-> 9, exited |-> 10, fatal |-> 10]

Stage == (IF target[1] = "suite" THEN StageInSetup ELSE StageInTest)[pc]

Turn == IF pc = "create" THEN 1 ELSE IF pc = "wait" THEN 2 ELSE 3

Further ==
  \/ Stage' > Stage
  \/ Stage' = Stage /\ target'[2] > target[2]
  \/ /\ Stage' = Stage /\ target' = target
     /\ \/ Turn' > Turn
        \/ Turn' = Turn /\ polls' > polls
        \/ Turn' = Turn /\ modelled' # modelled /\ modelled' \subseteq modelled

(* No step of the caller is in vain: no wait starts over, no pod is waited *)
(* for or dropped twice.  Stages, pods, polls and the model are bounded, so*)
(* the caller ends as soon as its calls return, whatever the cluster does. *)
CallerAdvances == [][CallerStep => Further]_vars

(* Whatever the cluster does or leaves undone, the suite comes to an end.  *)
SuiteEnds == <>(pc \in Final)

-----------------------------------------------------------------------------
(* What the repository says, and the code does not do.                     *)

(* "WaitAndSetIPs wait for running pods and set internal pod and host IP   *)
(* addresses": a pod whose wait ended because it was running, and that the *)
(* caller has moved on from, has its addresses.                            *)
RunningPodsHaveAddresses ==
  SetupDone => \A name \in modelled :
                 <<"suite", name>> \in started => <<"suite", name>> \in address

(* "determined this pod stale in pending state": a wait is given up on the *)
(* evidence of polls of that pod.                                          *)
StaleOnOwnEvidence ==
  pc = "fetch" /\ target \notin started => Stale(own[target])
=============================================================================
