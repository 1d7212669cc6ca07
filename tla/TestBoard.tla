------------------------------ MODULE TestBoard ------------------------------
(***************************************************************************)
(* The features of tests/*_test.go over the pods they share.               *)
(*                                                                         *)
(* A feature's Setup makes services and writes what a probe needs to use    *)
(* them into the pods of the model; its Assess validates over those pods;   *)
(* its Teardown deletes the services and, mostly, resets the pods           *)
(* (ResetTestBoard).  Any call of the API may fail.  t.Error goes on,       *)
(* t.Fatal does not: most closures call it on the t of the test function    *)
(* around them, which ends that function with its other features.           *)
(*                                                                         *)
(* The pods and the slices that the test functions hold are module          *)
(* ClusterModel, the service whose label is changed is ServiceHandle; both  *)
(* are composed here with the control of the tests.  A field of a pod is    *)
(* modelled by the feature that wrote it.  A service is made and waited for in *)
(* one step, with any outcome that SetupPromise has for that caller, which *)
(* is what module ServiceWatch implements; a validation is module           *)
(* Validation; the UDP test has a model of its own (module PodStartup).     *)
(***************************************************************************)
EXTENDS ClusterModel, ServiceHandle, SetupPromise, FiniteSets

CONSTANT Clusters   \* the pods that Setup may leave in the model, in order

(***************************************************************************)
(* The test functions in the order of their files, and their features.     *)
(***************************************************************************)
\* Mutant: the feature that takes the slice anew is not the last one.
SuiteAffinityFirst ==
  << <<"Bandwidth">>,
     <<"SessionAffinity", "ClusterIP", "NodePort", "LoadBalancer",
       "EndlessService", "Hairpin">>,
     <<"NodePortLocal", "ExternalName">>,
     <<"PerfTesting">>,
     <<"HostNetwork">>,
     <<"ProxyNameLabel", "HeadlessLabel">> >>

Suite ==
  << <<"Bandwidth">>,
     <<"ClusterIP", "NodePort", "LoadBalancer", "EndlessService", "Hairpin",
       "SessionAffinity">>,
     <<"NodePortLocal", "ExternalName">>,
     <<"PerfTesting">>,
     <<"HostNetwork">>,
     <<"ProxyNameLabel", "HeadlessLabel">> >>

Feature ==
  {"Bandwidth", "ClusterIP", "NodePort", "LoadBalancer", "EndlessService",
   "Hairpin", "SessionAffinity", "NodePortLocal", "ExternalName", "PerfTesting",
   "HostNetwork", "ProxyNameLabel", "HeadlessLabel"}

PerPod   == {"ClusterIP", "NodePort", "LoadBalancer", "ExternalName"}
Template == {"EndlessService", "Hairpin", "SessionAffinity"}
Label    == {"ProxyNameLabel", "HeadlessLabel"}

\* Features whose Teardown is, or ends with, ResetTestBoard.
Resetting == PerPod \union Template \union {"NodePortLocal", "PerfTesting"}

\* The test functions that start with pods := model.AllPods(), and those that
\* then read pods[0], whether or not one of their features was selected.
TakesPods  == {2, 3, 6}
TakesFirst == {3, 6}

\* The pods a feature adds.  IsPerf looks for iperf in a command.
Added(f) ==
  CASE f = "Bandwidth"       -> <<"iperf-1", "iperf-2">>
    [] f = "SessionAffinity" -> <<"paf-0", "paf-1">>
    [] f = "PerfTesting"     -> <<"per-1">>
    [] f = "HostNetwork"     -> <<"pod-5">>
    [] OTHER                 -> <<>>

IPerf == {"iperf-1", "iperf-2"}
Extra == {"paf-0", "paf-1", "per-1"}
Perf  == IPerf \union {"per-1"}

SuitePod == UNION {Elements(list) : list \in Clusters}
Pod == SuitePod \union IPerf \union Extra \union {"pod-5"}

ASSUME ClustersAssumption ==
  /\ \A list \in Clusters : list \in Seq(STRING) /\ ~HasDuplicates(list)
  /\ SuitePod \intersect (IPerf \union Extra) = {}

\* The services of a round of a Setup.  Those that are not for one pod, but
\* for all of them, have no pod in their name here.
Kinds(f) == IF f = "LoadBalancer" THEN <<"tcp", "udp">> ELSE <<"all">>
Service == (Pod \union {"any"}) \X {"all", "tcp", "udp"}
Single == <<"any", "all">>

Field == {"clusterIP", "toPort", "tcpIPs", "udpIPs", "serviceName", "skipProbe"}

Blank == "blank"

\* What Setup writes.
Writes(f) ==
  CASE f \in Label \union {"ClusterIP", "SessionAffinity"} -> {"clusterIP"}
    [] f \in {"NodePort", "NodePortLocal"}                 -> {"toPort"}
    [] f = "LoadBalancer"                     -> {"toPort", "tcpIPs", "udpIPs"}
    [] f = "EndlessService"                                -> {"clusterIP", "toPort"}
    [] f \in {"Hairpin", "ExternalName"}                   -> {"serviceName"}
    [] OTHER                                               -> {}

\* What the probes of a feature use of the pod they go to: the address switch
\* over the service type, and the port unless the test case has one.
Reads(f) ==
  CASE f = "Hairpin"                                     -> {"clusterIP"}
    [] f \in {"NodePort", "NodePortLocal"}               -> {"toPort", "hostIP"}
    [] f \in {"HostNetwork", "PerfTesting", "Bandwidth"} -> {"podIP"}
    [] OTHER                                             -> Writes(f)

VARIABLES
  selected,   \* the features that the flags let run
  at, pc,     \* test function and feature, and where in it
  todo,       \* what is left of the loop at pc
  cluster,    \* the pods of the cluster
  addressed,  \* the pods of the model whose pod IP and host IP are set
  field,      \* the fields of the pods
  handles,    \* the services that Teardown deletes
  live,       \* those of this feature that are in the cluster
  hollow,     \* those of them whose list of addresses begins with an empty one
  failed,     \* this feature is reported as failed
  aborted     \* history: some feature ended before its Teardown did

board == <<model, cluster, addressed, field>>
services == <<handles, live, hollow, service>>
vars == <<selected, at, pc, todo, board, services, failed, aborted>>

Now == Suite[at[1]][at[2]]
Validating == pc \in {"validate", "validateUp", "validateDown", "validateAgain"}
Over == pc \in {"over", "dead"}

TypeOK ==
  /\ selected \subseteq Feature
  /\ at \in (1..Len(Suite)) \X (1..6)
  /\ at[2] \in DOMAIN Suite[at[1]]
  /\ pc \in {"begin", "addPods", "waitPods", "pending", "serve", "assess", "validate",
             "validateUp", "setLabel", "validateDown", "removeLabel", "waitAgain",
             "validateAgain", "remove", "delete", "over", "dead"}
  /\ todo \in Seq(Pod)
  /\ cluster \subseteq Pod
  /\ addressed \subseteq Pod
  /\ field \in [Pod -> [Field -> Feature \union {Blank}]]
  /\ handles \in Seq(Service)
  /\ live \subseteq Service
  /\ hollow \subseteq Service
  /\ failed \in BOOLEAN
  /\ aborted \in BOOLEAN
  /\ ModelType(Pod)
  /\ ServiceType

\* The runs of the README and the Makefile: ./svc-test, make test, a label.
Selections == {Feature, Feature \ {"Bandwidth"}} \union {{f} : f \in Feature}

Init ==
  /\ selected \in Selections
  /\ at = <<1, 1>>
  /\ pc = "begin"
  /\ todo = <<>>
  /\ \E list \in Clusters : /\ NewModel(list)
                           /\ cluster = Elements(list)
                           /\ addressed \in SUBSET Elements(list)
  /\ field = [p \in Pod |-> [x \in Field |-> Blank]]
  /\ handles = <<>>
  /\ live = {}
  /\ hollow = {}
  /\ NoService
  /\ failed = FALSE
  /\ aborted = FALSE

-----------------------------------------------------------------------------
(***************************************************************************)
(* From one feature to the next.                                           *)
(***************************************************************************)
GoTo(place) == pc' = place /\ UNCHANGED at

\* Mutant: one feature too many.
LeaveTooFar ==
  IF at[2] <= Len(Suite[at[1]])
  THEN at' = <<at[1], at[2] + 1>> /\ pc' = "begin"
  ELSE GoTo("over")

\* The end of the test function.
NextFunction ==
  IF at[1] < Len(Suite)
  THEN at' = <<at[1] + 1, 1>> /\ pc' = "begin"
  ELSE GoTo("over")

\* The next feature of this test function, or of the next one.
Leave ==
  IF at[2] < Len(Suite[at[1]])
  THEN at' = <<at[1], at[2] + 1>> /\ pc' = "begin"
  ELSE NextFunction

\* t.Fatal on the t of the feature.
FatalHere == failed' = TRUE /\ aborted' = TRUE /\ Leave

\* t.Fatal on the t of the test function: its other features do not run.
Fatal == failed' = TRUE /\ aborted' = TRUE /\ NextFunction

\* Mutant of NoFirst: pods[0] is not read.
FirstIsNotRead == FALSE

\* pods[0] panics.
NoFirst == Pods = <<>>
FirstPod == IF Pods = <<>> THEN {} ELSE {Pods[1]}

\* The body of the test function, before its first feature.
Enter ==
  IF at[1] \in TakesPods THEN TakeAllPods
  ELSE slice' = Detached(<<>>) /\ UNCHANGED <<namespace, array, size>>

Begin ==
  /\ pc = "begin"
  /\ IF at[2] = 1 THEN Enter ELSE UNCHANGED model
  /\ handles' = <<>>
  /\ live' = {}
  /\ hollow' = {}
  /\ failed' = FALSE
  /\ IF at[2] = 1 /\ at[1] \in TakesFirst /\ NoFirst'
     THEN GoTo("dead") /\ todo' = <<>>
     ELSE IF Now \in selected
          THEN GoTo("addPods") /\ todo' = Added(Now)
          ELSE Leave /\ todo' = <<>>
  /\ UNCHANGED <<selected, cluster, addressed, field, service, aborted>>

(***************************************************************************)
(* Setup: the pods.                                                        *)
(***************************************************************************)
\* InitializePod, which leaves a pod that was pending for long without its IPs,
\* and then AddPod.  A pod of that name may exist: pod-5 does in a cluster of
\* five nodes.
AddNewPod ==
  /\ pc = "addPods"
  /\ Now # "Bandwidth"
  /\ todo # <<>>
  /\ LET p == Head(todo) IN
     \/ /\ p \notin cluster
        /\ AddPod(p)
        /\ cluster' = cluster \union {p}
        /\ addressed' \in {addressed, addressed \union {p}}
        /\ todo' = Tail(todo)
        /\ UNCHANGED <<at, pc, failed, aborted>>
     \/ /\ cluster' \in {cluster, cluster \union {p}}
        /\ Fatal
        /\ UNCHANGED <<todo, model, addressed>>
  /\ UNCHANGED <<selected, field, services>>

\* AddIPerfNamespace, then StartPodsInNamespace; here and in the next two
\* steps an error is log.Fatal.
StartIPerf ==
  /\ pc = "addPods"
  /\ Now = "Bandwidth"
  /\ AddIPerfNamespace(todo)
  /\ todo' = <<>>
  /\ \/ cluster' = cluster \union Elements(todo) /\ GoTo("waitPods")
     \/ \E some \in SUBSET Elements(todo) :
          cluster' = cluster \union some /\ GoTo("dead")
  /\ UNCHANGED <<selected, addressed, field, services, failed, aborted>>

\* WaitAndSetIPs of all pods (module PodStartup).  What kept a pod of the suite
\* from its IPs is its count in PendingPods, which is still there.
WaitForIPerf ==
  /\ pc = "waitPods"
  /\ AllPods
  /\ \E some \in SUBSET Elements(namespace.iperf) : addressed' = addressed \union some
  /\ GoTo("pending") \/ GoTo("dead")
  /\ UNCHANGED <<selected, todo, cluster, field, services, failed, aborted>>

\* RemovePendingPodsInNamespace: any of the new pods may have been pending for
\* too long; those of the suite are running or were removed at the start.
DropPending ==
  /\ pc = "pending"
  /\ \E p \in Elements(namespace.iperf) \ addressed :
       /\ RemovePod(p, "iperf")
       /\ \/ cluster' = cluster \ {p} /\ UNCHANGED <<at, pc>>
          \/ cluster' \in {cluster, cluster \ {p}} /\ GoTo("dead")
  /\ UNCHANGED <<selected, todo, addressed, field, services, failed, aborted>>

\* The rounds of the loop that makes the services.
PodsAdded ==
  /\ \/ pc = "pending"
     \/ pc = "addPods" /\ Now # "Bandwidth" /\ todo = <<>>
  /\ todo' = IF Now \in PerPod THEN Pods ELSE <<>>
  /\ GoTo(IF Now \in {"Bandwidth", "PerfTesting", "HostNetwork"} THEN "assess" ELSE "serve")
  /\ UNCHANGED <<selected, board, services, failed, aborted>>

-----------------------------------------------------------------------------
(***************************************************************************)
(* Setup: the services.                                                    *)
(***************************************************************************)
\* The fields fs of the pods ps, written with value.
Written(ps, fs, value) ==
  [p \in Pod |-> [x \in Field |-> IF p \in ps /\ x \in fs THEN value ELSE field[p][x]]]

\* The kind of service that a field gets its value from.
Source(x) == CASE x = "tcpIPs" -> "tcp" [] x = "udpIPs" -> "udp" [] OTHER -> "all"

\* The kinds of service that an address was answered for, or an empty entry, and
\* what is written of these answers; the port of a load balancer is fixed.
Answered(o) == {k \in DOMAIN o : o[k].address # "none"}
HasValue(x, kinds) == Source(x) \in kinds \/ (Now = "LoadBalancer" /\ x = "toPort")

\* ExternalName waits for nothing: it reads the name of what Create returned,
\* of nil if there was an error.
Unwaited ==
  {o \in Outcome :
     \/ o.end = "end" /\ o.there /\ o.address = "given" /\ ~o.reported
     \/ o.end = "panicked" /\ o.address = "none" /\ o.reported}

\* Mutant: no look at the addresses of a load balancer.
NobodyLooks(twinAddress) == "twinBalancer"

\* The addresses of both services of a pod are looked at as one list, and only
\* whether it is empty.
Balancer(twinAddress) ==
  IF twinAddress # "none" THEN "twinBalancer" ELSE "loadBalancer"

\* What the services of one pod may come to.
Outcomes ==
  {o \in [Elements(Kinds(Now)) -> Outcome] :
     CASE Now = "ClusterIP"    -> o["all"] \in Promised("clusterIP")
       [] Now = "NodePort"     -> o["all"] \in Promised("nodePort")
       [] Now = "ExternalName" -> o["all"] \in Unwaited
       [] Now = "LoadBalancer" -> /\ o["tcp"] \in Promised(Balancer(o["udp"].address))
                                  /\ o["udp"] \in Promised(Balancer(o["tcp"].address))}

\* The handle is kept even of a service that was not created; an address that
\* was waited for in vain is written as it is.
ServePod ==
  /\ pc = "serve"
  /\ Now \in PerPod
  /\ todo # <<>>
  /\ todo' = Tail(todo)
  /\ \E o \in Outcomes :
       LET p == Head(todo) IN
       /\ live' = live \union {<<p, k>> : k \in {j \in DOMAIN o : o[j].there}}
       /\ hollow' = hollow \union {<<p, k>> : k \in {j \in DOMAIN o : o[j].address = "empty"}}
       /\ handles' = handles \o [i \in DOMAIN Kinds(Now) |-> <<p, Kinds(Now)[i]>>]
       /\ failed' = (failed \/ \E k \in DOMAIN o : o[k].reported)
       /\ field' = [q \in Pod |-> [x \in Field |->
                      IF q # p \/ x \notin Writes(Now) THEN field[q][x]
                      ELSE IF HasValue(x, Answered(o)) THEN Now ELSE Blank]]
       /\ IF \A k \in DOMAIN o : o[k].end = "end" THEN UNCHANGED <<at, pc>> ELSE GoTo("dead")
  /\ UNCHANGED <<selected, model, cluster, addressed, service, aborted>>

Served ==
  /\ pc = "serve"
  /\ Now \in PerPod
  /\ todo = <<>>
  /\ GoTo("assess")
  /\ UNCHANGED <<selected, todo, board, services, failed, aborted>>

\* Mutant: the slice taken before the pods with affinity were added.
KeepSlice == UNCHANGED model

\* After Setup: SessionAffinity takes the slice anew.
TakeSlice == IF Now = "SessionAffinity" THEN TakeAllPods ELSE UNCHANGED model

\* CreateServiceFromTemplate, after which the type of the service is asserted.
\* Hairpin reads pods[0] before.
ServeTemplate ==
  /\ pc = "serve"
  /\ Now \in Template
  /\ \E o \in Promised("template") :
       /\ Now = "Hairpin" /\ NoFirst => o.end = "panicked" /\ ~o.there /\ ~o.reported
       /\ live' = IF o.there THEN {Single} ELSE {}
       /\ failed' = (failed \/ o.reported)
       /\ \/ /\ o.end = "end"
             /\ handles' = <<Single>>
             /\ TakeSlice
             /\ field' = Written(IF Now = "Hairpin" THEN FirstPod ELSE Elements(Pods'),
                                 Writes(Now), Now)
             /\ GoTo("assess")
          \/ /\ o.end # "end"
             /\ GoTo("dead")
             /\ UNCHANGED <<handles, model, field>>
  /\ UNCHANGED <<selected, todo, cluster, addressed, hollow, service, aborted>>

\* One service whose node port all pods get.
ServeLocal ==
  /\ pc = "serve"
  /\ Now = "NodePortLocal"
  /\ \E o \in Promised("local") :
       /\ live' = IF o.there THEN {Single} ELSE {}
       /\ handles' = <<Single>>
       /\ failed' = (failed \/ o.reported)
       /\ field' = Written(Elements(Pods), Writes(Now),
                           IF o.address = "none" THEN Blank ELSE Now)
       /\ GoTo(IF o.end = "end" THEN "assess" ELSE "dead")
  /\ UNCHANGED <<selected, todo, model, cluster, addressed, hollow, service, aborted>>

\* One service; any failure is t.Fatal on the feature's t.  The handle keeps
\* the object as it was sent, without the address that was waited for.
ServeToggled ==
  /\ pc = "serve"
  /\ Now \in Label
  /\ Create
  /\ \E o \in Promised("labels") :
       /\ o.there <=> stored' # Gone
       /\ err' = "error" => o.end = "fatal"
       /\ \/ o.end = "end" /\ GoTo("assess") /\ UNCHANGED <<failed, aborted>>
          \/ o.end = "fatal" /\ FatalHere
          \/ o.end = "panicked" /\ GoTo("dead") /\ UNCHANGED <<failed, aborted>>
  /\ UNCHANGED <<selected, todo, board, handles, live, hollow>>

-----------------------------------------------------------------------------
(***************************************************************************)
(* Assess.                                                                 *)
(***************************************************************************)
\* The pods of the table that a feature compares with.
Rows ==
  IF Now \in {"EndlessService", "Hairpin", "ExternalName", "PerfTesting",
              "HostNetwork", "Bandwidth"}
  THEN Modelled ELSE Elements(Pods)

\* What toggledService.GetClusterIP returns.
HandleAddress == IF handle.status = "stored" THEN Now ELSE Blank

Assess ==
  /\ pc = "assess"
  /\ field' = CASE Now \in {"PerfTesting", "Bandwidth"} ->
                     Written(Modelled \ Perf, {"skipProbe"}, Now)
                [] Now \in Label -> Written(FirstPod, {"clusterIP"}, HandleAddress)
                [] OTHER -> field
  /\ GoTo(IF Now \in Label THEN "validateUp" ELSE "validate")
  /\ UNCHANGED <<selected, todo, model, cluster, addressed, services, failed, aborted>>

\* MustNoWrong.
Validate ==
  /\ pc = "validate"
  /\ failed' \in {failed, TRUE}
  /\ GoTo("remove")
  /\ todo' = IF Now \in {"SessionAffinity", "HostNetwork"} THEN Added(Now) ELSE <<>>
  /\ UNCHANGED <<selected, board, services, aborted>>

\* Mutant of MustOrFatal: t.Error.
MustOrError(place) == failed' = (failed \/ err' = "error") /\ GoTo(place)

\* t.Fatal ends the assessment, not the feature.
MustOrFatal(place) ==
  IF err' = "error" THEN failed' = TRUE /\ GoTo("remove")
  ELSE GoTo(place) /\ UNCHANGED failed

\* MustNoWrong, then SetLabel or RemoveLabel up to its Get.
AskForLabel ==
  /\ pc = "validateUp"
  /\ BeginSet
  /\ \/ call' # "idle" /\ failed' \in {failed, TRUE} /\ GoTo("setLabel")
     \/ call' = "idle" /\ MustOrFatal("validateDown")
  /\ UNCHANGED <<selected, todo, board, handles, live, hollow, aborted>>

SetLabel ==
  /\ pc = "setLabel"
  /\ Update
  /\ MustOrFatal("validateDown")
  /\ field' = IF pc' = "validateDown"
              THEN Written(FirstPod, {"clusterIP"}, HandleAddress) ELSE field
  /\ UNCHANGED <<selected, todo, model, cluster, addressed, handles, live, hollow, aborted>>

AskForRemoval ==
  /\ pc = "validateDown"
  /\ BeginRemove
  /\ \/ call' # "idle" /\ failed' \in {failed, TRUE} /\ GoTo("removeLabel")
     \/ call' = "idle" /\ MustOrFatal("waitAgain")
  /\ UNCHANGED <<selected, todo, board, handles, live, hollow, aborted>>

RemoveLabel ==
  /\ pc = "removeLabel"
  /\ Update
  /\ MustOrFatal("waitAgain")
  /\ UNCHANGED <<selected, todo, board, handles, live, hollow, aborted>>

\* The address is waited for again, and written even if there is none.
WaitAgain ==
  /\ pc = "waitAgain"
  /\ \/ /\ field' \in {Written(FirstPod, {"clusterIP"}, v) : v \in {Now, Blank}}
        /\ GoTo("validateAgain")
     \/ GoTo("dead") /\ UNCHANGED field
  /\ UNCHANGED <<selected, todo, model, cluster, addressed, services, failed, aborted>>

ValidateAgain ==
  /\ pc = "validateAgain"
  /\ failed' \in {failed, TRUE}
  /\ GoTo("remove")
  /\ UNCHANGED <<selected, todo, board, services, aborted>>

\* Another writer of the service whose label is changed.
OthersWrite ==
  /\ ~Over
  /\ Write
  /\ UNCHANGED <<selected, at, pc, todo, board, handles, live, hollow, failed, aborted>>

-----------------------------------------------------------------------------
(***************************************************************************)
(* Teardown.                                                               *)
(***************************************************************************)
\* RemovePod, then DeletePod.
RemoveAddedPod ==
  /\ pc = "remove"
  /\ todo # <<>>
  /\ RemovePod(Head(todo), "suite")
  /\ addressed' = addressed \ {Head(todo)}
  /\ \/ /\ cluster' = cluster \ {Head(todo)}
        /\ todo' = Tail(todo)
        /\ UNCHANGED <<at, pc, failed, aborted>>
     \/ /\ cluster' \in {cluster, cluster \ {Head(todo)}}
        /\ Fatal
        /\ UNCHANGED todo
  /\ UNCHANGED <<selected, field, services>>

\* The namespace goes, the model keeps its pods, and nothing is reset.
RemoveIPerf ==
  /\ pc = "remove"
  /\ Now = "Bandwidth"
  /\ \/ cluster' = cluster \ IPerf /\ Leave
     \/ cluster' \in {cluster, cluster \ IPerf} /\ GoTo("dead")
  /\ UNCHANGED <<selected, todo, model, addressed, field, services, failed, aborted>>

PodsRemoved ==
  /\ pc = "remove"
  /\ Now # "Bandwidth"
  /\ todo = <<>>
  /\ GoTo("delete")
  /\ UNCHANGED <<selected, todo, board, services, failed, aborted>>

\* Mutant: Services.Delete logs an error and goes on.
GoOn == UNCHANGED <<at, pc, failed, aborted>>

\* Service.Delete fails: Services.Delete stops there, ResetTestBoard is fatal.
StopDeleting == Fatal

\* Services.Delete.  The API may refuse; a service that is not there it must.
DeleteService ==
  /\ pc = "delete"
  /\ handles # <<>>
  /\ handles' = Tail(handles)
  /\ \/ /\ Head(handles) \in live
        /\ live' = live \ {Head(handles)}
        /\ UNCHANGED <<at, pc, failed, aborted>>
     \/ /\ live' \in {live, live \ {Head(handles)}}
        /\ StopDeleting
  /\ UNCHANGED <<selected, todo, board, hollow, service>>

\* Mutant: Reset leaves the cluster IP.
ResetSome == Written(Modelled, Field \ {"clusterIP"}, Blank)

\* ResetAllPods.
ResetAllPods == Written(Modelled, Field, Blank)

\* The end of ResetTestBoard, or of a Teardown that does not call it.
EndFeature ==
  /\ pc = "delete"
  /\ Now \notin Label
  /\ handles = <<>>
  /\ field' = IF Now \in Resetting THEN ResetAllPods ELSE field
  /\ Leave
  /\ UNCHANGED <<selected, todo, model, cluster, addressed, services, failed, aborted>>

\* The Teardown of the label features.
DeleteToggled ==
  /\ pc = "delete"
  /\ Now \in Label
  /\ Delete
  /\ IF err' = "nil" THEN Leave /\ UNCHANGED <<failed, aborted>> ELSE StopDeleting
  /\ UNCHANGED <<selected, todo, board, handles, live, hollow>>

Terminated == Over /\ UNCHANGED vars

Next ==
  \/ Begin \/ AddNewPod \/ StartIPerf \/ WaitForIPerf \/ DropPending \/ PodsAdded
  \/ ServePod \/ Served \/ ServeTemplate \/ ServeLocal \/ ServeToggled
  \/ Assess \/ Validate
  \/ AskForLabel \/ SetLabel \/ AskForRemoval \/ RemoveLabel \/ WaitAgain
  \/ ValidateAgain \/ OthersWrite
  \/ RemoveAddedPod \/ RemoveIPerf \/ PodsRemoved
  \/ DeleteService \/ DeleteToggled \/ EndFeature
  \/ Terminated

Spec == Init /\ [][Next]_vars

-----------------------------------------------------------------------------
(***************************************************************************)
(* Properties.                                                             *)
(***************************************************************************)
\* Every pod that is probed has a row in the table: a write into the row of
\* another would be a write into a nil map (truthtable.go:102).  The tables
\* are made from slices that were taken before other features added pods.
EveryProbeHasARow == Validating => Modelled \subseteq Rows

\* The slice that a test function holds while it serves and validates shows
\* pods of the model, each once, although RemovePod shifts the array under it
\* (model.go:154): what a function took is stale only when nobody reads it.
HeldSliceIsCurrent ==
  pc \in {"serve", "assess"} \/ Validating =>
    Elements(Pods) \subseteq Modelled /\ ~HasDuplicates(Pods)

\* A pod that is probed is in the cluster, or a probe would blame the network
\* for it; the pods of the bandwidth test are the exception, once its namespace
\* is gone (bandwidth_test.go:58).
ModelledPodsExist ==
  Validating =>
    Modelled \subseteq cluster \union (IF Now = "Bandwidth" THEN {} ELSE Elements(namespace.iperf))

\* What p holds in x was written by another feature than the one that runs.
Stale(p, x) == field[p][x] \notin {Blank, Now}

ReadFields == (Reads(Now) \intersect Field) \union {"skipProbe"}

StaleReads == {read \in Modelled \X ReadFields : Stale(read[1], read[2])}

\* Unless a feature was aborted, a validation reads no field that another one
\* left behind; but for ClusterIP, when the bandwidth test before it has marked
\* the pods to be skipped and nothing was reset in between.
NoStaleReads ==
  Validating /\ ~aborted =>
    \A read \in StaleReads : /\ Now = "ClusterIP" /\ "Bandwidth" \in selected
                             /\ read[2] = "skipProbe"

\* The pods that are not skipped, and what a probe to p would use and is blank.
Probed == {p \in Modelled : field[p].skipProbe = Blank}

Lacks(p, x) ==
  \/ x \in {"podIP", "hostIP"} /\ p \notin addressed
  \/ x \in Field /\ field[p][x] = Blank
  \/ x \in {"tcpIPs", "udpIPs"} /\ <<p, Source(x)>> \in hollow

BlankReads == {read \in Probed \X Reads(Now) : Lacks(read[1], read[2])}

\* Who never says so: the start-up, which leaves a pod without its own IPs and
\* in the model; the node port that was not waited for long enough; hairpin,
\* which sets the name and probes the cluster IP; the label features, which give
\* an address to one pod.
SaysNothing(x) ==
  \/ x \in {"podIP", "hostIP"}
  \/ x = "toPort" /\ Now \in {"NodePort", "NodePortLocal"}
  \/ x = "clusterIP" /\ Now \in Label \union {"Hairpin"}

\* A load balancer test looks at one list for both protocols, and at its length:
\* an entry for the other protocol, or one without an IP, keeps it silent.
IsCovered(p, x) ==
  /\ Now = "LoadBalancer"
  /\ x \in {"tcpIPs", "udpIPs"}
  /\ field[p].tcpIPs # Blank \/ field[p].udpIPs # Blank

\* A probe of nothing is answered by the pod that probes, so a feature that goes
\* on to one and was not reported as failed passes without a connection.  The
\* features that look at what a wait answered never do: the cluster IP and the
\* port of ClusterIP, of SessionAffinity and of EndlessService and the name of
\* ExternalName are there, and a load balancer probes nothing only in a list
\* that has an entry (probe.go:50-75, basic_service_test.go:352).
BlankReadsAreReported ==
  Validating /\ ~failed =>
    \A read \in BlankReads : SaysNothing(read[2]) \/ IsCovered(read[1], read[2])

\* A validation of a label feature runs while the label is as the test says:
\* absent, present, absent again (label_test.go:72-101), whatever calls failed
\* and whoever else wrote to the service.
LabelFollowsTheTest ==
  /\ pc \in {"validateUp", "validateAgain"} => stored # Gone /\ ~stored.label
  /\ pc = "validateDown" => stored # Gone /\ stored.label

\* A feature that leaves a service in the cluster is reported as failed, or
\* the next one is blamed for what kube-proxy still has to serve.
LeavesService == live' # {} \/ (Now \in Label /\ stored'.status = "stored")

LeftoversAreReported ==
  [][ pc # "begin" /\ pc' \in {"begin", "over"} /\ LeavesService => failed' ]_vars

\* A run that got to its end without a pod of its own to probe would have
\* passed every comparison (probe.go:118); it ends in a panic instead, at
\* pods[0].  The bandwidth test, whose pods stay, hides that.
EmptyModelIsNoticed ==
  pc = "over" /\ ~aborted /\ "Bandwidth" \notin selected =>
    Elements(namespace.suite) \intersect SuitePod # {}

\* "ResetService erases service related fields on pod, to clear taint from
\* previous test for starting new journey" (pod.go:248)
NoTaint == Validating /\ ~aborted => StaleReads = {}

\* "verify the toggledService is up without" the label (label_test.go:72)
ToggledServiceIsProbed ==
  pc = "validateUp" => \A p \in FirstPod : field[p].clusterIP = Now

\* "invalid external UDP IPs setup" (basic_service_test.go:353) is reported
\* when a load balancer got no external address for UDP.
UDPAddressesAreChecked ==
  Validating /\ Now = "LoadBalancer" /\ ~failed =>
    \A p \in Elements(Pods) : field[p].udpIPs # Blank
=============================================================================
