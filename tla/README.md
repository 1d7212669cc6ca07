# Verification of k8s-service-validator

`k8s-service-validator` checks the services of a Kubernetes cluster: it starts a
pod on every node, creates services over the pods, probes every ordered pair of
pods through the service, and compares the observed *reachability matrix* with
the expected one. It ships as Go tests (`src/tests`) over a small library
(`src/pkg`).

This directory holds TLA+ models of that library and of the life cycle of the
suite, configurations that model-check them with TLC, and theorems that TLAPS
proves for every value of the constants. Paths below are relative to `src/`.

## 1. Inventory

| Component | State it keeps | Operations | Correct when |
|---|---|---|---|
| **Reachability matrix** `pkg/matrix/{truthtable,reachability,result}.go` | expected and observed truth table, measured bandwidths | `NewReachability`, `ExpectPeer`, `Set`, `Get`, `Compare`, `Summary`, `PrintSummary` | a pair counts as wrong exactly when the last observation differs from the expectation (or is too slow), and the log says what the verdict says |
| **Probe worker pool** `pkg/matrix/probe.go` | two buffered channels, goroutines | `ProbePodToPodConnectivity`, `probeWorker` | every pair is probed once per attempt, nobody blocks, every goroutine returns |
| **Validation verdict** `pkg/matrix/helper.go` | the attempt, the observed table, the number of wrong pairs | `ValidateOrFail`, `ValidateAndMeasureBandwidthOrFail` | the verdict is about the last attempt, complete, and unaffected by stragglers of the first |
| **Probe commands** `pkg/commands`, `manager.go:224-276` | retry counter of `nc` | `ProbeConnectivity`, `...WithNc`, `...IPerf` | an outcome is reported, whatever the command does |
| **Pod start-up** `manager.go:34-174`, `entities/kubernetes/exec.go` | `PendingPods`, pod addresses, the pods of the model | `StartPods`, `WaitAndSetIPs`, `podRunning`, `RemovePendingPodsInNamespace` | model and cluster agree, a pod is dropped only if it is stale, a pod in the model has its addresses |
| **Suite life cycle** `tests/main_test.go` | the namespace | `Setup`, `Finish` of `TestMain` | ends, no call repeated for good, and fails if it leaves a namespace behind |
| **UDP stale endpoint test** `tests/conntrack_test.go` | a namespace and two pods of its own | `TestUDPInitContainer` | does not depend on what the suite left in `PendingPods` |
| **Cluster model** `pkg/matrix/model.go`, `entities/namespace.go` | the namespaces, a cache of all pods, and the array it shares with its readers | `AddPod`, `RemovePod`, `AllPods`, `ResetAllPods` | cache and namespaces agree; slices handed out stay valid |
| **HTTP readiness** `manager.go:293-336` | cases that are not ready | `WaitForHTTPServers` | every server of a case was up in its last attempt; an error means that some case was tried in every round |
| **Service watchers** `entities/kubernetes/service.go:139-233` | a watch and a timer | `WaitForEndpoint`, `...ClusterIP`, `...NodePort`, `...ExternalIP` | end; report an address of this service |
| **Service handle** `service.go:34-137` | the API object last read | `Create`, `Delete`, `SetLabel`, `RemoveLabel` | a change of the label is one change, no update of others is lost, everything created gets deleted |
| **Feature tests** `tests/*_test.go`, `pkg/tools/helpers.go` | service addresses stored in the shared pods | `Setup`, `Assess`, `Teardown`, `ResetTestBoard` | a feature never sees the fields of another |
| **Entities, templates** `entities/*.go`, `manager.go:339-376` | fields | getters, setters, API objects | conversions, no control |
| **CI report** `cmd/report` and **deployment files** | none | HTTP, formatting, configuration | - |

How they interact. `TestMain` creates the model and the manager, lets the
manager start and await the pods (`PendingPods` is shared by every such wait of
the process), removes the pending ones from model and cluster and waits for
HTTP. A feature creates services, writes the addresses it waited for into the
*shared* pods, and calls the validation with a test case; the validation starts
the pool, whose goroutines read those pods and execute commands in the cluster;
the caller alone writes the observed table. The list of pods that a feature reads
is a slice of the model's own cache, so that adding and removing pods for one
feature writes under the eyes of another.

What is hard about it: goroutines and channels whose sizes and closing order
decide whether the call ends; a retry that reuses the table of the attempt
before; a cluster that changes under the probes; a fault of the tool that looks
like a blocked path; polls, thresholds and time-outs over a counter shared
between namespaces; errors in the middle of a sequence of API calls. The list
with lines is `hazards` in `PROJECT.json`.

## 2. Modules

| Module | What it models |
|---|---|
| `Reachability` | the tables and their comparison, as pure operators |
| `TwoTryValidation` | what a caller of the validation may rely on, without channels or goroutines |
| `Validation` | the pool, the two attempts and the verdict, step by step |
| `MCValidation` | instances of `Validation` for TLC |
| `ValidationProofs` | theorems about the pool, the attempts and the refinement |
| `VerdictProofs` | theorems about what a verdict, and the printed summary, rest on |
| `PodStartup` | Setup, the UDP test's pods, and Finish, over a cluster that moves |
| `PodStartupProofs` | theorems about `PodStartup` |
| `Readiness` | `WaitForHTTPServers`, round by round, over servers that start and stop |
| `ReadinessProofs` | theorems about `Readiness` |
| `SetupPromise` | what a feature may rely on when it sets up a service: the outcomes for each caller |
| `OneSetup` | the life of a setup as the promise has it, one step and final |
| `ServiceWatch` | one service, its waits, and the seven ways the tests use them |
| `ServiceWatchProofs` | theorems about `ServiceWatch` |
| `ClusterModel` | the lists of pods, the cache of `AllPods`, and slices of it |
| `ClusterModelProofs` | lemmas about what its operations do to the lists |
| `AtomicService` | what a user of a service handle may rely on when it changes a label |
| `ServiceHandle` | the handle of one service, its label changed in two calls of the API among other writers |
| `ServiceHandleProofs` | lemmas about every use of a handle, and its refinement of `AtomicService` |
| `TestBoard` | all features, in the order they run, over the pods they share |
| `MCTestBoard` | instances of `TestBoard` for TLC |
| `TestBoardProofs` | theorems about `TestBoard`, with `ClusterModel` and `ServiceHandle` in it |

How they compose. `Validation` and `Readiness` are built from the operators of
`Reachability`; `Validation` instantiates `TwoTryValidation`, `ServiceHandle`
`AtomicService` and `ServiceWatch` `OneSetup`, each under a refinement mapping.
`TestBoard` extends `ClusterModel` and `ServiceHandle`: its actions conjoin their
operations with the control of the tests, so the slices and the label are checked
in the order in which the features really use them. It also extends
`SetupPromise`: its `Serve...` actions take, for each service, any outcome that
is promised to that caller, and `ServiceWatch` implements the promise
(`SetupSpec`), so what is proved of the board rests on the waits as the code has
them and not on a second reading of them. The same holds of the pool and the wait
for the HTTP servers: an attempt of `Readiness` ends with one of the
`Observations` of what was up and down during it, and that an attempt of
`Validation` does is `TableIsOfTheAttempt`. The other modules are joined by
abstraction: what `PodStartup` leaves (a pod in the model, perhaps without an
address) is an input of `Validation` (`tc.unaddressed`), of `Readiness`
(`addressed`) and of `TestBoard` (`Clusters`); and an `Assess` of `TestBoard` is
a `Validation` of which only "reported or not" is kept.

### Reachability

A table is a function from pairs of pods to BOOLEAN. The expected one is total;
the observed one starts empty and grows, so a pair that is missing reads as
`FALSE`, as a Go map does (`Get`). `Summary(ignoreLoopback, measure)` is the
function of `reachability.go:75-104` as three sets of pairs. A measured
bandwidth is `"nil"` (not measured), `"low"` (below the benchmark) or `"high"`.

### Validation

| Variable | In the code |
|---|---|
| `jobs`, `closed`, `results` | the two channels of the running attempt |
| `worker[w]` | where goroutine `w` is in the loop of `probeWorker`: at the receive, in a probe, holding a result to send, returned |
| `lingering` | goroutines of the first attempt that have not returned when the second starts |
| `pc`, `round`, `cursor`, `collected` | the caller: in the sending loops, in the collecting loop or done; the attempt; its loop variables |
| `observed`, `bandwidth` | `testCase.Reachability.Observed` and the bandwidths |
| `wrong`, `report` | the value returned, and what `PrintSummary` printed |
| `tc` | the test case: expected table, flags, and what a worker reads of a target pod (`SkipProbe`, no known address) |
| `net`, `upsets`, `seen` | environment and history: paths that are up now; which were up, down, or failed though up, during this attempt |

Caller: `Enqueue` (the nested loops), `CloseJobs`, `Collect`, `Retry`, `Finish`.
Goroutine: `Receive`, `Exit`, `Skip` (`SkipProbe`), `Connect` / `Netcat` /
`Iperf` (one execution of the command), `ShortOutput` (the index expression of
`result.go:18` panics), `Send`. `ExitLate` is a goroutine of the first attempt
that returns during the second. `Flip` is the network. A panic in a goroutine
ends the process, so every action but `Terminating` stops at
`pc = "panicked"`.

An empty address is what a load balancer without an address yet leaves
(`probe.go:67-71`); agnhost then dials the probing pod itself, which listens, so
the pair answers whatever the network does. Such pairs are in the model and
outside of what a passing verdict vouches for (`Probed`).

### PodStartup

One caller, no concurrency of its own, over a cluster whose pods get scheduled
(`Schedule`), fail, get lost and come back (`Upset`). Every call of the API may
return an error (`ApiError`, and the failing branches of `RemovePod`,
`SuiteReady`, `Teardown` and `Finish`); in Setup and Finish that is `log.Fatal`,
in the test it is `t.Fatal` of the test that encloses the feature, which skips
the `Teardown` as well. `exited` is the exit code 0, `fatal` every other.
`PollRunning`, `PollCompleted`, `PollPending`, `PollUnknown` are the branches of
`podRunning`; `Timeout` is the end of `PollImmediate`. `pending` is
`PendingPods`, keyed by name alone as in the code; `own` is a history variable
keyed by the pod, and the difference of the two is the finding below. The second
namespace belongs to `TestUDPInitContainer`, which takes the names of the first
two pods of the model, validates (a verdict of either kind) and deletes its
namespace.

### ServiceWatch

| Variable | In the code |
|---|---|
| `caller`, `step` | which Setup of `tests/`, and at which of its waits (`Program`) |
| `pc` | before `Create`, before the watch call, in the `for`/`select`, over |
| `answer`, `reported` | what the waits returned; whether `t.Error` or `t.Fatal` was called |
| `created`, `granted`, `subsets` | the services of the namespace, their addresses, their Endpoints |
| `watch`, `events` | the channel that is being read, and what is on its way |
| `had` | history: who ever had what a wait waits for |

An address is named by the service it belongs to: the question about a value is
whose it is. One thing more is told apart, because the code does not look at it: a
load balancer may be given an ingress entry with a name and no IP (`hostname`), which
`WaitForExternalIP` appends to its list as an empty string (`Collected`,
`service.go:224-227`); the first entry of the list is the one a probe uses. Of the
subsets of an Endpoints object only those that are wholly ready are in the model
(`Subset`): a wait passes over all others. `Satisfied` has the conditions of the four loops, `Disappoints` the
checks of the callers, and `Return` what a caller does with an answer, the nil
error that `CreateServiceFromTemplate` wraps included (`manager.go:373`). A watch
starts with the objects that exist (`InitialEvents`), in any order. The
namespace (`Environment`) makes, changes and deletes services, also those of
other tests. `Break` is a watch that the API server closes or ends with a Status
object: the receive then yields an event without an object and the type
assertion panics.

A load balancer test makes two services for a pod, by turns, and looks at the
addresses of both as one list: what it does about an empty answer depends on the
other service. `loadBalancer` is a setup whose other has none, `twinBalancer` one
whose other has some; what happens to the other service is the environment's.

One thing is assumed about the watch: an event that is on its way arrives within
`waitTime`, so `Timeout` needs an empty queue. A wait that gave up on an event
that was merely late would be right to.

### Readiness

The caller of `WaitForHTTPServers`: `StartAttempt` picks one of the cases that a
round has not reached (the range over a Go map has any order), `EndAttempt` takes
one of the tables that the attempt can end with (`Observable`, the `Observations`
of the servers) and drops the case
from `notReady` when `Summary` counts no wrong pair, `EndRound` starts the next
round over what is left, or returns. `Flip` starts and stops servers at any time,
also within an attempt. `seen`, `last` and `tried` are history.

### ClusterModel

Slices are modelled as Go has them. `array` is the array behind the cache as far
as it was ever written, `size` the length of the cache (`Nil` when there is
none), and a slice that a test function holds either shares that array
(`SliceOf`) or has one of its own (`Detached`). `AddPod` appends: over what a
removal left behind if the array is long enough, into a new array or, when Go
allocated more than it needed, in place (both, as a choice) if it is not.
`RemovePod` shifts the shared array, and a slice held by a test changes with it
(`Shifted`). `AddIPerfNamespace` drops the cache, `FillCache` fills it anew.

### ServiceHandle

`stored` is the object in the cluster and `handle` the one that `s.service` holds:
as it was sent, as it was last read, or the empty object of a `Get` that failed,
which the code assigns before it looks at the error. `SetLabel` and `RemoveLabel`
are `BeginSet` / `BeginRemove` (up to and with `Get`) and `Update`, and `Write`
is any other writer in between; the API server refuses an update of an old
version. An error may come before or after the effect of a call.

### TestBoard

`Suite` lists the test functions in the order `go test` runs them, with their
features. A field of a pod is modelled by the feature that wrote it, so that a
left-over can be told from a fresh value. Beside the fields of a feature there are
the two addresses of the pod itself, which only the start-up writes: `addressed`
are the pods that have them. `PodStartup` shows that any pod of the suite may lack
them (finding 1), so `Init` leaves them open, and so does `AddNewPod`, whose
`InitializePod` goes through the same thresholds. `hollow` are the load balancers
whose list of addresses begins with an empty one. `Reads` is the address switch of
`probe.go:50-75`, by feature: the pod IP (HostNetwork and the perf features), the
host IP and port of a node port, the cluster IP, the name, or the list of the
protocol that is probed. Actions follow the framework's order
of a feature: `Begin`, `AddNewPod` or the steps of the bandwidth test's namespace
(`StartIPerf`, `WaitForIPerf`, `DropPending`), one of the `Serve...` actions
(Setup), `Assess` and the validations with the label's operations between them
(Assess), `RemoveAddedPod`, `DeleteService`, `DeleteToggled`, `EndFeature`
(Teardown). Loops over pods and services are one step per round. `OthersWrite`
is another writer of the labelled service, at any moment. Every API call may
fail. Which `t` is fatal matters and is kept: most closures call `t.Fatal` of the
*outer* `t`, which skips the other features of the test function (`Fatal`),
others call it on the feature's own (`FatalHere`). A panic and a `log.Fatal` end
the process (`dead`). The selections are those the README and the Makefile name:
everything, all but the bandwidth test, one label. `TestUDPInitContainer` does
not touch the shared board and is left to `PodStartup`.

## 3. Runs

| Run | Question | Result |
|---|---|---|
| `verdict` | Can any interleaving lose, duplicate or strand a job, block a sender, or let a probe outlive its attempt? Does a passing verdict rest on the last attempt, does a failing one overstate, does the log agree with it, does the pool implement `TwoTryValidation`? | no; yes |
| `ends` | Whom does the caller wait for, what does a step use up? Does a validation return, and do all its goroutines? | a result that is on its way; something of the attempt, always; yes |
| `startup` | Do model, cluster and addresses agree after Setup, whatever is slow, lost or failing? On what evidence is a pod given up? Does a namespace that is left go unnoticed? Does the caller ever start over, and does the suite end? | yes; of pods of its name, one of them its own; no; no, yes |
| `readiness` | What is known when the wait for the HTTP servers returns, with and without an error? Is an attempt ever repeated or a case passed over, and does the wait return? | see `ReadyIsBacked`, `FailureIsBacked`; no; yes |
| `waits` | Can the events of other services, or of the past, become an address? Can one be missed? Which setups end silently without one, and do they end? Is there an outcome that the features do not count with? | no; no; those listed by the property; yes, or the namespace never rests; no |
| `board` | Can a feature probe pods that its table, its slice or the cluster lacks, or see what another left? Can a service, or a suite without pods, go unnoticed? Do the label features test the label they say, and lose nobody's write? | not if no feature was aborted, but for ClusterIP right after the bandwidth test, whose marks it reads; no; yes |
| `addresses` | "wait for running pods and set internal pod and host IP addresses" (`manager.go:88`) | violated: pending exactly twice, then running |
| `stale` | "determined this pod stale in pending state" (`exec.go:53`) | violated: counts of another namespace |
| `endpoints` | "WaitForEndpoint return when all addresses are ready." (`service.go:139`) | violated: another service's endpoints |
| `taint` | "erases service related fields on pod, to clear taint from previous test" (`pod.go:248`) | violated: ClusterIP, right after the bandwidth test |
| `labels` | "verify the toggledService is up without" the label (`label_test.go:72`) | violated: no address is probed |
| `udp` | "invalid external UDP IPs setup" (`basic_service_test.go:353`) | violated: hidden by the TCP service's address |

What the properties say:

* `JobsAreConserved`: the collecting loop counts results without looking at whose
  they are. It is right because no job is ever in two places (`JobsAreUnique`)
  and what is counted plus what is still on its way is always the matrix
  (`NothingIsLost`).
* `NoProbeOutlivesItsAttempt`: stragglers of the first attempt have nothing in
  hand, so they cannot write anything the second would read.
* `SendsNeverBlock`: the caller sends everything before it receives anything;
  the buffers must hold the matrix, and do.
* `CallerIsServed`, `StepsRunOut`: the two halves of termination that need no
  fairness. The collecting loop has no timeout; while it waits, a result is in the
  channel or a goroutine is at work on one or about to be. And each step, of
  whoever it is, takes something from what is left of the attempt (jobs to enqueue,
  to receive, to answer, to send, executions of a probe, goroutines to return) and
  adds to none of it, or begins the second attempt, so that no interleaving goes
  round in circles. `ValidationEnds` and `NoGoroutineLeaks` say with fairness what
  follows.
* `PassIsBackedByTheLastAttempt`, `FailureIsJustified`: relate the verdict to
  what the network did *during the last attempt*. A pass with an expected
  *blocked* pair may also rest on a probe that failed for another reason: the
  code cannot tell a failed exec from a blocked path (`manager.go:247`), and the
  property says so instead of assuming it away.
* `TableIsOfTheAttempt`: what the pool promises its callers. A complete table, of
  this attempt and not of the one before, each entry true of a moment of it; a
  probe that failed on its own is never read as connected, also not later.
* `AbstractSpec`: the pool is two tries that observe every pair once and judge
  what they observed. That the table changes by one pair per step, each once per
  attempt, none after the verdict, is part of it; `TableChangesOnlyByCollect`
  says so in the terms of the pool, and is a theorem.
* `LogSaysTheVerdict`: the summary that is printed is computed without the flags
  of the call. The property says how far the log can contradict the verdict: only
  about a measurement that was too slow, or a hairpin pair that the call ignores.
* `ReadyIsBacked`: "ready" collects observations of different rounds. It means
  that every server of every case was up at some moment of that case's last
  attempt, not that all were up at once. `FailureIsBacked`: an error means that a
  case is left which was tried in every round and had a fault in the last.
  `WaitEnds`: the rounds are bounded, whatever the servers do. `AttemptsRunOut`,
  a theorem, is its half without fairness: the set of attempts that are still
  ahead only shrinks, each attempt takes itself out of it, and no round ends
  before every case that is not ready was tried in it.
* `ModelMatchesCluster`, `OnlyStalePodsAreDropped`, `AddressesFollowThePolls`:
  what Setup leaves. The last one has two parts: addresses are read only from pods
  that were seen running (`AddressesOfRunningPods`), and of the pods of the model
  only those that were pending exactly `PollTimes` times lack theirs
  (`OnlySlowPodsLackAddresses`); that the exception exists at all is the finding
  `addresses`.
* `GivenUpOnPendingPolls`: the same for the finding `stale`. A pod is given up
  after a poll found it pending, and on as many pending polls as the threshold
  asks for; what the code mixes up is whose, and only between the two pods of a
  name.
* `SuccessMeansCleanedUp`: whichever call fails, an exit code of 0 means that both
  namespaces were deleted. It depends on the order of the framework (an error of
  the Setup skips the Teardown, an error of the validation does not) and on every
  error path being fatal for a test or for the process.
* `SuiteEnds`: with weak fairness of the caller alone. Pods that are never
  scheduled, and calls that fail, do not keep Setup or Finish from ending.
  `CallerAdvances`, a theorem, is its half without fairness: every step of the
  caller goes further in a bounded order of stages, pods, polls and removals. No
  wait starts over, and the loop that removes pending pods meets no pod twice,
  although it changes the map it iterates.
* `AnswersWereTrue`, `NothingIsMissed`: the two directions of a wait. What it
  answers some event showed of the right object; what the service had while the
  wait ran it does not give up on, also if it was given before the watch opened.
* `SetupSpec`: the waits, the errors of `Create` (which may come after its effect)
  and the look of each caller at the answers, taken together, have the outcomes
  of `Promised(caller)`: whether the service is in the cluster, whether its
  address was answered and is one (a load balancer may answer with an entry that is
  no IP), whether something was reported, and how it ended. A
  feature that goes on without a report has a service; a careful one an answer;
  and nothing the namespace does afterwards makes it otherwise. A timeout is not
  an error in `service.go`; whether a missing address is noticed depends on the
  caller. `SilentSetupIsUsable`, a theorem, states of every address that a Setup
  waits for which callers notice, and its exceptions are the ones that do not; an
  entry of a load balancer's list counts there, whether or not it has an IP.
* `SetupEnds`: every event starts the fifteen seconds anew, so a wait ends *or*
  the namespace never comes to rest. The disjunct is in the code, not a
  convenience.
* `EveryProbeHasARow`: tables are made from slices taken at the beginning of a
  test function or after Setup; the pool walks the current model. A pod without
  a row is a write into a nil map.
* `CacheAgrees`: the cache of all pods and the lists of the namespaces are kept in
  two places by every operation; they show the same pods, each once.
* `HeldSliceIsCurrent`: a removal shifts the array under a slice that a test
  function still holds, which then shows a pod twice. Nobody reads it then; the
  property depends on SessionAffinity being the last feature of its function.
* `ModelledPodsExist`: also when deleting or adding pods fails half-way.
* `NoTaint` is what the code says of its reset, and the finding `taint` shows that
  it fails. `NoStaleReads` says how far the failure goes: of all fields that any
  feature reads, only the marks of the bandwidth test are another's, and only the
  validation of ClusterIP reads them, because the Teardown of ClusterIP is the
  first one that resets. Of what an aborted feature leaves it says nothing:
  `ResetTestBoard` then skips the reset, and what follows reads it.
* `BlankReadsAreReported`: the probing pod answers a probe of nothing itself, so a
  feature that probes nothing and reports nothing passes without a connection. The
  property says exactly where that can be: (a) a pod that the start-up left without
  its own IPs, wherever the pod IP or the host IP is used (HostNetwork, the perf
  features, node ports); (b) the port of a node port, whose wait returns 0 and no
  error; (c) the cluster IP of hairpin, which writes the service name, and of the
  label features, which give it to one pod; (d) the list of a load balancer for one
  protocol, if the list of both has an entry: one of the other protocol, or one
  without an IP. In every other case, ClusterIP, SessionAffinity, EndlessService,
  ExternalName and a load balancer without any entry, it was reported.
* `LeftoversAreReported`: no service stays in the cluster without a failure,
  although deletion stops at its first error.
* `LabelFollowsTheTest`: each of the three validations of a label feature runs
  while the service exists with the label that the test believes it has, whatever
  calls failed and whoever else wrote. `AtomicSpec`: a label is changed by
  writing back the whole object that was read, in two calls; they are one change,
  which leaves alone what others wrote in between (`NoWriteIsLost`, a theorem).
* `EmptyModelIsNoticed`: with no pods every comparison passes. A run that gets to
  its end had a pod of the suite to probe, because two test functions read
  `pods[0]`; the bandwidth test, which leaves its own pods behind, is excluded.

Each property of a passing run has a mutant (`mutants` in `PROJECT.json`): an
operator in the module that differs from the modelled definition as a plausible
mistake in the Go code would (a misplaced `continue`, a forgotten `close`, an
off-by-one, a fresh table for the retry, a logged instead of returned error) and
under which TLC finds the property violated. They stand before the definition
they vary and no action uses them.

### Findings

1. `manager.go:99` against `exec.go:52` and `manager.go:161`: `<` on one side
   and `>` on the other; a pod that was pending exactly
   `PollTimesToDeterminePendingPod` times stays in the model without addresses.
2. `exec.go:51`: `PendingPods` is keyed by name. The UDP test's pods take
   names of the suite's, inherit their counts and are given up on early.
3. `service.go:151`: `WaitForEndpoint` watches all Endpoints of the namespace
   and does not look at the name: endpoints of another service end the wait.
4. `bandwidth_test.go:58`: its Teardown resets nothing, so the suite's pods keep
   `SkipProbe` and its own pods stay in the model. In a run without flags the
   validation of ClusterIP skips the pods it means to probe and passes; its
   Teardown is the first that resets, and no later feature is affected
   (`NoStaleReads`). The two iperf pods stay in the model to the end.
5. `label_test.go:73`: `GetClusterIP` reads the object that was handed to
   `Create`, which nothing updates; the first validation of both label features
   has no address and probes nothing of the service.
6. `basic_service_test.go:352`: the addresses of the TCP and of the UDP service of
   a pod go into one list, and the check looks whether the list is empty: a load
   balancer without an address for UDP is not reported. Nor is one whose entries
   have a name and no IP; `BlankReadsAreReported` has both as its case (d).

Disagreements that need no model to see, and are hazards rather than runs:
`PrintSummary` computes the summary with both flags false (`reachability.go:54`),
so its branch about ignored hairpin pairs is dead (what follows for the log is
`LogSaysTheVerdict`); `result.go:18` indexes the ninth field of whatever iperf
printed; `main_test.go:93` leaves the namespace behind when Setup calls
`log.Fatal`.

### Bounds

* `N = 2` pods (four pairs) with two goroutines. `numberOfWorkers` is 4 and the
  loop starts at 1, so the code runs three. Four pairs are more than the
  goroutines: they receive a second job, contend for the last ones, and one can
  be left with none. Two pods have loopback and proper pairs. Two goroutines
  afford every kind of probe, and for `ends` a graph without symmetry; the
  theorems hold for any number.
* `MaxRetries` is 3 in the code and 2 in both runs: the outcomes of a probe are
  the same from 2 on.
* `MaxUpsets = 1` in `Validation`: one change of the network, or one probe that
  fails on its own, at any moment of either attempt. One is enough for a pair to
  be up and down within an attempt and to differ between the attempts.
* `Networks`: everything is up, or hairpin is missing. `TestCases`: everything
  allowed, loopback not expected, one pair not expected, with skipped and
  unaddressed pods and both flags, as the tests call the validation.
* `PodStartup`: three nodes for safety, so that there is a pod before and after
  the one that is slow; `PollTimes = 2` as in `consts.go`; `MaxPolls = 5`, which
  is more than `PollTimes + 1`, so that a wait can also end by time-out after
  unknown phases; two upsets, so that a lost pod can come back.
* `ServiceWatch`: the service of the Setup and one other, which is enough to be
  taken for it and to appear and vanish; a backlog of two events, so that one of
  another service can stand before the one that is needed. Only the kinds of
  address that a caller waits for are granted (`Given`): no wait looks at others.
  Only the service of the Setup is given an ingress entry without an IP: the waits
  for external IPs pass over the events of others.
* `Readiness`: two nodes, of which any may be in the model and any of those
  without an address; two cases, so that one can get ready and stop again while
  the other is awaited; three rounds, a first, a middle and a last one, of the ten
  of the code; one probe that fails on its own.
* `TestBoard`: `MCClusters` has the lists that Setup may leave: one pod; two, of
  which one has the name that HostNetwork adds (`pod-5`); none. Two pods are one
  that is `pods[0]` and one that is not. The features, their order and the pods
  they add, the two of the bandwidth test among them, are those of the code. In
  `board` the bandwidth test, whose two pods stay in the model, runs over at most
  one pod of the suite (`MCInit`), which makes three to probe; and after the waits at
  most one pod of the model lacks its IPs (`FewLackIPs`), any one of them, since what
  is asked about such a pod is asked about it alone. 5.5 million states, about two
  minutes with two workers. The other runs of the module, and the theorems, have
  neither bound.
* `MaxWrites = 1`: one write of another, at any moment; one is enough to come
  between a `Get` and its `Update`.
* Symmetry of the goroutines is used in `verdict` only, which has no liveness.

### Fairness

* `Validation!Fairness`: weak fairness of the caller, of each goroutine and of
  each straggler, which is what the Go scheduler gives to runnable goroutines.
  Taking a probe step under weak fairness means that an executed command ends:
  `agnhost connect` carries `--timeout`, `nc` carries `-w`. `iperf` carries
  none; that its process ends is an assumption about the cluster.
  The network (`Flip`) is not fair, and no outcome of a probe is preferred.
* `PodStartup!FairSpec`: weak fairness of the caller only, that is, calls of the
  API return. That they succeed is not assumed, nor that any pod is scheduled.
* `Readiness!FairSpec`: weak fairness of the caller (`CallerStep`): an attempt
  ends, which is `ValidationEnds`. The servers need not do anything.
* `ServiceWatch!FairSpec`: weak fairness of the caller only: API calls return, an
  event in the channel is read, the timer fires. The namespace need not move,
  nor come to rest.

## 4. Proofs

All theorems are stated of `Spec`, hold for every value of the constants, and
rest only on the named assumptions on the constants: in `Validation` that `N` and
`MaxUpsets` are naturals, `MaxRetries` a positive one, the goroutines finitely
many and at least one, and test cases and networks of their types; in `Readiness`
that the nodes are finitely many, `MaxTries` a positive natural and `MaxUpsets` a
natural; in `ServiceHandle` that `MaxWrites` is a natural; in `TestBoard` that
the lists of pods which Setup may leave have no duplicates and do not use the
names of the pods that features add (but for `pod-5`, which they may); in
`PodStartup` that there are two nodes (`StartPods` returns an error otherwise)
and that the thresholds are naturals; in `ServiceWatch` that `Mine` is one of
finitely many services.

**`ValidationProofs`.** `NothingIsLost`, a statement about a count, is not
inductive by itself: a pair that is in two places is counted once, and collecting
it would not make the rest smaller by one. It is inductive together with `TypeOK`
and `JobsAreUnique` (`Conserved`). `Uncollected` is the union of the unsent tail
of the caller's loops, `jobs`, the hands of the goroutines and `results`; lemmas
say what each operation does to the four parts (`EnqueueStays`, `ReceiveStays`,
`SendStays`, `CollectRemoves`, `RetryRestarts`). `Complete` adds that the caller
returns only after the last result. From these: `JobsConserved`;
`AttemptsDoNotOverlap` (when everything is collected `Uncollected` is empty, and
with it every goroutine's hands); `BuffersSuffice`, by the pigeonhole principle:
distinct pairs, and one more that is still to be sent, cannot have filled a
buffer of the size of the matrix (`DistinctAndOneMore`); `OnlyCollectWrites`;
`CallerNeverWaitsInVain`, by counting what is uncollected and `ExitsAreLast` (a
goroutine leaves only when the channel is closed and drained, so with a job in it
any goroutine that is not busy is at the receive); `NoStepIsWasted`, one lemma
per kind of step about what it takes from `Left` (`EnqueueUses`, `ReceiveUses`,
`ATryIsUsed`, `SendUses`, `CollectUses`, `ExitUses`), whose parts are finite
(`LeftIsFinite`); and `PoolRefinesTwoTries`, where `Collect` maps to an
observation of the pair it takes, `Retry`, `Finish` and the panic to themselves,
and everything else stutters.

**`VerdictProofs`.** `Evidence` carries the reason of a probe's outcome along the
way the outcome travels: what `seen` holds when the goroutine replies
(`RepliesBacked`), what is in `results` (`ResultsBacked`), what is in the table
(`TableBacked`). `VerdictCounts` ties the number returned to that table. The two
theorems `PassIsBacked` and `FailureIsBacked` read the verdict's claim off
`Evidence` and `Complete`; without the latter a pass could rest on pairs of the
first attempt that the second had not observed again. `AttemptsKeepTheirPromise`
is the same without a verdict, and adds that no place of the pool holds a
connection for a pair whose probe failed (`SpoiledAreFalse`): the failing
goroutine is the only one that has the pair, and its answer the only one on the
way. `LogAgrees` needs one fact more, `ReportCounts`, that the printed summary
was made from the table of the verdict; the rest is counting the two comparisons
of the same table.

**`PodStartupProofs`.** The conjunction `Counts` says that while the suite is set up
the count kept per name is the suite's own (`CountsAreOwn`), that a pod the loop
has not reached is undecided (`AheadIsOpen`), that nothing is dropped before the
last wait, and that a pod seen running was in time. `WaitIsDecided` is what the
end of a poll leaves, `DroppedWasStale`, `PassedIsSettled`, `KeptWasInTime` and
`ModelIsCluster` are what follows for the first theorems, `PlacesOfCaller` that
the removing loop is the suite's and the Teardown the test's.
`OnlyTheGapLacksAddresses` is the exact extent of finding 1,
`GivenUpPodsWerePending` that of finding 2: the count of a name that is still in
the model is the sum of the polls of its two pods, and the test waits only for
names in the model (`GivenUpOnEvidence`). `SuccessLeavesNothing` needs that the
namespace of the test exists neither during Setup nor after a test that passed
(`NamespacesAccounted`). `NothingIsDoneTwice` is the half of `SuiteEnds` that needs
no fairness; it uses `Counts` (a name that was dropped has count 0, so it is not
dropped again) and that the second pod of the model comes after the first
(`NthInOrder`).

**`ServiceWatchProofs`.** `AnswersAreTrue`: every event on its way *was* true
(`EventsWereTrue`, `WasTrue`), because the history holds everything that is so
now (`HistoryIsComplete`) and never shrinks. Kinds of address and of subset are
disjoint, so what an event of one kind of watch shows cannot be taken for the
other. `NothingMissed`: an address that the service has while its wait runs was
collected, or an event on its way shows it, or one on its way breaks the watch
(`GrantsAreOnTheirWay`); the initial events establish it
(`InitialEventsType`, `OpenDelivers`), every change of the namespace preserves it
because the open watch is of the right kind (`WatchIsOpen`), and an event that is
consumed without ending the wait was collected (`ReceiveDelivers`). The queue is
empty at a timeout, so the first case is the only one left. `SilentSetupsAreUsable`
needs no invariant beyond the types: in every caller but the one that looks at no
answer, the address that is used is waited for last (`AddressIsLast`), and the
return that ends the setup with it (`UsableWhenReturned`) either has it or is
reported. `SetupsKeepTheirPromise` adds four facts (`Kept`): what is not reported
was made, only what was made ever had an address, the two callers that stop at
the first fault have reported none while they go on, and `t.Fatal` is only called
by one of them. With those and the three theorems above the outcome of a setup
that is over is a promised one (`PromiseIsKept`), no step changes it
(`OutcomeIsFinal`), and every other step stutters. The proof found arms of a
`CASE` in `Return` that overlapped, of which TLC takes the first and TLA+ either:
they are exclusive now.

**`ReadinessProofs`.** `ReadyIsBacked` and `FailureIsBacked` speak of the return
only. The inductive `Rounds` says what every round leaves behind: a case that is
ready rests on its last attempt (`ReadyCases`), and one that is not has been tried
in all rounds so far, or all but the present one when its turn is still to come
(`Behind`), and its last attempt had a fault (`UnreadyCases`). What an attempt may
say of a table is reduced to two facts: no wrong pair means that all servers were
seen up, a wrong pair that one was seen down or a probe failed.
`NoAttemptIsRepeated` follows from the same invariant, which says exactly in which
rounds a case was tried: at most once in each, and not yet in this one if the
round has not reached it.

**`ServiceHandleProofs`.** The lemmas hold for every order of the operations, so
`TestBoardProofs` applies them to whatever step of the features moves the handle
(`ServiceStepsOnly`). `NoWriteIsLost` is inductive with `HoldsItsRead`: between
`Get` and `Update` the handle is not newer than the service, and if it is as new,
it is as complete. Every step then maps to a step of `AtomicService` or to a
stutter.

**`ClusterModelProofs`.** What each operation does to the lists: appending over
what was left behind, cutting one out by a shift (`CutFacts`), the agreement of
cache and namespaces (`ModelInv`), and what a held slice shows. `HoldsAll` (it is
the whole cache) and `HoldsPart` (it is a first part of it) are the two conditions
under which a held slice shows pods of the model, each once.

**`TestBoardProofs`.** The theorems rest on a chain of invariants, each inductive
relative to those before it, for any lists of pods and any number of writes:

| Invariant | Says | Needed for |
|---|---|---|
| `Control` | which phases a feature can be in | everything: no feature is in a phase of another |
| `HandleInv`, `LabelInv` | the label at each place of a label test; which call is under way | `OthersWritesSurvive`, `LabelsAreAtomic`, `LabelIsAsTested` |
| `LoopInv` | what a loop over pods has left, by feature | every step that takes the head of `todo` |
| `BoardInv` | `ModelInv`; pods of the model are in the cluster; the iperf pods come in once | `CacheHolds`, `ProbedPodsExist` |
| `SliceInv` | the held slice is `HoldsAll`, but where SessionAffinity has added pods (`HoldsPart`) and where it removes them, when nobody reads it | `HeldSlicesAreCurrent`, `ProbesHaveRows` |
| `ServicesInv` | every service in the cluster has a handle that Teardown will delete | `LeftoversFail` |
| `ValuesInv` | the types of fields, flags and services | `BoardTypes` |
| `AddressInv` | while services are made, a pod without an address in its fields is still to come or a failure is reported: of ClusterIP, ExternalName and the two balancers of a pod, which have an entry between them, because their setups promise so (`SilentRoundFinds`) | `BlanksAreReported` |
| `RunInv` | a feature that runs was selected; its loops are over its own pods; the run ends at the last function | the two below |
| `PodsInv` | without an abort and the bandwidth test: the iperf list is empty, only known guests are among the suite's pods, and from the third function on one of the suite's own remains | `EmptyModelsAreNoticed` |
| `FieldsInv` | without an abort: what a pod of the model holds is of the feature that runs, or the address of a label feature in the first pod, or the mark of the bandwidth test, up to the end of ClusterIP (`Tainted`); what removed pods hold is of SessionAffinity | `StaleReadsNever` |

`FieldsInv` shows why `NoStaleReads` cannot do without the others. Two things in
the code are never reset: what SessionAffinity wrote into the pods it removes,
and the address in the first pod of the label features. The first is harmless
because no later feature adds pods of these names (`Discarded`, from `RunInv`),
the second because both label features write that pod's address before every
validation, through the same slice (`SliceInv`). The marks of the bandwidth test
outlast ClusterIP only where ClusterIP was not selected, and then nothing that
was selected runs after it (`TaintIsRead`: of the selections that the documents
name, one has the bandwidth test without ClusterIP, and it has nothing else).

Only model-checked: the liveness properties (`ValidationEnds`,
`NoGoroutineLeaks`, `SuiteEnds`, `SetupEnds`, `WaitEnds`), which need fairness and
ENABLED and are out of the prover's reach. Of `ValidationEnds` the two halves
without fairness are proved (`CallerIsServed`, `StepsRunOut`), of `SuiteEnds` and
`WaitEnds` that the steps of the caller advance a bounded measure
(`CallerAdvances`, `AttemptsRunOut`). Every other property of a passing run is
stated by a theorem. `TableChangesOnlyByCollect`, `CallerAdvances`,
`AttemptsRunOut`, `NoWriteIsLost` and `SilentSetupIsUsable` are theorems only: for
each a run checks a property that says more (`AbstractSpec`, `AtomicSpec`,
`SetupSpec`) or that rests on it (`SuiteEnds`, `WaitEnds`). No theorem is about
recursively computed data; the comparison of tables is defined with sets, not
recursion, and is used by the proofs by its definition.

## 5. Not modelled

* Formatting and I/O: pretty-printing, logs, the command lines and streams of
  `ExecWithOptions`, the CI report, deployment files.
* Peer matching (`peer.go`), ports, protocols and service types: a peer is the
  set of pods it matches. The address selection of `probe.go:50-75` is in
  `TestBoard` (`Reads`, `Lacks`): which field of a pod each feature uses, and
  whether it is blank; in `Validation` only through the pods for which it finds none.
* The error of `ProbeConnectivityWithNc` (a shadowed variable makes it nil): its
  caller only logs it.
* The services and the validation of `TestUDPInitContainer`: instances of what
  `ServiceWatch` and `Validation` model; its pods are in `PodStartup`.
* `AddNamespace` and `AddNamespaceWithImageAndCommands`, which have no caller. The
  second keeps the cache; `CacheAgrees` is violated with it, and that is its
  mutant.
* Getters, setters and conversions to API objects of the entities, the identifier
  counter of `CreateServiceFromTemplate`: fields and names without control.
* The watches that `WaitForEndpoint` and `WaitForExternalIP` leave open: nothing
  in the code counts them.

## 6. Plan

Done: the modules and proofs above. What a continuation could add, in this order:

1. A measure of what a Setup of `ServiceWatch` has still to do, that every step of
   the caller advances: the half of `SetupEnds` without fairness.
2. A bound on the watches that stay open, if the code is given one.
