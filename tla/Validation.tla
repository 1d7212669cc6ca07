----------------------------- MODULE Validation -----------------------------
(***************************************************************************)
(* ValidateAndMeasureBandwidthOrFail (pkg/matrix/helper.go) and the worker *)
(* pool it drives, ProbePodToPodConnectivity and probeWorker               *)
(* (pkg/matrix/probe.go).                                                  *)
(*                                                                         *)
(* The caller enqueues one job per ordered pair of pods, closes the jobs   *)
(* channel and collects as many results as there are pairs.  The workers   *)
(* are goroutines: they receive a job, execute a probe inside a pod and    *)
(* send a result until the jobs channel is closed and drained.  A wrong    *)
(* first attempt is repeated once, with fresh channels and fresh workers,  *)
(* over the same observed table.                                           *)
(*                                                                         *)
(* The cluster is the environment: net says whether a probe of a pair can  *)
(* reach its target now, and may change while probes run; any probe may    *)
(* also fail for a reason of its own (exec refused, command timed out).    *)
(* A panic in a goroutine ends the whole process.                          *)
(***************************************************************************)
EXTENDS Reachability, Sequences, Functions

CONSTANTS N,           \* number of pods, len(model.AllPods())
          Worker,      \* the goroutines that the loop of an attempt starts
          TestCases,   \* the test cases a caller may pass
          MaxRetries,  \* executions of nc per probe, maxRetries in manager.go
          Networks,    \* what net may be when a validation starts
          MaxUpsets    \* bound: changes of the network and probes that fail
                       \* in spite of a path, during a validation

Pod == 1 .. N
Pair == Pod \X Pod
Size == N * N

(* The probe a worker runs: agnhost connect, nc when the caller wants the  *)
(* answer of the target pod itself, iperf when it measures bandwidth.      *)
Mode == {"connect", "nc", "iperf"}

(* A TestCase together with the flags of the call and what the worker reads*)
(* of a target pod: SkipProbe, and whether no address of the service type  *)
(* is known for it (the address handed to the probe is then empty).        *)
TestCase == [expected : [Pair -> BOOLEAN], skip : SUBSET Pod,
             unaddressed : SUBSET Pod, ignoreLoopback : BOOLEAN, mode : Mode]

ASSUME NAssumption == N \in Nat
ASSUME WorkerAssumption == IsFiniteSet(Worker) /\ Worker # {}
ASSUME TestCaseAssumption == TestCases \subseteq TestCase
ASSUME MaxRetriesAssumption == MaxRetries \in Nat \ {0}
ASSUME NetworksAssumption == Networks \subseteq [Pair -> BOOLEAN]
ASSUME MaxUpsetsAssumption == MaxUpsets \in Nat

VARIABLES
  tc,         \* the test case and flags of this call
  net,        \* environment: the pairs whose target can be reached now
  upsets,     \* changes and spurious failures so far
  jobs,       \* the jobs channel of the running attempt
  closed,     \* it was closed
  results,    \* the results channel of the running attempt
  worker,     \* the goroutines of the running attempt
  lingering,  \* goroutines of the first attempt that have not returned yet
  pc,         \* the caller: "send", "collect", "done", or "panicked"
  round,      \* the attempt, 1 or 2
  cursor,     \* the indices of the two nested loops that enqueue
  collected,  \* the index of the loop that collects
  observed,   \* testCase.Reachability.Observed, its values
  bandwidth,  \* and its bandwidths
  wrong,      \* the value returned
  report,     \* what PrintSummary told the reader of the log
  seen        \* history of the attempt: pairs up, down, or failed though up

env == <<tc, net, upsets>>
channels == <<jobs, closed, results>>
goroutines == <<worker, lingering>>
caller == <<pc, round, cursor, collected>>
table == <<observed, bandwidth>>
verdict == <<wrong, report>>
vars == <<env, channels, goroutines, caller, table, verdict, seen>>

-----------------------------------------------------------------------------
Result == [job : Pair, connected : BOOLEAN, measured : Bandwidth]

Receiving == [pc |-> "receive"]
Exited == [pc |-> "exited"]
Probing(job, tries) == [pc |-> "probe", job |-> job, tries |-> tries]
Replying(job, connected, measured) ==
  [pc |-> "reply", job |-> job, connected |-> connected, measured |-> measured]

WorkerState ==
  [pc : {"receive", "exited"}]
    \cup [pc : {"probe"}, job : Pair, tries : 0 .. MaxRetries - 1]
    \cup [pc : {"reply"}, job : Pair, connected : BOOLEAN, measured : Bandwidth]

Running == pc \in {"send", "collect"}

(* Mutant of Capacity: a row of the matrix.                                *)
CapacityOfARow == N

(* Both channels are buffered for every pair.                              *)
Capacity == Size

FalsePairs ==
  FalseObs(tc.expected, observed, bandwidth, tc.ignoreLoopback, tc.mode = "iperf")

Up(network) == {pair \in Pair : network[pair]}
NothingSeen(network) ==
  [up |-> Up(network), down |-> Pair \ Up(network), spoiled |-> {}]

(* An attempt begins: new channels and new goroutines, the loops at their  *)
(* first pair.                                                             *)
StartAttempt ==
  /\ jobs' = <<>>
  /\ closed' = FALSE
  /\ results' = <<>>
  /\ worker' = [w \in Worker |-> Receiving]
  /\ pc' = "send"
  /\ cursor' = <<1, 1>>
  /\ collected' = 0
  /\ seen' = NothingSeen(net)

Init ==
  /\ tc \in TestCases
  /\ net \in Networks
  /\ upsets = 0
  /\ jobs = <<>>
  /\ closed = FALSE
  /\ results = <<>>
  /\ worker = [w \in Worker |-> Receiving]
  /\ lingering = {}
  /\ pc = "send"
  /\ round = 1
  /\ cursor = <<1, 1>>
  /\ collected = 0
  /\ observed = EmptyTable
  /\ bandwidth = [pair \in Pair |-> "nil"]
  /\ wrong = 0
  /\ report = [right |-> 0, wrong |-> 0, ignored |-> 0]
  /\ seen = NothingSeen(net)

-----------------------------------------------------------------------------
(* The environment: a path comes up or goes down.                          *)
Flip(pair) ==
  /\ Running
  /\ upsets < MaxUpsets
  /\ upsets' = upsets + 1
  /\ net' = [net EXCEPT ![pair] = ~@]
  /\ seen' = IF net[pair] THEN [seen EXCEPT !.down = @ \cup {pair}]
                          ELSE [seen EXCEPT !.up = @ \cup {pair}]
  /\ UNCHANGED <<tc, channels, goroutines, caller, table, verdict>>

-----------------------------------------------------------------------------
(* The caller.                                                             *)
(* Mutant of NextCursor: the inner loop overruns its list.                 *)
NextCursorOverrun ==
  IF cursor[2] <= N THEN <<cursor[1], cursor[2] + 1>> ELSE <<cursor[1] + 1, 1>>

NextCursor ==
  IF cursor[2] < N THEN <<cursor[1], cursor[2] + 1>> ELSE <<cursor[1] + 1, 1>>

Enqueue ==
  /\ pc = "send"
  /\ cursor[1] <= N
  /\ Len(jobs) < Capacity
  /\ jobs' = Append(jobs, cursor)
  /\ cursor' = NextCursor
  /\ UNCHANGED <<env, closed, results, goroutines, pc, round, collected,
                 table, verdict, seen>>

(* Mutant of CloseJobs: the channel is never closed.                       *)
CloseJobsForgotten ==
  /\ pc = "send"
  /\ cursor[1] > N
  /\ pc' = "collect"
  /\ UNCHANGED <<env, channels, goroutines, round, cursor, collected,
                 table, verdict, seen>>

CloseJobs ==
  /\ pc = "send"
  /\ cursor[1] > N
  /\ closed' = TRUE
  /\ pc' = "collect"
  /\ UNCHANGED <<env, jobs, results, goroutines, round, cursor, collected,
                 table, verdict, seen>>

Collect ==
  /\ pc = "collect"
  /\ collected < Size
  /\ results # <<>>
  /\ results' = Tail(results)
  /\ collected' = collected + 1
  /\ observed' = Set(observed, Head(results).job, Head(results).connected)
  /\ bandwidth' = [bandwidth EXCEPT ![Head(results).job] = Head(results).measured]
  /\ UNCHANGED <<env, jobs, closed, goroutines, pc, round, cursor, verdict, seen>>

(* Mutant of Retry: as often as it takes.                                  *)
RetryUntilRight ==
  /\ pc = "collect"
  /\ collected = Size
  /\ FalsePairs # {}
  /\ round' = 2
  /\ lingering' = {w \in Worker : worker[w] # Exited}
  /\ StartAttempt
  /\ UNCHANGED <<env, table, verdict>>

Retry ==
  /\ pc = "collect"
  /\ collected = Size
  /\ round = 1
  /\ FalsePairs # {}
  /\ round' = 2
  /\ lingering' = {w \in Worker : worker[w] # Exited}
  /\ StartAttempt
  /\ UNCHANGED <<env, table, verdict>>

(* Mutant of Finish: once the table is complete instead of once everything *)
(* is collected, which the second attempt's table is from the start.       *)
FinishWhenComplete ==
  /\ pc = "collect"
  /\ IsComplete(Pair, observed)
  /\ round = 2 \/ FalsePairs = {}
  /\ pc' = "done"
  /\ wrong' = Cardinality(FalsePairs)
  /\ UNCHANGED <<env, channels, goroutines, round, cursor, collected, table,
                 report, seen>>

(* Mutant of Finish: the flags are passed on, in the wrong order.           *)
FinishWithFlags ==
  /\ pc = "collect"
  /\ collected = Size
  /\ round = 2 \/ FalsePairs = {}
  /\ pc' = "done"
  /\ wrong' = Cardinality(FalsePairs)
  /\ report' = Summary(tc.expected, observed, bandwidth,
                       tc.mode = "iperf", tc.ignoreLoopback)
  /\ UNCHANGED <<env, channels, goroutines, round, cursor, collected, table, seen>>

(* The verdict counts with the flags of the call, the printed summary      *)
(* without them.                                                           *)
Finish ==
  /\ pc = "collect"
  /\ collected = Size
  /\ round = 2 \/ FalsePairs = {}
  /\ pc' = "done"
  /\ wrong' = Summary(tc.expected, observed, bandwidth,
                      tc.ignoreLoopback, tc.mode = "iperf").wrong
  /\ report' = Summary(tc.expected, observed, bandwidth, FALSE, FALSE)
  /\ UNCHANGED <<env, channels, goroutines, round, cursor, collected, table, seen>>

-----------------------------------------------------------------------------
(* The goroutines of the running attempt.                                  *)
AtProbe(w, mode) ==
  /\ pc # "panicked"
  /\ worker[w].pc = "probe"
  /\ worker[w].job[2] \notin tc.skip
  /\ tc.mode = mode

Reply(w, connected, measured) ==
  worker' = [worker EXCEPT ![w] = Replying(worker[w].job, connected, measured)]

(* Mutant of Fail: the error of the command is not looked at.              *)
FailUnchecked(w) ==
  /\ Reply(w, TRUE, "nil")
  /\ UNCHANGED <<upsets, seen>>

(* The command failed: for want of a path, or, spoiled, in spite of one.   *)
Fail(w) ==
  /\ Reply(w, FALSE, "nil")
  /\ \/ ~net[worker[w].job] /\ UNCHANGED <<upsets, seen>>
     \/ /\ net[worker[w].job]
        /\ upsets < MaxUpsets
        /\ upsets' = upsets + 1
        /\ seen' = [seen EXCEPT !.spoiled = @ \cup {worker[w].job}]

Receive(w) ==
  /\ pc # "panicked"
  /\ worker[w] = Receiving
  /\ jobs # <<>>
  /\ jobs' = Tail(jobs)
  /\ worker' = [worker EXCEPT ![w] = Probing(Head(jobs), 0)]
  /\ UNCHANGED <<env, closed, results, lingering, caller, table, verdict, seen>>

(* Mutant of Exit: the loop ends with the channel's closing, queued or not. *)
ExitWithJobsLeft(w) ==
  /\ pc # "panicked"
  /\ worker[w] = Receiving
  /\ closed
  /\ worker' = [worker EXCEPT ![w] = Exited]
  /\ UNCHANGED <<env, channels, lingering, caller, table, verdict, seen>>

Exit(w) ==
  /\ pc # "panicked"
  /\ worker[w] = Receiving
  /\ closed
  /\ jobs = <<>>
  /\ worker' = [worker EXCEPT ![w] = Exited]
  /\ UNCHANGED <<env, channels, lingering, caller, table, verdict, seen>>

(* A goroutine of the first attempt: its jobs channel is closed and empty. *)
ExitLate(w) ==
  /\ pc # "panicked"
  /\ w \in lingering
  /\ lingering' = lingering \ {w}
  /\ UNCHANGED <<env, channels, worker, caller, table, verdict, seen>>

(* Mutants of Skip, both a misplaced continue: the pod is probed after its *)
(* result was sent; and no result is sent at all.                          *)
SkipThenProbe(w) ==
  /\ pc # "panicked"
  /\ worker[w].pc = "probe"
  /\ worker[w].job[2] \in tc.skip
  /\ Len(results) < Capacity
  /\ results' = Append(results, [job |-> worker[w].job, connected |-> TRUE,
                                 measured |-> "nil"])
  /\ Reply(w, FALSE, "nil")
  /\ UNCHANGED <<env, jobs, closed, lingering, caller, table, verdict, seen>>
SkipSilently(w) ==
  /\ pc # "panicked"
  /\ worker[w].pc = "probe"
  /\ worker[w].job[2] \in tc.skip
  /\ worker' = [worker EXCEPT ![w] = Receiving]
  /\ UNCHANGED <<env, channels, lingering, caller, table, verdict, seen>>

Skip(w) ==
  /\ pc # "panicked"
  /\ worker[w].pc = "probe"
  /\ worker[w].job[2] \in tc.skip
  /\ Reply(w, TRUE, "nil")
  /\ UNCHANGED <<env, channels, lingering, caller, table, verdict, seen>>

(* An empty address makes agnhost dial the local host, where the probing   *)
(* pod itself listens.                                                     *)
Answers(job) == net[job] \/ job[2] \in tc.unaddressed

Connect(w) ==
  /\ AtProbe(w, "connect")
  /\ \/ Answers(worker[w].job) /\ Reply(w, TRUE, "nil") /\ UNCHANGED <<upsets, seen>>
     \/ Fail(w)
  /\ UNCHANGED <<tc, net, channels, lingering, caller, table, verdict>>

(* Mutant of Netcat: whoever answers will do.                              *)
NetcatOfAnyone(w) ==
  /\ AtProbe(w, "nc")
  /\ Reply(w, TRUE, "nil")
  /\ UNCHANGED <<env, channels, lingering, caller, table, verdict, seen>>

(* One execution of nc.  The target answers, another endpoint of the       *)
(* service answers, or the command fails and is tried again.               *)
Netcat(w) ==
  /\ AtProbe(w, "nc")
  /\ \/ net[worker[w].job] /\ Reply(w, TRUE, "nil") /\ UNCHANGED <<upsets, seen>>
     \/ Fail(w)
     \/ /\ worker[w].tries + 1 < MaxRetries
        /\ worker' = [worker EXCEPT ![w].tries = @ + 1]
        /\ UNCHANGED <<upsets, seen>>
  /\ UNCHANGED <<tc, net, channels, lingering, caller, table, verdict>>

(* One execution of iperf: a measurement, a failed command or one whose    *)
(* ninth field is not a number.                                            *)
Iperf(w) ==
  /\ AtProbe(w, "iperf")
  /\ \/ /\ net[worker[w].job]
        /\ \E measured \in {"low", "high"} : Reply(w, TRUE, measured)
        /\ UNCHANGED <<upsets, seen>>
     \/ Fail(w)
  /\ UNCHANGED <<tc, net, channels, lingering, caller, table, verdict>>

(* The command succeeded with fewer than nine fields: the index expression *)
(* panics in the goroutine and takes the process with it.                  *)
ShortOutput(w) ==
  /\ AtProbe(w, "iperf")
  /\ Running
  /\ pc' = "panicked"
  /\ UNCHANGED <<env, channels, goroutines, round, cursor, collected, table,
                 verdict, seen>>

Send(w) ==
  /\ pc # "panicked"
  /\ worker[w].pc = "reply"
  /\ Len(results) < Capacity
  /\ results' = Append(results, [job |-> worker[w].job,
                                 connected |-> worker[w].connected,
                                 measured |-> worker[w].measured])
  /\ worker' = [worker EXCEPT ![w] = Receiving]
  /\ UNCHANGED <<env, jobs, closed, lingering, caller, table, verdict, seen>>

-----------------------------------------------------------------------------
CallerStep == Enqueue \/ CloseJobs \/ Collect \/ Retry \/ Finish

WorkerStep(w) ==
  \/ Receive(w) \/ Exit(w)
  \/ Skip(w) \/ Connect(w) \/ Netcat(w) \/ Iperf(w) \/ ShortOutput(w)
  \/ Send(w)

(* The call returned and every goroutine too, or the process is gone.      *)
Terminated ==
  \/ pc = "panicked"
  \/ pc = "done" /\ lingering = {} /\ \A w \in Worker : worker[w] = Exited

Terminating == Terminated /\ UNCHANGED vars

Next ==
  \/ \E pair \in Pair : Flip(pair)
  \/ CallerStep
  \/ \E w \in Worker : WorkerStep(w) \/ ExitLate(w)
  \/ Terminating

Spec == Init /\ [][Next]_vars

(* The Go scheduler lets every goroutine that can go on go on.  An executed*)
(* command ends: agnhost and nc carry a timeout; that iperf, which carries *)
(* none, ends with its server or its connection is assumed of the cluster. *)
Fairness ==
  /\ WF_vars(CallerStep)
  /\ \A w \in Worker : WF_vars(WorkerStep(w)) /\ WF_vars(ExitLate(w))

FairSpec == Spec /\ Fairness

-----------------------------------------------------------------------------
(* Where the jobs of the attempt are.                                      *)
Unsent ==
  {pair \in Pair : \/ pair[1] > cursor[1]
                   \/ pair[1] = cursor[1] /\ pair[2] >= cursor[2]}
Queued == Range(jobs)
Busy == {w \in Worker : worker[w].pc \in {"probe", "reply"}}
Held == {worker[w].job : w \in Busy}
Replied == {results[k].job : k \in DOMAIN results}

(* The pairs this attempt has still to observe.                            *)
Uncollected == Unsent \cup Queued \cup Held \cup Replied

(* Every variable has a value of its type: the channels carry jobs and     *)
(* results of the matrix, the workers are in one of the four places of the *)
(* loop of probeWorker, the counters stay within the loops' bounds.        *)
TypeOK ==
  /\ tc \in TestCases
  /\ net \in [Pair -> BOOLEAN]
  /\ upsets \in 0 .. MaxUpsets
  /\ jobs \in Seq(Pair)
  /\ closed \in BOOLEAN
  /\ results \in Seq(Result)
  /\ worker \in [Worker -> WorkerState]
  /\ lingering \subseteq Worker
  /\ pc \in {"send", "collect", "done", "panicked"}
  /\ round \in {1, 2}
  /\ cursor \in Pair \cup {<<N + 1, 1>>}
  /\ collected \in 0 .. Size
  /\ DOMAIN observed \subseteq Pair
  /\ observed \in [DOMAIN observed -> BOOLEAN]
  /\ bandwidth \in [Pair -> Bandwidth]
  /\ wrong \in Nat
  /\ report \in [right : Nat, wrong : Nat, ignored : Nat]
  /\ seen \in [up : SUBSET Pair, down : SUBSET Pair, spoiled : SUBSET Pair]

(* No job of an attempt is ever in two places: not twice in a channel, not *)
(* in the hands of two goroutines, not queued while it is probed.          *)
JobsAreUnique ==
  /\ IsInjective(jobs)
  /\ \A k, l \in DOMAIN results : results[k].job = results[l].job => k = l
  /\ \A v, w \in Busy : worker[v].job = worker[w].job => v = w
  /\ Unsent \cap (Queued \cup Held \cup Replied) = {}
  /\ Queued \cap (Held \cup Replied) = {}
  /\ Held \cap Replied = {}

(* The collecting loop counts to Size without looking at what it counts.   *)
(* It still gets one result per pair: what it has counted and what is still*)
(* to come always add up to the matrix.  A job lost, or enqueued twice,    *)
(* would leave it waiting forever or leave a pair unobserved.              *)
NothingIsLost == collected + Cardinality(Uncollected) = Size

(* Both: a pair is collected exactly once per attempt, in any interleaving *)
(* of the enqueuing loop, the pool and the collecting loop.                *)
JobsAreConserved == JobsAreUnique /\ NothingIsLost

(* When an attempt is over no goroutine of it is inside a probe, so nothing*)
(* of the first attempt can interfere with the second, or with the caller. *)
NoProbeOutlivesItsAttempt ==
  pc = "done" \/ (pc = "collect" /\ collected = Size) => Held = {}

(* Both channels are large enough: neither the caller, which sends every   *)
(* job before it receives a result, nor a worker ever blocks on a send.    *)
SendsNeverBlock ==
  /\ pc = "send" /\ cursor[1] <= N => Len(jobs) < Capacity
  /\ pc # "panicked" /\ (\E w \in Worker : worker[w].pc = "reply") =>
       Len(results) < Capacity

(* The pairs that an attempt really probes, and that count.                *)
Counted == {pair \in Pair : ~(tc.ignoreLoopback /\ Loopback(pair))}
Probed == {pair \in Counted : pair[2] \notin tc.skip \cup tc.unaddressed}

(* A validation that passes says something about the last attempt, not     *)
(* about the one before and not about defaults: each counted pair expected *)
(* to connect was up at some moment of it, each expected to be blocked was *)
(* down at some moment of it or its probe failed for another reason.       *)
PassIsBackedByTheLastAttempt ==
  pc = "done" /\ wrong = 0 =>
    \A pair \in Probed :
      IF tc.expected[pair] THEN pair \in seen.up
                           ELSE pair \in seen.down \cup seen.spoiled

(* What an attempt hands over, as each of the two callers of the pool takes*)
(* it (Readiness is the other): when everything is collected, the table has*)
(* an observation of every pair, made in this attempt and true of a moment *)
(* of it, but for the pairs that answer whatever the network does.         *)
Waived == {pair \in Pair : pair[2] \in tc.skip \cup tc.unaddressed}

TableIsOfTheAttempt ==
  pc = "done" \/ (pc = "collect" /\ collected = Size) =>
    observed \in Observations(Pair, seen.up \cup Waived, seen.down, seen.spoiled)

(* A failing verdict does not overstate: it counts no more pairs than those*)
(* whose path contradicted the expectation at some moment of the last      *)
(* attempt, whose probe failed on its own, or that were measured too slow. *)
Suspect ==
  {pair \in Counted :
     IF tc.expected[pair]
       THEN pair \in seen.down \cup seen.spoiled \/ bandwidth[pair] = "low"
       ELSE pair \in seen.up \/ pair[2] \in tc.skip \cup tc.unaddressed}

FailureIsJustified == pc = "done" => wrong <= Cardinality(Suspect)

(* The summary that is printed covers the whole matrix and speaks of the    *)
(* table of the verdict.  The flags of the call are not passed on to it     *)
(* (reachability.go:54), so it calls right a measurement that was too slow, *)
(* and wrong a hairpin pair that the verdict ignored; nothing else differs. *)
LogSaysTheVerdict ==
  pc = "done" =>
    /\ report.right + report.wrong = Size
    /\ wrong > 0 /\ tc.mode # "iperf" => report.wrong > 0
    /\ wrong = 0 /\ ~tc.ignoreLoopback => report.wrong = 0

(* An observation enters the table only when its result is collected, one  *)
(* pair per step, never of a pair the attempt has collected before; and the*)
(* table the verdict was taken from never changes afterwards.              *)
TableChangesOnlyByCollect ==
  [][table' # table =>
       /\ pc = "collect"
       /\ \E pair \in Uncollected \ Unsent :
            /\ Uncollected' = Uncollected \ {pair}
            /\ \A other \in Pair \ {pair} :
                 /\ bandwidth'[other] = bandwidth[other]
                 /\ Get(observed', other) = Get(observed, other)]_vars

(* Who the collecting loop waits for.  As long as it has to wait, a result *)
(* is in the channel, a goroutine is at work on one, or a job is queued and*)
(* a goroutine is back at the receive: nowhere can the pool come to rest   *)
(* with the caller still in the loop (probe.go:148), which has no timeout. *)
CallerIsServed ==
  pc = "collect" /\ collected < Size =>
    \/ results # <<>>
    \/ Busy # {}
    \/ jobs # <<>> /\ \E w \in Worker : worker[w] = Receiving

(* What is left to do in an attempt: jobs to be enqueued, received, answered*)
(* and sent, results to be collected, executions of the probes, goroutines *)
(* to return, upsets that may still happen, and the ends of the two loops. *)
TriesLeft ==
  {try \in Pair \X (1 .. MaxRetries) :
     \/ try[1] \in Unsent \cup Queued
     \/ \E w \in Worker : /\ worker[w].pc = "probe"
                          /\ worker[w].job = try[1]
                          /\ worker[w].tries < try[2]}

LoopsLeft == {loop \in {"send", "collect"} : pc = "send" \/ pc = loop}

Left ==
  [enqueue |-> Unsent,
   receive |-> Unsent \cup Queued,
   probe   |-> TriesLeft,
   reply   |-> Unsent \cup Queued \cup Held,
   collect |-> Uncollected,
   return  |-> {w \in Worker : worker[w] # Exited},
   linger  |-> lingering,
   upset   |-> upsets + 1 .. MaxUpsets,
   loop    |-> LoopsLeft]

(* No step of the pool is wasted.  Whatever the interleaving, each step of *)
(* the caller and of the goroutines takes something away from what is left *)
(* of the attempt and adds to none of it, or starts the second attempt,    *)
(* which the first can do and the second cannot: there is no cycle, neither*)
(* of the retries of nc within a probe nor of the attempts, and with nobody*)
(* ever waiting in vain (above) the call ends.                             *)
StepsRunOut ==
  [][\/ round = 1 /\ round' = 2
     \/ /\ round' = round
        /\ Left' # Left
        /\ \A part \in DOMAIN Left : Left'[part] \subseteq Left[part]]_vars

(* The whole refines the specification without channels and goroutines.    *)
Abstract == INSTANCE TwoTryValidation WITH
  attempt <- round,
  pending <- Uncollected,
  outcome <- IF Running THEN "running" ELSE pc

AbstractSpec == Abstract!Spec

(* The call comes to an end: its loops do not wait on a result nobody sends*)
(* nor a goroutine on a reader that has gone.                              *)
ValidationEnds == <>(~Running)

(* Unless the process dies, every goroutine of both attempts returns: none *)
(* stays blocked on a channel after the verdict.                           *)
NoGoroutineLeaks == <>Terminated
=============================================================================
