--------------------------- MODULE VerdictProofs ---------------------------
(***************************************************************************)
(* What the verdict of Validation rests on, for any number of pods,        *)
(* goroutines and test cases: the evidence of every observation is carried *)
(* from the probe through the channels into the table.                     *)
(***************************************************************************)
EXTENDS ValidationProofs

USE NAssumption DEF Pod

(* What an observation of a pair says of the attempt: its path was up, or  *)
(* nothing was probed; or it was down, or the probe failed on its own.     *)
Backed(pair, connected) ==
  IF connected THEN pair \in seen.up \/ pair[2] \in tc.skip \cup tc.unaddressed
               ELSE pair \in seen.down \cup seen.spoiled

SeenNow == \A pair \in Pair : IF net[pair] THEN pair \in seen.up ELSE pair \in seen.down

RepliesBacked ==
  \A w \in Worker :
    worker[w].pc = "reply" => Backed(worker[w].job, worker[w].connected)

ResultsBacked ==
  \A k \in DOMAIN results : Backed(results[k].job, results[k].connected)

TableBacked ==
  \A pair \in Pair \ Uncollected :
    pair \in DOMAIN observed /\ Backed(pair, observed[pair])

VerdictCounts == pc = "done" => wrong = Cardinality(FalsePairs)

(* Inductive relative to Conserved.                                        *)
Evidence == SeenNow /\ RepliesBacked /\ ResultsBacked /\ TableBacked /\ VerdictCounts

-----------------------------------------------------------------------------
(* Within an attempt evidence only accumulates.                            *)
LEMMA EvidenceGrows ==
  ASSUME TypeOK, [Next]_vars, ~Retry
  PROVE  /\ tc' = tc
         /\ seen.up \subseteq seen'.up
         /\ seen.down \subseteq seen'.down
         /\ seen.spoiled \subseteq seen'.spoiled
  <1> USE DEF env, channels, goroutines, caller, table, verdict
  <1>1. ASSUME NEW pair \in Pair, Flip(pair)
        PROVE  /\ seen.up \subseteq seen'.up
               /\ seen.down \subseteq seen'.down
               /\ seen.spoiled = seen'.spoiled
    <2>1. seen \in [up : SUBSET Pair, down : SUBSET Pair, spoiled : SUBSET Pair]
      BY DEF TypeOK
    <2>2. CASE net[pair]
      <3>1. seen' = [seen EXCEPT !.down = @ \cup {pair}]
        BY <1>1, <2>2 DEF Flip
      <3> QED
        BY <2>1, <3>1
    <2>3. CASE ~net[pair]
      <3>1. seen' = [seen EXCEPT !.up = @ \cup {pair}]
        BY <1>1, <2>3 DEF Flip
      <3> QED
        BY <2>1, <3>1
    <2> QED
      BY <2>2, <2>3
  <1>2. ASSUME NEW w \in Worker, Fail(w)
        PROVE  /\ seen.up = seen'.up
               /\ seen.down = seen'.down
               /\ seen.spoiled \subseteq seen'.spoiled
    <2>1. seen \in [up : SUBSET Pair, down : SUBSET Pair, spoiled : SUBSET Pair]
      BY DEF TypeOK
    <2>2. CASE seen' = [seen EXCEPT !.spoiled = @ \cup {worker[w].job}]
      BY <2>1, <2>2
    <2>3. CASE UNCHANGED seen
      BY <2>3
    <2> QED
      BY <1>2, <2>2, <2>3 DEF Fail
  <1>3. CASE UNCHANGED seen
    <2>1. tc' = tc
      BY <1>3 DEF Next, CallerStep, WorkerStep, Terminating, Flip, Enqueue,
         CloseJobs, Collect, Finish, Receive, Exit, ExitLate, Skip, Connect,
         Netcat, Iperf, ShortOutput, Send, vars
    <2> QED
      BY <1>3, <2>1
  <1>4. ASSUME NEW pair \in Pair, Flip(pair) PROVE tc' = tc
    BY <1>4 DEF Flip
  <1>5. ASSUME NEW w \in Worker, WorkerStep(w), ~UNCHANGED seen
        PROVE  Fail(w) /\ tc' = tc
    BY <1>5 DEF WorkerStep, Receive, Exit, Skip, Connect, Netcat, Iperf,
       ShortOutput, Send
  <1>6. ASSUME ~UNCHANGED seen
        PROVE  \/ \E pair \in Pair : Flip(pair)
               \/ \E w \in Worker : WorkerStep(w)
    BY <1>6 DEF Next, CallerStep, Terminating, Enqueue, CloseJobs, Collect,
       Finish, ExitLate, vars
  <1> QED
    BY <1>1, <1>2, <1>3, <1>4, <1>5, <1>6

LEMMA BackedStays ==
  ASSUME TypeOK, [Next]_vars, ~Retry, NEW pair, NEW connected, Backed(pair, connected)
  PROVE  Backed(pair, connected)'
  BY EvidenceGrows DEF Backed

(* What is up now was seen up.                                             *)
LEMMA SeenNowStep == TypeOK /\ SeenNow /\ [Next]_vars => SeenNow'
  <1> SUFFICES ASSUME TypeOK, SeenNow, [Next]_vars PROVE SeenNow'
    OBVIOUS
  <1> USE DEF env, channels, goroutines, caller, table, verdict
  <1>1. CASE Retry
    <2>1. net' = net /\ seen' = NothingSeen(net)
      BY <1>1 DEF Retry, StartAttempt
    <2> QED
      BY <2>1 DEF SeenNow, NothingSeen, Up
  <1>2. ASSUME NEW pair \in Pair, Flip(pair) PROVE SeenNow'
    <2>1. net' = [net EXCEPT ![pair] = ~@] /\ net \in [Pair -> BOOLEAN]
      BY <1>2 DEF Flip, TypeOK
    <2>2. \A other \in Pair \ {pair} : net'[other] = net[other]
      BY <2>1
    <2>3. net'[pair] = ~net[pair]
      BY <2>1
    <2>4. seen \in [up : SUBSET Pair, down : SUBSET Pair, spoiled : SUBSET Pair]
      BY DEF TypeOK
    <2>5. CASE net[pair]
      <3>1. seen' = [seen EXCEPT !.down = @ \cup {pair}]
        BY <1>2, <2>5 DEF Flip
      <3>2. seen'.up = seen.up /\ seen'.down = seen.down \cup {pair}
        BY <2>4, <3>1
      <3> QED
        BY <2>2, <2>3, <2>5, <3>2 DEF SeenNow
    <2>6. CASE ~net[pair]
      <3>1. seen' = [seen EXCEPT !.up = @ \cup {pair}]
        BY <1>2, <2>6 DEF Flip
      <3>2. seen'.down = seen.down /\ seen'.up = seen.up \cup {pair}
        BY <2>4, <3>1
      <3> QED
        BY <2>2, <2>3, <2>6, <3>2 DEF SeenNow
    <2> QED
      BY <2>5, <2>6
  <1>3. CASE ~Retry /\ net' = net
    BY <1>3, EvidenceGrows DEF SeenNow
  <1>4. ~Retry /\ ~(\E pair \in Pair : Flip(pair)) => net' = net
    BY DEF Next, CallerStep, WorkerStep, Terminating, Enqueue, CloseJobs, Collect,
       Finish, Receive, Exit, ExitLate, Skip, Connect, Netcat, Iperf, ShortOutput,
       Send, vars
  <1> QED
    BY <1>1, <1>2, <1>3, <1>4

-----------------------------------------------------------------------------
(* A goroutine that holds a reply after a step held it before, or has just *)
(* probed or skipped the pair.                                             *)
LEMMA ProbeIsBacked ==
  ASSUME TypeOK, SeenNow, [Next]_vars, ~Retry, NEW w \in Worker, WorkerStep(w),
         worker[w].pc = "probe", worker'[w].pc = "reply"
  PROVE  Backed(worker[w].job, worker[w].connected)'
  <1> USE DEF env, channels, goroutines, caller, table, verdict
  <1>1. worker[w].job \in Pair /\ worker[w] \in WorkerState
    BY WorkerStates DEF TypeOK
  <1>2. ASSUME NEW c, NEW m, Reply(w, c, m)
        PROVE  worker'[w].job = worker[w].job /\ worker'[w].connected = c
    BY <1>2 DEF Reply, Replying, TypeOK
  <1>3. CASE \E m : Reply(w, TRUE, m) /\ net[worker[w].job]
    <2>1. worker[w].job \in seen.up
      BY <1>1, <1>3 DEF SeenNow
    <2>2. worker'[w].job = worker[w].job /\ worker'[w].connected = TRUE
      BY <1>2, <1>3
    <2> QED
      BY <2>1, <2>2, EvidenceGrows DEF Backed
  <1>4. CASE \E m : Reply(w, TRUE, m) /\ worker[w].job[2] \in tc.skip \cup tc.unaddressed
    <2>1. worker'[w].job = worker[w].job /\ worker'[w].connected = TRUE
      BY <1>2, <1>4
    <2> QED
      BY <1>4, <2>1, EvidenceGrows DEF Backed
  <1>5. CASE Fail(w)
    <2>1. worker'[w].job = worker[w].job /\ worker'[w].connected = FALSE
      BY <1>2, <1>5 DEF Fail
    <2>2. CASE ~net[worker[w].job]
      BY <1>1, <2>1, <2>2, EvidenceGrows DEF SeenNow, Backed
    <2>3. CASE net[worker[w].job]
      <3>1. seen' = [seen EXCEPT !.spoiled = @ \cup {worker[w].job}]
        BY <1>5, <2>3 DEF Fail
      <3>2. worker[w].job \in seen'.spoiled
        BY <3>1 DEF TypeOK
      <3> QED
        BY <2>1, <3>2 DEF Backed
    <2> QED
      BY <2>2, <2>3
  <1>6. CASE Skip(w)
    BY <1>4, <1>6 DEF Skip
  <1>7. CASE Connect(w)
    BY <1>3, <1>4, <1>5, <1>7 DEF Connect, Answers
  <1>8. CASE Netcat(w)
    <2>1. worker' = [worker EXCEPT ![w].tries = @ + 1] => worker'[w].pc = "probe"
      BY <1>1 DEF TypeOK, WorkerState
    <2> QED
      BY <1>3, <1>5, <1>8, <2>1 DEF Netcat
  <1>9. CASE Iperf(w)
    BY <1>3, <1>5, <1>9 DEF Iperf
  <1>10. Skip(w) \/ Connect(w) \/ Netcat(w) \/ Iperf(w)
    <2>1. worker'[w] # worker[w]
      OBVIOUS
    <2>2. ~Receive(w) /\ ~Exit(w) /\ ~Send(w)
      BY DEF Receive, Exit, Send, Receiving
    <2>3. ~ShortOutput(w)
      BY <2>1 DEF ShortOutput
    <2> QED
      BY <2>2, <2>3 DEF WorkerStep
  <1> QED
    BY <1>6, <1>7, <1>8, <1>9, <1>10
(* Any other goroutine keeps its reply, or has none.                       *)
LEMMA RepliesStep ==
  ASSUME TypeOK, SeenNow, RepliesBacked, [Next]_vars
  PROVE  RepliesBacked'
  <1> USE DEF env, channels, goroutines, caller, table, verdict
  <1>1. CASE Retry
    <2>1. worker' = [w \in Worker |-> Receiving]
      BY <1>1 DEF Retry, StartAttempt
    <2> QED
      BY <2>1 DEF RepliesBacked, Receiving
  <1>2. ASSUME ~Retry, NEW w \in Worker, worker'[w] = worker[w], worker[w].pc = "reply"
        PROVE  Backed(worker[w].job, worker[w].connected)'
    <2>1. Backed(worker[w].job, worker[w].connected)
      BY <1>2 DEF RepliesBacked
    <2> QED
      BY <1>2, <2>1, EvidenceGrows DEF Backed
  <1>3. ASSUME ~Retry, NEW w \in Worker, worker'[w].pc = "reply", worker'[w] # worker[w]
        PROVE  WorkerStep(w) /\ worker[w].pc = "probe"
    <2>1. \E v \in Worker : WorkerStep(v)
      BY <1>3 DEF Next, CallerStep, Terminating, Flip, Enqueue, CloseJobs, Collect,
         Finish, ExitLate, vars
    <2>2. PICK v \in Worker : WorkerStep(v)
      BY <2>1
    <2>3. v = w
      BY <1>3, <2>2 DEF WorkerStep, Receive, Exit, Skip, Connect, Netcat, Iperf,
         ShortOutput, Send, Reply, Fail, TypeOK
    <2>4. ~Receive(w) /\ ~Exit(w) /\ ~Send(w) /\ ~ShortOutput(w)
      BY <1>3 DEF Receive, Exit, Send, ShortOutput, Receiving, Exited, Probing, TypeOK
    <2> QED
      BY <2>2, <2>3, <2>4 DEF WorkerStep, Skip, Connect, Netcat, Iperf, AtProbe
  <1>4. ASSUME ~Retry, NEW w \in Worker, worker'[w].pc = "reply"
        PROVE  Backed(worker[w].job, worker[w].connected)'
    BY <1>2, <1>3, <1>4, ProbeIsBacked
  <1> QED
    BY <1>1, <1>4 DEF RepliesBacked

(* A result that is in the channel after a step was there, or was a reply. *)
LEMMA ResultsStep ==
  ASSUME TypeOK, RepliesBacked, ResultsBacked, [Next]_vars
  PROVE  ResultsBacked'
  <1> USE DEF env, channels, goroutines, caller, table, verdict
  <1>1. CASE Retry
    BY <1>1 DEF Retry, StartAttempt, ResultsBacked
  <1>2. /\ results \in Seq(Result)
        /\ DOMAIN results = 1 .. Len(results) /\ Len(results) \in Nat
    BY DEF TypeOK
  <1>3. CASE Collect
    <2>1. /\ results' = Tail(results) /\ results # <<>>
      BY <1>3 DEF Collect
    <2>2. \A k \in DOMAIN results' : k + 1 \in DOMAIN results /\ results'[k] = results[k + 1]
      BY <1>2, <2>1
    <2>3. \A k \in DOMAIN results : Backed(results[k].job, results[k].connected)
      BY DEF ResultsBacked
    <2>4. UNCHANGED <<tc, seen>>
      BY <1>3 DEF Collect
    <2> QED
      BY <2>2, <2>3, <2>4 DEF ResultsBacked, Backed
  <1>4. ASSUME NEW w \in Worker, Send(w) PROVE ResultsBacked'
    <2> DEFINE result == [job |-> worker[w].job, connected |-> worker[w].connected,
                          measured |-> worker[w].measured]
    <2>1. results' = Append(results, result) /\ UNCHANGED <<tc, seen>>
      BY <1>4 DEF Send
    <2>2. Backed(result.job, result.connected)
      BY <1>4 DEF RepliesBacked, Send
    <2> HIDE DEF result
    <2>3. \A k \in DOMAIN results' :
            results'[k] = result \/ (k \in DOMAIN results /\ results'[k] = results[k])
      <3>1. \A k \in DOMAIN results' :
              k \in DOMAIN results \/ k = Len(results) + 1
        BY <1>2, <2>1
      <3> QED
        BY <1>2, <2>1, <3>1
    <2> QED
      BY <2>1, <2>2, <2>3 DEF ResultsBacked, Backed
  <1>5. CASE ~Retry /\ UNCHANGED results
    <2>1. \A k \in DOMAIN results : Backed(results[k].job, results[k].connected)
      BY DEF ResultsBacked
    <2> QED
      BY <1>5, <2>1, EvidenceGrows DEF ResultsBacked, Backed
  <1>6. \/ Retry
        \/ Collect
        \/ \E w \in Worker : Send(w)
        \/ UNCHANGED results
    BY DEF Next, CallerStep, WorkerStep, Terminating, Flip, Enqueue, CloseJobs,
       Finish, Receive, Exit, ExitLate, Skip, Connect, Netcat, Iperf, ShortOutput, vars
  <1> QED
    BY <1>1, <1>3, <1>4, <1>5, <1>6

(* The table takes over the evidence of the result that is collected.      *)
LEMMA TableStep ==
  ASSUME TypeOK, JobsAreUnique, ResultsBacked, TableBacked, [Next]_vars
  PROVE  TableBacked'
  <1> USE DEF env, channels, goroutines, caller, table, verdict
  <1>1. CASE Retry
    <2>1. Uncollected' = Pair
      BY <1>1, RetryRestarts
    <2> QED
      BY <2>1 DEF TableBacked
  <1>2. CASE Collect
    <2> DEFINE result == Head(results)
    <2>1. Uncollected' = Uncollected \ {result.job}
      BY <1>2, CollectRemoves
    <2>2. /\ observed' = Set(observed, result.job, result.connected)
          /\ UNCHANGED <<tc, seen>>
      BY <1>2 DEF Collect
    <2>3. Backed(result.job, result.connected)
      <3>1. 1 \in DOMAIN results /\ result = results[1]
        BY <1>2 DEF Collect, TypeOK
      <3> QED
        BY <3>1 DEF ResultsBacked
    <2>4. ASSUME NEW pair \in Pair \ Uncollected'
          PROVE  pair \in DOMAIN observed' /\ Backed(pair, observed'[pair])
      <3>1. CASE pair = result.job
        BY <2>2, <2>3, <3>1 DEF Set
      <3>2. CASE pair # result.job
        <4>1. pair \in Pair \ Uncollected
          BY <2>1, <2>4, <3>2
        <4>2. pair \in DOMAIN observed /\ Backed(pair, observed[pair])
          BY <4>1 DEF TableBacked
        <4> QED
          BY <2>2, <3>2, <4>2 DEF Set
      <3> QED
        BY <3>1, <3>2
    <2> QED
      BY <2>2, <2>4 DEF TableBacked, Backed
  <1>3. CASE ~Retry /\ ~Collect
    <2>1. Uncollected' = Uncollected
      BY <1>3, JobsStep DEF Stay
    <2>2. observed' = observed
      BY <1>3 DEF Next, CallerStep, WorkerStep, Terminating, Flip, Enqueue, CloseJobs,
         Finish, Receive, Exit, ExitLate, Skip, Connect, Netcat, Iperf, ShortOutput,
         Send, vars
    <2> QED
      BY <1>3, <2>1, <2>2, EvidenceGrows DEF TableBacked, Backed
  <1> QED
    BY <1>1, <1>2, <1>3

LEMMA VerdictStep ==
  ASSUME TypeOK, VerdictCounts, [Next]_vars
  PROVE  VerdictCounts'
  <1> USE DEF env, channels, goroutines, caller, table, verdict
  <1>1. CASE Finish
    <2>1. wrong' = Cardinality(FalsePairs)
      BY <1>1, SameWrong DEF Finish
    <2>2. UNCHANGED <<tc, observed, bandwidth>>
      BY <1>1 DEF Finish
    <2>3. FalsePairs' = FalsePairs
      BY <2>2 DEF FalsePairs, FalseObs, IgnoredObs, Compare, TooSlow, Get
    <2> QED
      BY <2>1, <2>3 DEF VerdictCounts
  <1>2. ASSUME ~Finish, pc' = "done"
        PROVE  pc = "done" /\ UNCHANGED <<tc, observed, bandwidth, wrong>>
    BY <1>2 DEF Next, CallerStep, WorkerStep, Terminating, Flip, Enqueue, CloseJobs,
       Collect, Retry, StartAttempt, Receive, Exit, ExitLate, Skip, Connect, Netcat,
       Iperf, ShortOutput, Send, vars
  <1>3. ASSUME ~Finish, pc' = "done" PROVE FalsePairs' = FalsePairs
    BY <1>2, <1>3 DEF FalsePairs, FalseObs, IgnoredObs, Compare, TooSlow, Get
  <1> QED
    BY <1>1, <1>2, <1>3 DEF VerdictCounts

LEMMA EvidenceInit == Init => Evidence
  <1> SUFFICES ASSUME Init PROVE Evidence
    OBVIOUS
  <1>1. SeenNow
    <2>1. seen = NothingSeen(net)
      BY DEF Init
    <2> QED
      BY <2>1 DEF SeenNow, NothingSeen, Up
  <1>2. RepliesBacked
    BY DEF Init, RepliesBacked, Receiving
  <1>3. ResultsBacked
    BY DEF Init, ResultsBacked
  <1>4. TableBacked
    BY StartOfAttempt DEF Init, TableBacked
  <1>5. VerdictCounts
    BY DEF Init, VerdictCounts
  <1> QED
    BY <1>1, <1>2, <1>3, <1>4, <1>5 DEF Evidence

LEMMA EvidenceNext == Conserved /\ Evidence /\ [Next]_vars => Evidence'
  BY SeenNowStep, RepliesStep, ResultsStep, TableStep, VerdictStep
     DEF Conserved, Evidence

(* With the verdict every pair has been observed, and with evidence.       *)
Judged == pc = "done" => Uncollected = {} /\ TableBacked /\ VerdictCounts

(* In every reachable state a verdict is complete and backed.               *)
THEOREM EvidenceHolds == Spec => [](TypeOK /\ Judged)
  <1>1. Init => Complete
    BY DEF Init, Complete
  <1>2. Conserved /\ Complete /\ [Next]_vars => Complete'
    BY CompleteNext DEF Conserved
  <1>3. Conserved /\ Complete /\ Evidence => TypeOK /\ Judged
    BY AllCollected DEF Conserved, Complete, Evidence, Judged
  <1> QED
    BY <1>1, <1>2, <1>3, ConservedInit, ConservedNext, EvidenceInit, EvidenceNext,
       PTL DEF Spec

-----------------------------------------------------------------------------
(* A verdict without wrong pairs rests on the last attempt: what is        *)
(* expected to connect was up during it, what is expected to be blocked was*)
(* down or its probe failed on its own.                                    *)
THEOREM PassIsBacked == Spec => []PassIsBackedByTheLastAttempt
  <1>1. TypeOK /\ Judged => PassIsBackedByTheLastAttempt
    <2> SUFFICES ASSUME TypeOK, Judged, pc = "done", wrong = 0,
                        NEW pair \in Probed
                 PROVE  IF tc.expected[pair] THEN pair \in seen.up
                                             ELSE pair \in seen.down \cup seen.spoiled
      BY DEF PassIsBackedByTheLastAttempt
    <2>1. tc \in TestCase
      BY TestCaseAssumption DEF TypeOK
    <2>2. DOMAIN tc.expected = Pair /\ tc.expected \in [Pair -> BOOLEAN]
      BY <2>1 DEF TestCase
    <2>3. IsFiniteSet(FalsePairs)
      <3>1. FalsePairs \subseteq Pair
        BY <2>2 DEF FalsePairs, FalseObs
      <3> QED
        BY <3>1, PairsAreFinite, FS_Subset
    <2>4. FalsePairs = {}
      BY <2>3, FS_EmptySet DEF Judged, VerdictCounts
    <2>5. pair \in DOMAIN tc.expected \ IgnoredObs(tc.expected, tc.ignoreLoopback)
      BY <2>2 DEF Probed, Counted, IgnoredObs
    <2>6. tc.expected[pair] = Get(observed, pair)
      BY <2>4, <2>5 DEF FalsePairs, FalseObs, Compare
    <2>7. pair \in DOMAIN observed /\ Backed(pair, observed[pair])
      BY DEF Judged, TableBacked, Probed, Counted
    <2>8. tc.expected[pair] = observed[pair]
      BY <2>6, <2>7 DEF Get, TypeOK
    <2> QED
      BY <2>7, <2>8 DEF Backed, Probed
  <1> QED
    BY <1>1, EvidenceHolds, PTL

(* A verdict counts no pair as wrong without a cause in the last attempt.  *)
THEOREM FailureIsBacked == Spec => []FailureIsJustified
  <1>1. TypeOK /\ Judged => FailureIsJustified
    <2> SUFFICES ASSUME TypeOK, Judged, pc = "done"
                 PROVE  wrong <= Cardinality(Suspect)
      BY DEF FailureIsJustified
    <2>1. tc \in TestCase
      BY TestCaseAssumption DEF TypeOK
    <2>2. DOMAIN tc.expected = Pair /\ tc.expected \in [Pair -> BOOLEAN]
      BY <2>1 DEF TestCase
    <2>3. ASSUME NEW pair \in FalsePairs PROVE pair \in Suspect
      <3>1. pair \in Counted
        BY <2>2 DEF FalsePairs, FalseObs, IgnoredObs, Counted
      <3>2. pair \in Pair
        BY <3>1 DEF Counted
      <3>3. pair \in DOMAIN observed /\ Backed(pair, observed[pair])
        BY <3>2 DEF Judged, TableBacked
      <3>4. \/ tc.expected[pair] # observed[pair]
            \/ observed[pair] /\ bandwidth[pair] = "low"
        BY <3>2, <3>3, <2>2 DEF FalsePairs, FalseObs, Compare, TooSlow, Get, TypeOK
      <3>5. observed[pair] \in BOOLEAN /\ tc.expected[pair] \in BOOLEAN
        BY <2>2, <3>2, <3>3 DEF TypeOK
      <3>6. CASE tc.expected[pair]
        BY <3>1, <3>3, <3>4, <3>5, <3>6 DEF Suspect, Backed
      <3>7. CASE ~tc.expected[pair]
        BY <3>1, <3>3, <3>4, <3>5, <3>7 DEF Suspect, Backed
      <3> QED
        BY <3>6, <3>7
    <2>4. IsFiniteSet(Suspect)
      <3>1. Suspect \subseteq Pair
        BY DEF Suspect, Counted
      <3> QED
        BY <3>1, PairsAreFinite, FS_Subset
    <2>5. Cardinality(FalsePairs) <= Cardinality(Suspect)
      BY <2>3, <2>4, FS_Subset
    <2> QED
      BY <2>5 DEF Judged, VerdictCounts
  <1> QED
    BY <1>1, EvidenceHolds, PTL

-----------------------------------------------------------------------------
(* The printed summary is of the table that the verdict was taken from.     *)
Unflagged == FalseObs(tc.expected, observed, bandwidth, FALSE, FALSE)

ReportCounts ==
  pc = "done" => report = Summary(tc.expected, observed, bandwidth, FALSE, FALSE)

LEMMA ReportStep ==
  ASSUME ReportCounts, [Next]_vars
  PROVE  ReportCounts'
  <1> USE DEF env, channels, goroutines, caller, table, verdict
  <1>1. CASE Finish
    BY <1>1 DEF Finish, ReportCounts
  <1>2. ASSUME ~Finish, pc' = "done"
        PROVE  pc = "done" /\ UNCHANGED <<tc, observed, bandwidth, report>>
    BY <1>2 DEF Next, CallerStep, WorkerStep, Terminating, Flip, Enqueue, CloseJobs,
       Collect, Retry, StartAttempt, Receive, Exit, ExitLate, Skip, Connect, Netcat,
       Iperf, ShortOutput, Send, vars
  <1> QED
    BY <1>1, <1>2 DEF ReportCounts

(* The numbers in the log are of the whole matrix; they contradict the      *)
(* verdict only about a slow measurement or an ignored hairpin pair          *)
(* (reachability.go:54).                                                   *)
THEOREM LogAgrees == Spec => []LogSaysTheVerdict
  <1>1. Init => ReportCounts
    BY DEF Init, ReportCounts
  <1>2. ReportCounts /\ [Next]_vars => ReportCounts'
    BY ReportStep
  <1>3. TypeOK /\ Judged /\ ReportCounts => LogSaysTheVerdict
    <2> SUFFICES ASSUME TypeOK, Judged, ReportCounts, pc = "done"
                 PROVE  /\ report.right + report.wrong = Size
                        /\ wrong > 0 /\ tc.mode # "iperf" => report.wrong > 0
                        /\ wrong = 0 /\ ~tc.ignoreLoopback => report.wrong = 0
      BY DEF LogSaysTheVerdict
    <2>1. tc \in TestCase
      BY TestCaseAssumption DEF TypeOK
    <2>2. DOMAIN tc.expected = Pair /\ tc.ignoreLoopback \in BOOLEAN
      BY <2>1 DEF TestCase
    <2>3. FalsePairs \subseteq Pair /\ Unflagged \subseteq Pair
      BY <2>2 DEF FalsePairs, Unflagged, FalseObs
    <2>4. /\ IsFiniteSet(FalsePairs) /\ IsFiniteSet(Unflagged)
          /\ Cardinality(FalsePairs) \in Nat /\ Cardinality(Unflagged) \in Nat
      BY <2>3, PairsAreFinite, FS_Subset, FS_CardinalityType
    <2>5. /\ report.wrong = Cardinality(Unflagged)
          /\ report.right = Cardinality(Pair \ Unflagged)
      <3> DEFINE right == TrueObs(tc.expected, observed, bandwidth, FALSE, FALSE)
                 ignored == IgnoredObs(tc.expected, FALSE)
      <3>1. right = Pair \ Unflagged
        BY <2>2 DEF TrueObs, Unflagged, IgnoredObs
      <3>2. report = [right |-> Cardinality(right), wrong |-> Cardinality(Unflagged),
                      ignored |-> Cardinality(ignored)]
        BY DEF ReportCounts, Summary, Unflagged
      <3> HIDE DEF right, ignored
      <3> QED
        BY <3>1, <3>2
    <2>6. wrong = Cardinality(FalsePairs)
      BY DEF Judged, VerdictCounts
    <2>7. report.right + report.wrong = Size
      <3>1. Pair \cap Unflagged = Unflagged
        BY <2>3
      <3>2. Cardinality(Pair \ Unflagged) = Size - Cardinality(Unflagged)
        BY <3>1, PairsAreFinite, FS_Difference
      <3> QED
        BY <2>4, <2>5, <3>2, PairsAreFinite
    <2>8. ASSUME wrong > 0, tc.mode # "iperf" PROVE report.wrong > 0
      <3>1. FalsePairs \subseteq Unflagged
        BY <2>2, <2>8 DEF FalsePairs, Unflagged, FalseObs, IgnoredObs
      <3>2. Cardinality(FalsePairs) <= Cardinality(Unflagged)
        BY <2>4, <3>1, FS_Subset
      <3> QED
        BY <2>4, <2>5, <2>6, <2>8, <3>2
    <2>9. ASSUME wrong = 0, ~tc.ignoreLoopback PROVE report.wrong = 0
      <3>1. Unflagged \subseteq FalsePairs
        BY <2>2, <2>9 DEF FalsePairs, Unflagged, FalseObs, IgnoredObs
      <3>2. Cardinality(Unflagged) <= Cardinality(FalsePairs)
        BY <2>4, <3>1, FS_Subset
      <3> QED
        BY <2>4, <2>5, <2>6, <2>9, <3>2
    <2> QED
      BY <2>7, <2>8, <2>9
  <1> QED
    BY <1>1, <1>2, <1>3, EvidenceHolds, PTL DEF Spec
-----------------------------------------------------------------------------
(* A pair whose probe failed on its own is one that said so.               *)
SpoiledAreFalse ==
  /\ \A pair \in Unsent \cup Queued : pair \notin seen.spoiled
  /\ \A w \in Worker :
       worker[w].pc = "probe" \/ (worker[w].pc = "reply" /\ worker[w].connected)
         => worker[w].job \notin seen.spoiled
  /\ \A k \in DOMAIN results : results[k].connected => results[k].job \notin seen.spoiled
  /\ \A pair \in Pair \ Uncollected : Get(observed, pair) => pair \notin seen.spoiled

(* Steps that send and collect nothing, and during which no probe fails.   *)
LEMMA SpoiledKept ==
  ASSUME SpoiledAreFalse, seen'.spoiled = seen.spoiled,
         UNCHANGED <<results, observed, Uncollected>>,
         (Unsent \cup Queued)' \subseteq Unsent \cup Queued,
         \A w \in Worker : \/ worker'[w] = worker[w]
                           \/ worker'[w].pc \notin {"probe", "reply"}
                           \/ worker'[w].job \in Queued
                           \/ worker[w].pc = "probe" /\ worker'[w].job = worker[w].job
  PROVE  SpoiledAreFalse'
  BY DEF SpoiledAreFalse, Get

(* A failing probe: its pair is in the hands of this goroutine alone.      *)
LEMMA SpoiledByFail ==
  ASSUME Conserved, SpoiledAreFalse, NEW w \in Worker, worker[w].pc = "probe", Fail(w),
         UNCHANGED <<channels, caller, table>>
  PROVE  SpoiledAreFalse'
  <1> USE DEF Conserved, channels, caller, table
  <1>1. /\ worker'[w].job = worker[w].job /\ worker'[w].connected = FALSE
        /\ worker'[w].pc = "reply"
        /\ \A v \in Worker \ {w} : worker'[v] = worker[v]
    BY DEF Fail, Reply, Replying, TypeOK
  <1>2. seen'.spoiled = seen.spoiled \/ seen'.spoiled = seen.spoiled \cup {worker[w].job}
    BY DEF Fail, TypeOK
  <1>3. w \in Busy /\ Busy' = Busy
    BY <1>1 DEF Busy
  <1>4. worker[w].job \in Held /\ Held' = Held
    BY <1>1, <1>3 DEF Held, Busy
  <1>5. /\ worker[w].job \notin Unsent \cup Queued \cup Replied
        /\ worker[w].job \in Uncollected
        /\ \A v \in Busy \ {w} : worker[v].job # worker[w].job
    BY <1>3, <1>4 DEF JobsAreUnique, Uncollected
  <1>6. Unsent' = Unsent /\ Queued' = Queued /\ Replied' = Replied
    BY DEF Unsent, Queued, Replied
  <1>7. Uncollected' = Uncollected
    BY <1>4, <1>6 DEF Uncollected
  <1>8. \A k \in DOMAIN results : results[k].job # worker[w].job
    BY <1>5 DEF Replied
  <1>9. \A v \in Worker \ {w} :
          worker[v].pc \in {"probe", "reply"} => worker[v].job # worker[w].job
    BY <1>5 DEF Busy
  <1>10. \A pair \in (Unsent \cup Queued)' : pair \notin seen'.spoiled
    BY <1>2, <1>5, <1>6 DEF SpoiledAreFalse
  <1>11. \A v \in Worker :
           worker'[v].pc = "probe" \/ (worker'[v].pc = "reply" /\ worker'[v].connected)
             => worker'[v].job \notin seen'.spoiled
    BY <1>1, <1>2, <1>9 DEF SpoiledAreFalse
  <1>12. \A k \in DOMAIN results' :
           results'[k].connected => results'[k].job \notin seen'.spoiled
    BY <1>2, <1>8 DEF SpoiledAreFalse
  <1>13. \A pair \in Pair \ Uncollected' : Get(observed', pair) => pair \notin seen'.spoiled
    BY <1>2, <1>5, <1>7 DEF SpoiledAreFalse
  <1> QED
    BY <1>10, <1>11, <1>12, <1>13 DEF SpoiledAreFalse

LEMMA SpoiledBySend ==
  ASSUME Conserved, SpoiledAreFalse, NEW w \in Worker, Send(w)
  PROVE  SpoiledAreFalse'
  <1> USE DEF Conserved, env, caller, table
  <1> DEFINE result == [job |-> worker[w].job, connected |-> worker[w].connected,
                        measured |-> worker[w].measured]
  <1>1. UNCHANGED <<cursor, jobs, observed, seen>>
    BY DEF Send
  <1>2. Unsent' = Unsent /\ Queued' = Queued
    BY <1>1 DEF Unsent, Queued
  <1>3. Uncollected' = Uncollected
    BY SendStays DEF Stay
  <1>4. \A v \in Worker : worker'[v] = worker[v] \/ worker'[v].pc \notin {"probe", "reply"}
    BY BusyStates DEF Send, TypeOK
  <1>5. result.connected => result.job \notin seen.spoiled
    BY DEF Send, SpoiledAreFalse
  <1> HIDE DEF result
  <1>6. /\ results \in Seq(Result) /\ results' = Append(results, result)
        /\ DOMAIN results = 1 .. Len(results) /\ Len(results) \in Nat
    BY DEF Send, TypeOK, result
  <1>7. \A k \in DOMAIN results' :
          results'[k] = result \/ (k \in DOMAIN results /\ results'[k] = results[k])
    <2>1. \A k \in DOMAIN results' : k \in DOMAIN results \/ k = Len(results) + 1
      BY <1>6
    <2> QED
      BY <1>6, <2>1
  <1> QED
    BY <1>1, <1>2, <1>3, <1>4, <1>5, <1>7 DEF SpoiledAreFalse, Get

LEMMA SpoiledByCollect ==
  ASSUME Conserved, SpoiledAreFalse, Collect
  PROVE  SpoiledAreFalse'
  <1> USE DEF Conserved, env, channels, goroutines, caller, table
  <1> DEFINE result == Head(results)
  <1>1. UNCHANGED <<cursor, jobs, worker, seen>>
    BY DEF Collect
  <1>2. Unsent' = Unsent /\ Queued' = Queued
    BY <1>1 DEF Unsent, Queued
  <1>3. Uncollected' = Uncollected \ {result.job}
    BY CollectRemoves
  <1>4. /\ DOMAIN results = 1 .. Len(results) /\ Len(results) \in Nat \ {0}
        /\ result = results[1] /\ results' = Tail(results)
    BY DEF Collect, TypeOK
  <1>5. \A k \in DOMAIN results' : k + 1 \in DOMAIN results /\ results'[k] = results[k + 1]
    BY <1>4 DEF TypeOK
  <1>6. 1 \in DOMAIN results
    BY <1>4
  <1>7. result.connected => result.job \notin seen.spoiled
    BY <1>4, <1>6 DEF SpoiledAreFalse
  <1>8. observed' = Set(observed, result.job, result.connected)
    BY DEF Collect
  <1> HIDE DEF result
  <1>9. \A pair \in Pair \ Uncollected' : Get(observed', pair) => pair \notin seen'.spoiled
    BY <1>1, <1>3, <1>7, <1>8 DEF SpoiledAreFalse, Set, Get
  <1> QED
    BY <1>1, <1>2, <1>5, <1>9 DEF SpoiledAreFalse

LEMMA SpoiledStep ==
  ASSUME Conserved, SpoiledAreFalse, [Next]_vars
  PROVE  SpoiledAreFalse'
  <1> USE DEF Conserved, env, channels, goroutines, caller, table, verdict
  <1>1. CASE Retry
    <2>1. seen'.spoiled = {}
      BY <1>1 DEF Retry, StartAttempt, NothingSeen
    <2> QED
      BY <2>1 DEF SpoiledAreFalse
  <1>2. CASE Collect
    BY <1>2, SpoiledByCollect
  <1>3. ASSUME NEW w \in Worker, Send(w) PROVE SpoiledAreFalse'
    BY <1>3, SpoiledBySend
  <1>4. ASSUME NEW w \in Worker, AtProbe(w, tc.mode), Fail(w), UNCHANGED <<channels, caller, table>>
        PROVE  SpoiledAreFalse'
    BY <1>4, SpoiledByFail DEF AtProbe
  <1>5. ASSUME Stay, UNCHANGED <<results, observed, cursor, jobs>>, seen'.spoiled = seen.spoiled,
               \A w \in Worker : \/ worker'[w] = worker[w]
                                 \/ worker'[w].pc \notin {"probe", "reply"}
                                 \/ worker[w].pc = "probe" /\ worker'[w].job = worker[w].job
        PROVE  SpoiledAreFalse'
    <2>1. Uncollected' = Uncollected
      BY <1>5 DEF Stay
    <2>2. Unsent' = Unsent /\ Queued' = Queued
      BY <1>5 DEF Unsent, Queued
    <2> QED
      BY <1>5, <2>1, <2>2, SpoiledKept
  <1>6. CASE ~Retry /\ ~Collect
    <2>1. Stay
      BY <1>6, JobsStep
    <2>2. ASSUME NEW pair \in Pair, Flip(pair) PROVE SpoiledAreFalse'
      <3>1. seen'.spoiled = seen.spoiled
        BY <2>2 DEF Flip, TypeOK
      <3> QED
        BY <1>5, <2>1, <2>2, <3>1 DEF Flip
    <2>3. CASE Enqueue
      <3>1. (Unsent \cup Queued)' \subseteq Unsent \cup Queued
        <4>1. cursor \in Unsent /\ Unsent' = Unsent \ {cursor}
          BY <2>3, CursorLeavesUnsent DEF Enqueue, TypeOK
        <4>2. Queued' = Queued \cup {cursor}
          BY <2>3, AppendElements DEF Enqueue, TypeOK, Queued
        <4> QED
          BY <4>1, <4>2
      <3> QED
        BY <2>1, <2>3, <3>1, SpoiledKept DEF Enqueue, Stay
    <2>4. CASE CloseJobs
      BY <1>5, <2>1, <2>4 DEF CloseJobs
    <2>5. CASE Finish
      BY <1>5, <2>1, <2>5 DEF Finish
    <2>6. ASSUME NEW w \in Worker, worker[w].pc = "probe", NEW c, NEW m, Reply(w, c, m),
                 UNCHANGED <<seen, channels, caller, table>>
          PROVE  SpoiledAreFalse'
      <3>1. /\ worker'[w].job = worker[w].job
            /\ \A v \in Worker \ {w} : worker'[v] = worker[v]
        BY <2>6 DEF Reply, Replying, TypeOK
      <3> QED
        BY <1>5, <2>1, <2>6, <3>1
    <2>7. ASSUME NEW w \in Worker, WorkerStep(w) PROVE SpoiledAreFalse'
      <3>1. CASE Receive(w)
        <4>1. Head(jobs) \in Queued /\ Queued' \subseteq Queued
          BY <3>1, TailElements DEF Receive, Queued, TypeOK
        <4>2. Unsent' = Unsent
          BY <3>1 DEF Receive, Unsent
        <4>3. worker'[w].job \in Queued /\ \A v \in Worker \ {w} : worker'[v] = worker[v]
          BY <3>1, <4>1 DEF Receive, Probing, TypeOK
        <4> QED
          BY <2>1, <3>1, <4>1, <4>2, <4>3, SpoiledKept DEF Receive, Stay
      <3>2. CASE Exit(w)
        <4>1. \A v \in Worker : worker'[v] = worker[v] \/ worker'[v].pc \notin {"probe", "reply"}
          BY <3>2, BusyStates DEF Exit, TypeOK
        <4> QED
          BY <1>5, <2>1, <3>2, <4>1 DEF Exit
      <3>3. CASE Skip(w)
        BY <2>6, <3>3 DEF Skip
      <3>4. CASE Connect(w)
        BY <1>4, <2>6, <3>4 DEF Connect, AtProbe
      <3>5. CASE Netcat(w)
        <4>1. CASE worker' = [worker EXCEPT ![w].tries = @ + 1] /\ UNCHANGED seen
          <5>1. worker[w] \in WorkerState /\ worker[w].pc = "probe"
            BY <3>5 DEF Netcat, AtProbe, TypeOK
          <5>2. /\ worker'[w].job = worker[w].job
                /\ \A v \in Worker \ {w} : worker'[v] = worker[v]
            BY <4>1, <5>1 DEF TypeOK, WorkerState
          <5> QED
            BY <1>5, <2>1, <3>5, <4>1, <5>1, <5>2 DEF Netcat
        <4> QED
          BY <1>4, <2>6, <3>5, <4>1 DEF Netcat, AtProbe
      <3>6. CASE Iperf(w)
        BY <1>4, <2>6, <3>6 DEF Iperf, AtProbe
      <3>7. CASE ShortOutput(w)
        BY <1>5, <2>1, <3>7 DEF ShortOutput
      <3>8. CASE Send(w)
        BY <1>3, <3>8
      <3> QED
        BY <2>7, <3>1, <3>2, <3>3, <3>4, <3>5, <3>6, <3>7, <3>8 DEF WorkerStep
    <2>8. ASSUME NEW w \in Worker, ExitLate(w) PROVE SpoiledAreFalse'
      BY <1>5, <2>1, <2>8 DEF ExitLate
    <2>9. CASE UNCHANGED vars
      BY <1>5, <2>1, <2>9 DEF vars
    <2> QED
      BY <1>6, <2>2, <2>3, <2>4, <2>5, <2>7, <2>8, <2>9 DEF Next, CallerStep, Terminating
  <1> QED
    BY <1>1, <1>2, <1>6

(* An attempt, of any size and in any interleaving, ends with one of the   *)
(* tables that the two callers of the pool count with: complete, of this   *)
(* attempt, and true of a moment of it.                                    *)
THEOREM AttemptsKeepTheirPromise == Spec => []TableIsOfTheAttempt
  <1>1. Init => SpoiledAreFalse /\ Complete
    BY DEF Init, SpoiledAreFalse, NothingSeen, Complete
  <1>2. Conserved /\ SpoiledAreFalse /\ [Next]_vars => SpoiledAreFalse'
    BY SpoiledStep
  <1>3. Conserved /\ Complete /\ [Next]_vars => Complete'
    BY CompleteNext DEF Conserved
  <1>4. Conserved /\ Complete /\ Evidence /\ SpoiledAreFalse => TableIsOfTheAttempt
    <2> SUFFICES ASSUME Conserved, Complete, Evidence, SpoiledAreFalse, collected = Size
                 PROVE  observed \in Observations(Pair, seen.up \cup Waived, seen.down, seen.spoiled)
      BY DEF TableIsOfTheAttempt, Complete
    <2>1. Uncollected = {}
      BY AllCollected
    <2>2. \A pair \in Pair : pair \in DOMAIN observed /\ Backed(pair, observed[pair])
      BY <2>1 DEF Evidence, TableBacked
    <2>3. observed \in [Pair -> BOOLEAN]
      BY <2>2 DEF Conserved, TypeOK
    <2>4. \A pair \in Pair : observed[pair] => pair \notin seen.spoiled
      BY <2>1, <2>2 DEF SpoiledAreFalse, Get
    <2> QED
      BY <2>2, <2>3, <2>4 DEF Observations, Backed, Waived
  <1> QED
    BY <1>1, <1>2, <1>3, <1>4, ConservedInit, ConservedNext, EvidenceInit, EvidenceNext,
       PTL DEF Spec

=============================================================================
