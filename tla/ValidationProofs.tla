-------------------------- MODULE ValidationProofs --------------------------
(***************************************************************************)
(* Theorems about Validation, for any number of pods, goroutines and test  *)
(* cases.                                                                  *)
(***************************************************************************)
EXTENDS Validation, FiniteSetTheorems, TLAPS

USE NAssumption DEF Pod

-----------------------------------------------------------------------------
(* The matrix is finite, and Size is the number of its pairs.              *)
LEMMA PairsAreFinite == IsFiniteSet(Pair) /\ Cardinality(Pair) = Size /\ Size \in Nat
  <1>1. IsFiniteSet(1 .. N) /\ Cardinality(1 .. N) = N
    BY FS_Interval
  <1>2. IsFiniteSet(Pair) /\ Cardinality(Pair) = N * N
    BY <1>1, FS_Product DEF Pair
  <1>3. N * N \in Nat
    BY <1>2, FS_CardinalityType
  <1> QED
    BY <1>2, <1>3 DEF Size

(* Every set of false, true or ignored observations is a set of pairs, so  *)
(* that its cardinality is a number of at most Size.                       *)
LEMMA SummaryType ==
  ASSUME NEW expected, DOMAIN expected = Pair,
         NEW o, NEW b, NEW i \in BOOLEAN, NEW m \in BOOLEAN
  PROVE  Summary(expected, o, b, i, m) \in [right : Nat, wrong : Nat, ignored : Nat]
  <1>1. \A S \in SUBSET Pair : Cardinality(S) \in Nat
    BY PairsAreFinite, FS_Subset, FS_CardinalityType
  <1>2. /\ FalseObs(expected, o, b, i, m) \in SUBSET Pair
        /\ TrueObs(expected, o, b, i, m) \in SUBSET Pair
        /\ IgnoredObs(expected, i) \in SUBSET Pair
    BY DEF FalseObs, TrueObs, IgnoredObs
  <1> QED
    BY <1>1, <1>2 DEF Summary

(* A goroutine is in one of the four places of its loop, and busy in two.  *)
LEMMA WorkerStates ==
  ASSUME NEW s \in WorkerState
  PROVE  /\ s.pc \in {"receive", "exited", "probe", "reply"}
         /\ s.pc = "probe" => s.job \in Pair /\ s.tries \in 0 .. MaxRetries - 1
         /\ s.pc = "reply" => s.job \in Pair /\ s.connected \in BOOLEAN
                                             /\ s.measured \in Bandwidth
  BY DEF WorkerState

LEMMA WorkerStateConstructors ==
  /\ Receiving \in WorkerState
  /\ Exited \in WorkerState
  /\ \A job \in Pair, tries \in 0 .. MaxRetries - 1 :
       Probing(job, tries) \in WorkerState
  /\ \A job \in Pair, connected \in BOOLEAN, measured \in Bandwidth :
       Replying(job, connected, measured) \in WorkerState
  BY DEF WorkerState, Receiving, Exited, Probing, Replying

(* The cursor runs over the matrix row by row and ends below it.           *)
LEMMA CursorAdvances ==
  ASSUME cursor \in Pair
  PROVE  NextCursor \in Pair \cup {<<N + 1, 1>>}
  BY DEF Pair, NextCursor

-----------------------------------------------------------------------------
(* Type correctness, one step per action.                                  *)
LEMMA TypeInit == Init => TypeOK
  <1> SUFFICES ASSUME Init PROVE TypeOK
    OBVIOUS
  <1> USE TestCaseAssumption, NetworksAssumption, MaxUpsetsAssumption DEF Init
  <1>1. cursor \in Pair \cup {<<N + 1, 1>>}
    BY DEF Pair
  <1>2. worker \in [Worker -> WorkerState]
    BY WorkerStateConstructors
  <1>3. seen \in [up : SUBSET Pair, down : SUBSET Pair, spoiled : SUBSET Pair]
    BY DEF NothingSeen, Up
  <1>4. bandwidth \in [Pair -> Bandwidth]
    BY DEF Bandwidth
  <1>5. /\ DOMAIN observed \subseteq Pair
        /\ observed \in [DOMAIN observed -> BOOLEAN]
    BY DEF EmptyTable
  <1>6. jobs \in Seq(Pair) /\ results \in Seq(Result)
    OBVIOUS
  <1>7. /\ tc \in TestCases
        /\ net \in [Pair -> BOOLEAN]
        /\ upsets \in 0 .. MaxUpsets
        /\ collected \in 0 .. Size
        /\ report \in [right : Nat, wrong : Nat, ignored : Nat]
    BY PairsAreFinite
  <1> QED
    BY <1>1, <1>2, <1>3, <1>4, <1>5, <1>6, <1>7 DEF TypeOK

(* What the collecting loop writes keeps the type of the tables.           *)
LEMMA SetType ==
  ASSUME NEW t, DOMAIN t \subseteq Pair, t \in [DOMAIN t -> BOOLEAN],
         NEW pair \in Pair, NEW value \in BOOLEAN
  PROVE  /\ DOMAIN Set(t, pair, value) \subseteq Pair
         /\ Set(t, pair, value) \in [DOMAIN Set(t, pair, value) -> BOOLEAN]
  BY DEF Set

(* A step of a goroutine that only replaces that goroutine's state.        *)
LEMMA WorkerUpdate ==
  ASSUME worker \in [Worker -> WorkerState], NEW w \in Worker, NEW s \in WorkerState
  PROVE  [worker EXCEPT ![w] = s] \in [Worker -> WorkerState]
  OBVIOUS

LEMMA ReplyType ==
  ASSUME TypeOK, NEW w \in Worker, worker[w].pc = "probe",
         NEW c \in BOOLEAN, NEW m \in Bandwidth, Reply(w, c, m)
  PROVE  worker' \in [Worker -> WorkerState]
  <1>1. worker[w].job \in Pair
    BY WorkerStates DEF TypeOK
  <1> QED
    BY <1>1, WorkerStateConstructors DEF Reply, TypeOK

LEMMA FailType ==
  ASSUME TypeOK, NEW w \in Worker, worker[w].pc = "probe", Fail(w)
  PROVE  /\ worker' \in [Worker -> WorkerState]
         /\ upsets' \in 0 .. MaxUpsets
         /\ seen' \in [up : SUBSET Pair, down : SUBSET Pair, spoiled : SUBSET Pair]
  <1>1. worker[w].job \in Pair
    BY WorkerStates DEF TypeOK
  <1>2. worker' \in [Worker -> WorkerState]
    BY ReplyType DEF Fail, Bandwidth
  <1>3. upsets' \in 0 .. MaxUpsets
    BY MaxUpsetsAssumption DEF Fail, TypeOK
  <1>4. seen' \in [up : SUBSET Pair, down : SUBSET Pair, spoiled : SUBSET Pair]
    BY <1>1 DEF Fail, TypeOK
  <1> QED
    BY <1>2, <1>3, <1>4

LEMMA TypeNext == TypeOK /\ [Next]_vars => TypeOK'
  <1> SUFFICES ASSUME TypeOK, [Next]_vars PROVE TypeOK'
    OBVIOUS
  <1> USE DEF env, channels, goroutines, caller, table, verdict
  <1>1. ASSUME NEW pair \in Pair, Flip(pair) PROVE TypeOK'
    <2>1. upsets' \in 0 .. MaxUpsets /\ net' \in [Pair -> BOOLEAN]
      BY <1>1, MaxUpsetsAssumption DEF Flip, TypeOK
    <2>2. seen' \in [up : SUBSET Pair, down : SUBSET Pair, spoiled : SUBSET Pair]
      BY <1>1 DEF Flip, TypeOK
    <2> QED
      BY <1>1, <2>1, <2>2 DEF Flip, TypeOK
  <1>2. CASE Enqueue
    <2>1. cursor \in Pair
      BY <1>2 DEF Enqueue, TypeOK
    <2>2. cursor' \in Pair \cup {<<N + 1, 1>>} /\ jobs' \in Seq(Pair)
      BY <1>2, <2>1, CursorAdvances DEF Enqueue, TypeOK
    <2> QED
      BY <1>2, <2>2 DEF Enqueue, TypeOK
  <1>3. CASE CloseJobs
    BY <1>3 DEF CloseJobs, TypeOK
  <1>4. CASE Collect
    <2>1. Head(results) \in Result /\ Tail(results) \in Seq(Result)
      BY <1>4 DEF Collect, TypeOK
    <2>2. /\ DOMAIN observed' \subseteq Pair
          /\ observed' \in [DOMAIN observed' -> BOOLEAN]
      BY <1>4, <2>1, SetType DEF Collect, TypeOK, Result
    <2>3. bandwidth' \in [Pair -> Bandwidth]
      BY <1>4, <2>1 DEF Collect, TypeOK, Result
    <2>4. collected' \in 0 .. Size
      BY <1>4, PairsAreFinite DEF Collect, TypeOK
    <2> QED
      BY <1>4, <2>1, <2>2, <2>3, <2>4 DEF Collect, TypeOK
  <1>5. CASE Retry
    <2>1. worker' \in [Worker -> WorkerState]
      BY <1>5, WorkerStateConstructors DEF Retry, StartAttempt
    <2>2. seen' \in [up : SUBSET Pair, down : SUBSET Pair, spoiled : SUBSET Pair]
      BY <1>5 DEF Retry, StartAttempt, NothingSeen, Up
    <2>3. cursor' \in Pair \cup {<<N + 1, 1>>} /\ collected' \in 0 .. Size
      BY <1>5, PairsAreFinite DEF Retry, StartAttempt, Pair
    <2>4. jobs' \in Seq(Pair) /\ results' \in Seq(Result)
      BY <1>5 DEF Retry, StartAttempt
    <2>5. /\ closed' \in BOOLEAN
          /\ lingering' \subseteq Worker
          /\ pc' = "send"
          /\ round' \in {1, 2}
      BY <1>5 DEF Retry, StartAttempt
    <2>6. UNCHANGED <<tc, net, upsets, observed, bandwidth, wrong, report>>
      BY <1>5 DEF Retry
    <2> QED
      BY <2>1, <2>2, <2>3, <2>4, <2>5, <2>6 DEF TypeOK
  <1>6. CASE Finish
    <2>1. DOMAIN tc.expected = Pair /\ tc.ignoreLoopback \in BOOLEAN
      BY TestCaseAssumption DEF TypeOK, TestCase
    <2>2. /\ report' \in [right : Nat, wrong : Nat, ignored : Nat]
          /\ wrong' \in Nat
      BY <1>6, <2>1, SummaryType DEF Finish
    <2> QED
      BY <1>6, <2>2 DEF Finish, TypeOK
  <1>7. ASSUME NEW w \in Worker, WorkerStep(w) PROVE TypeOK'
    <2>1. CASE Receive(w)
      <3>1. Head(jobs) \in Pair /\ Tail(jobs) \in Seq(Pair)
        BY <2>1 DEF Receive, TypeOK
      <3>2. worker' \in [Worker -> WorkerState]
        BY <2>1, <3>1, WorkerStateConstructors, MaxRetriesAssumption
           DEF Receive, TypeOK
      <3> QED
        BY <2>1, <3>1, <3>2 DEF Receive, TypeOK
    <2>2. CASE Exit(w)
      BY <2>2, WorkerStateConstructors DEF Exit, TypeOK
    <2>3. CASE Skip(w)
      <3>1. worker' \in [Worker -> WorkerState]
        BY <2>3, ReplyType DEF Skip, Bandwidth
      <3> QED
        BY <2>3, <3>1 DEF Skip, TypeOK
    <2>4. CASE Connect(w)
      <3>1. CASE Reply(w, TRUE, "nil") /\ UNCHANGED <<upsets, seen>>
        <4>1. worker' \in [Worker -> WorkerState]
          BY <2>4, <3>1, ReplyType DEF Connect, AtProbe, Bandwidth
        <4> QED
          BY <2>4, <3>1, <4>1 DEF Connect, TypeOK
      <3>2. CASE Fail(w)
        BY <2>4, <3>2, FailType DEF Connect, AtProbe, TypeOK
      <3> QED
        BY <2>4, <3>1, <3>2 DEF Connect
    <2>5. CASE Netcat(w)
      <3>1. CASE Reply(w, TRUE, "nil") /\ UNCHANGED <<upsets, seen>>
        <4>1. worker' \in [Worker -> WorkerState]
          BY <2>5, <3>1, ReplyType DEF Netcat, AtProbe, Bandwidth
        <4> QED
          BY <2>5, <3>1, <4>1 DEF Netcat, TypeOK
      <3>2. CASE Fail(w)
        BY <2>5, <3>2, FailType DEF Netcat, AtProbe, TypeOK
      <3>3. CASE /\ worker[w].tries + 1 < MaxRetries
                 /\ worker' = [worker EXCEPT ![w].tries = @ + 1]
                 /\ UNCHANGED <<upsets, seen>>
        <4>1. [worker[w] EXCEPT !.tries = @ + 1] \in WorkerState
          BY <2>5, <3>3, MaxRetriesAssumption DEF Netcat, AtProbe, TypeOK, WorkerState
        <4>2. worker' \in [Worker -> WorkerState]
          BY <3>3, <4>1 DEF TypeOK
        <4> QED
          BY <2>5, <3>3, <4>2 DEF Netcat, TypeOK
      <3> QED
        BY <2>5, <3>1, <3>2, <3>3 DEF Netcat
    <2>6. CASE Iperf(w)
      <3>1. ASSUME NEW m \in {"low", "high"}, Reply(w, TRUE, m), UNCHANGED <<upsets, seen>>
            PROVE  TypeOK'
        <4>1. worker' \in [Worker -> WorkerState]
          BY <2>6, <3>1, ReplyType DEF Iperf, AtProbe, Bandwidth
        <4> QED
          BY <2>6, <3>1, <4>1 DEF Iperf, TypeOK
      <3>2. CASE Fail(w)
        BY <2>6, <3>2, FailType DEF Iperf, AtProbe, TypeOK
      <3> QED
        BY <2>6, <3>1, <3>2 DEF Iperf
    <2>7. CASE ShortOutput(w)
      BY <2>7 DEF ShortOutput, TypeOK
    <2>8. CASE Send(w)
      <3>1. worker[w] \in WorkerState
        BY DEF TypeOK
      <3>2. [job |-> worker[w].job, connected |-> worker[w].connected,
             measured |-> worker[w].measured] \in Result
        BY <2>8, <3>1, WorkerStates DEF Send, Result
      <3>3. results' \in Seq(Result)
        BY <2>8, <3>2 DEF Send, TypeOK
      <3>4. worker' \in [Worker -> WorkerState]
        BY <2>8, WorkerStateConstructors DEF Send, TypeOK
      <3> QED
        BY <2>8, <3>3, <3>4 DEF Send, TypeOK
    <2> QED
      BY <1>7, <2>1, <2>2, <2>3, <2>4, <2>5, <2>6, <2>7, <2>8 DEF WorkerStep
  <1>8. ASSUME NEW w \in Worker, ExitLate(w) PROVE TypeOK'
    BY <1>8 DEF ExitLate, TypeOK
  <1>9. CASE UNCHANGED vars
    BY <1>9 DEF vars, TypeOK
  <1> QED
    BY <1>1, <1>2, <1>3, <1>4, <1>5, <1>6, <1>7, <1>8, <1>9
       DEF Next, CallerStep, Terminating

(* Every reachable state is of its type.                                   *)
THEOREM TypeCorrect == Spec => []TypeOK
  BY TypeInit, TypeNext, PTL DEF Spec

-----------------------------------------------------------------------------
(* The jobs of an attempt.  Sequences first: what a send and a receive do  *)
(* to the elements of a channel.                                           *)
LEMMA AppendElements ==
  ASSUME NEW S, NEW s \in Seq(S), NEW x \in S
  PROVE  /\ Range(Append(s, x)) = Range(s) \cup {x}
         /\ IsInjective(s) /\ x \notin Range(s) => IsInjective(Append(s, x))
  <1>1. /\ DOMAIN s = 1 .. Len(s) /\ Len(s) \in Nat
        /\ DOMAIN Append(s, x) = 1 .. Len(s) + 1
        /\ \A k \in 1 .. Len(s) + 1 :
             Append(s, x)[k] = IF k = Len(s) + 1 THEN x ELSE s[k]
    OBVIOUS
  <1> QED
    BY <1>1 DEF Range, IsInjective

LEMMA TailElements ==
  ASSUME NEW S, NEW s \in Seq(S), s # <<>>
  PROVE  /\ Head(s) \in Range(s)
         /\ Range(s) = {Head(s)} \cup Range(Tail(s))
         /\ IsInjective(s) =>
              IsInjective(Tail(s)) /\ Range(Tail(s)) = Range(s) \ {Head(s)}
  <1>1. /\ DOMAIN s = 1 .. Len(s) /\ Len(s) \in Nat \ {0}
        /\ Head(s) = s[1]
        /\ DOMAIN Tail(s) = 1 .. Len(s) - 1
        /\ \A k \in 1 .. Len(s) - 1 : Tail(s)[k] = s[k + 1]
    OBVIOUS
  <1>2. \A k \in DOMAIN s : k = 1 \/ (k - 1 \in DOMAIN Tail(s) /\ s[k] = Tail(s)[k - 1])
    BY <1>1
  <1>3. \A k \in DOMAIN Tail(s) : k + 1 \in DOMAIN s /\ k + 1 # 1
    BY <1>1
  <1>4. Head(s) \in Range(s)
    BY <1>1 DEF Range
  <1>5. Range(s) = {Head(s)} \cup Range(Tail(s))
    BY <1>1, <1>2, <1>3 DEF Range
  <1>6. ASSUME IsInjective(s) PROVE IsInjective(Tail(s)) /\ Head(s) \notin Range(Tail(s))
    BY <1>1, <1>3, <1>6 DEF Range, IsInjective
  <1> QED
    BY <1>4, <1>5, <1>6

(* Queued jobs, received results: the same for the jobs of the results.    *)
LEMMA RepliedElements ==
  ASSUME results \in Seq(Result)
  PROVE  /\ \A r \in Result :
              {Append(results, r)[k].job : k \in DOMAIN Append(results, r)}
                = Replied \cup {r.job}
         /\ results # <<>> =>
              Replied = {Head(results).job} \cup
                          {Tail(results)[k].job : k \in DOMAIN Tail(results)}
  <1>1. ASSUME NEW r \in Result
        PROVE  {Append(results, r)[k].job : k \in DOMAIN Append(results, r)}
                 = Replied \cup {r.job}
    <2>1. /\ DOMAIN results = 1 .. Len(results) /\ Len(results) \in Nat
          /\ DOMAIN Append(results, r) = 1 .. Len(results) + 1
          /\ \A k \in 1 .. Len(results) + 1 :
               Append(results, r)[k] = IF k = Len(results) + 1 THEN r ELSE results[k]
      OBVIOUS
    <2> QED
      BY <2>1 DEF Replied
  <1>2. ASSUME results # <<>>
        PROVE  Replied = {Head(results).job} \cup
                          {Tail(results)[k].job : k \in DOMAIN Tail(results)}
    <2>1. /\ DOMAIN results = 1 .. Len(results) /\ Len(results) \in Nat \ {0}
          /\ Head(results) = results[1]
          /\ DOMAIN Tail(results) = 1 .. Len(results) - 1
          /\ \A k \in 1 .. Len(results) - 1 : Tail(results)[k] = results[k + 1]
      BY <1>2
    <2>2. \A k \in DOMAIN results :
            k = 1 \/ (k - 1 \in DOMAIN Tail(results) /\ results[k] = Tail(results)[k - 1])
      BY <2>1
    <2>3. \A k \in DOMAIN Tail(results) :
            k + 1 \in DOMAIN results /\ Tail(results)[k] = results[k + 1]
      BY <2>1
    <2>4. 1 \in DOMAIN results
      BY <2>1
    <2>5. ASSUME NEW job \in Replied
          PROVE  job = Head(results).job
                   \/ \E k \in DOMAIN Tail(results) : job = Tail(results)[k].job
      <3>1. PICK k \in DOMAIN results : job = results[k].job
        BY DEF Replied
      <3> QED
        BY <3>1, <2>1, <2>2
    <2>6. Head(results).job \in Replied
      BY <2>1, <2>4 DEF Replied
    <2>7. \A k \in DOMAIN Tail(results) : Tail(results)[k].job \in Replied
      BY <2>3 DEF Replied
    <2> QED
      BY <2>5, <2>6, <2>7
  <1> QED
    BY <1>1, <1>2

(* The nested loops visit each pair once: the cursor's own pair leaves the *)
(* unsent ones and no other does.                                          *)
LEMMA CursorLeavesUnsent ==
  ASSUME cursor \in Pair, cursor' = NextCursor
  PROVE  cursor \in Unsent /\ Unsent' = Unsent \ {cursor}
  <1>1. PICK i \in 1 .. N, j \in 1 .. N : cursor = <<i, j>>
    BY DEF Pair
  <1>2. \A pair \in Pair : /\ pair[1] \in 1 .. N /\ pair[2] \in 1 .. N
                           /\ pair = cursor <=> pair[1] = i /\ pair[2] = j
    BY <1>1 DEF Pair
  <1>3. CASE j < N
    <2>1. cursor'[1] = i /\ cursor'[2] = j + 1
      BY <1>1, <1>3 DEF NextCursor
    <2> QED
      BY <1>1, <1>2, <2>1 DEF Unsent
  <1>4. CASE ~(j < N)
    <2>1. cursor'[1] = i + 1 /\ cursor'[2] = 1 /\ j = N
      BY <1>1, <1>4 DEF NextCursor
    <2> QED
      BY <1>1, <1>2, <2>1 DEF Unsent
  <1> QED
    BY <1>3, <1>4

LEMMA CursorAtStart == cursor = <<1, 1>> => Unsent = Pair
  <1>1. \A pair \in Pair : pair[1] \in 1 .. N /\ pair[2] \in 1 .. N
    BY DEF Pair
  <1> QED
    BY <1>1 DEF Unsent

(* A step after which every job of the attempt still waits to be collected.*)
Stay == JobsAreUnique' /\ Uncollected' = Uncollected /\ collected' = collected

(* Steps inside the goroutines: no job changes hands.                      *)
LEMMA QuietStep ==
  ASSUME JobsAreUnique, UNCHANGED <<cursor, jobs, results, collected>>,
         \A v \in Worker : worker'[v].pc \in {"probe", "reply"} <=>
                            worker[v].pc \in {"probe", "reply"},
         \A v \in Busy : worker'[v].job = worker[v].job
  PROVE  Stay
  <1>1. Busy' = Busy
    BY DEF Busy
  <1>2. Held' = Held
    BY <1>1 DEF Held
  <1>3. Unsent' = Unsent /\ Queued' = Queued /\ Replied' = Replied
    BY DEF Unsent, Queued, Replied
  <1>4. \A v, w \in Busy' : worker'[v].job = worker'[w].job => v = w
    BY <1>1 DEF JobsAreUnique
  <1> QED
    BY <1>1, <1>2, <1>3, <1>4 DEF Stay, JobsAreUnique, Uncollected

(* The states a goroutine's steps lead to, and whether they are busy.      *)
LEMMA BusyStates ==
  /\ Receiving.pc \notin {"probe", "reply"}
  /\ Exited.pc \notin {"probe", "reply"}
  /\ \A job, tries : /\ Probing(job, tries).pc \in {"probe", "reply"}
                     /\ Probing(job, tries).job = job
  /\ \A job, c, m : /\ Replying(job, c, m).pc \in {"probe", "reply"}
                    /\ Replying(job, c, m).job = job
  BY DEF Receiving, Exited, Probing, Replying

LEMMA ReplyStays ==
  ASSUME TypeOK, JobsAreUnique, NEW w \in Worker, worker[w].pc = "probe",
         UNCHANGED <<cursor, jobs, results, collected>>,
         NEW c, NEW m, Reply(w, c, m)
  PROVE  Stay
  <1>1. worker'[w] = Replying(worker[w].job, c, m)
    BY DEF Reply, TypeOK
  <1>2. \A v \in Worker \ {w} : worker'[v] = worker[v]
    BY DEF Reply, TypeOK
  <1> QED
    BY <1>1, <1>2, BusyStates, QuietStep DEF Busy

LEMMA EnqueueStays == TypeOK /\ JobsAreUnique /\ Enqueue => Stay
  <1> SUFFICES ASSUME TypeOK, JobsAreUnique, Enqueue PROVE Stay
    OBVIOUS
  <1>1. cursor \in Pair
    BY DEF Enqueue, TypeOK
  <1>2. cursor \in Unsent /\ Unsent' = Unsent \ {cursor}
    BY <1>1, CursorLeavesUnsent DEF Enqueue
  <1>3. cursor \notin Queued \cup Held \cup Replied
    BY <1>2 DEF JobsAreUnique
  <1>4. Queued' = Queued \cup {cursor} /\ IsInjective(jobs')
    BY <1>1, <1>3, AppendElements DEF Enqueue, TypeOK, JobsAreUnique, Queued
  <1>5. UNCHANGED <<worker, results, collected>>
    BY DEF Enqueue, goroutines
  <1>6. Busy' = Busy /\ Held' = Held /\ Replied' = Replied
    BY <1>5 DEF Busy, Held, Replied
  <1> QED
    BY <1>2, <1>3, <1>4, <1>5, <1>6 DEF Stay, JobsAreUnique, Uncollected

LEMMA ReceiveStays ==
  ASSUME TypeOK, JobsAreUnique, NEW w \in Worker, Receive(w)
  PROVE  Stay
  <1> DEFINE job == Head(jobs)
  <1>1. /\ job \in Queued
        /\ Queued = {job} \cup Queued'
        /\ Queued' = Queued \ {job}
        /\ IsInjective(jobs')
    BY TailElements DEF Receive, TypeOK, JobsAreUnique, Queued
  <1>2. worker'[w] = Probing(job, 0) /\ worker[w] = Receiving
    BY DEF Receive, TypeOK
  <1>3. \A v \in Worker \ {w} : worker'[v] = worker[v]
    BY DEF Receive, TypeOK
  <1>4. Busy' = Busy \cup {w} /\ w \notin Busy
    BY <1>2, <1>3, BusyStates DEF Busy
  <1>5. worker'[w].job = job /\ \A v \in Busy : worker'[v].job = worker[v].job
    BY <1>2, <1>3, <1>4, BusyStates DEF Busy
  <1>6. Held' = Held \cup {job}
    BY <1>4, <1>5 DEF Held
  <1>7. job \notin Held \cup Replied \cup Unsent
    BY <1>1 DEF JobsAreUnique
  <1>8. \A u, v \in Busy' : worker'[u].job = worker'[v].job => u = v
    BY <1>4, <1>5, <1>7 DEF JobsAreUnique, Held
  <1>9. UNCHANGED <<cursor, results, collected>>
    BY DEF Receive, caller
  <1>10. Unsent' = Unsent /\ Replied' = Replied
    BY <1>9 DEF Unsent, Replied
  <1> QED
    BY <1>1, <1>6, <1>7, <1>8, <1>9, <1>10 DEF Stay, JobsAreUnique, Uncollected

LEMMA SendStays ==
  ASSUME TypeOK, JobsAreUnique, NEW w \in Worker, Send(w)
  PROVE  Stay
  <1> DEFINE job == worker[w].job
             result == [job |-> job, connected |-> worker[w].connected,
                        measured |-> worker[w].measured]
  <1>1. result \in Result /\ result.job = job
    BY WorkerStates DEF Send, TypeOK, Result
  <1>2. results' = Append(results, result) /\ worker' = [worker EXCEPT ![w] = Receiving]
    BY DEF Send
  <1>3. Replied' = Replied \cup {job}
    <2> HIDE DEF job, result
    <2>1. {Append(results, result)[k].job : k \in DOMAIN Append(results, result)}
            = Replied \cup {result.job}
      BY <1>1, RepliedElements DEF TypeOK
    <2>2. Replied' = {results'[k].job : k \in DOMAIN results'}
      BY DEF Replied
    <2> QED
      BY <1>1, <1>2, <2>1, <2>2
  <1>4. w \in Busy /\ Busy' = Busy \ {w}
    BY <1>2, BusyStates DEF Send, Busy, TypeOK
  <1>5. \A v \in Busy' : worker'[v].job = worker[v].job
    BY <1>2, <1>4 DEF TypeOK
  <1>6. job \in Held /\ Held' = Held \ {job}
    <2>1. \A v \in Busy : worker[v].job = job => v = w
      BY <1>4 DEF JobsAreUnique
    <2> QED
      BY <1>4, <1>5, <2>1 DEF Held
  <1>7. job \notin Unsent \cup Queued \cup Replied
    BY <1>6 DEF JobsAreUnique
  <1>8. \A k, l \in DOMAIN results' : results'[k].job = results'[l].job => k = l
    <2>1. /\ DOMAIN results = 1 .. Len(results) /\ Len(results) \in Nat
          /\ DOMAIN results' = 1 .. Len(results) + 1
          /\ results'[Len(results) + 1] = result
          /\ \A k \in DOMAIN results : results'[k] = results[k]
      BY <1>1, <1>2 DEF TypeOK
    <2>2. \A k \in DOMAIN results : results[k].job # job
      BY <1>7 DEF Replied
    <2>3. \A k \in DOMAIN results' : k \in DOMAIN results \/ k = Len(results) + 1
      BY <2>1
    <2> QED
      BY <1>1, <2>1, <2>2, <2>3 DEF JobsAreUnique
  <1>9. \A u, v \in Busy' : worker'[u].job = worker'[v].job => u = v
    BY <1>4, <1>5 DEF JobsAreUnique
  <1>10. UNCHANGED <<cursor, jobs, collected>>
    BY DEF Send, caller
  <1>11. Unsent' = Unsent /\ Queued' = Queued
    BY <1>10 DEF Unsent, Queued
  <1>12. Uncollected' = Uncollected
    BY <1>3, <1>6, <1>11 DEF Uncollected
  <1>13. /\ Unsent' \cap (Queued' \cup Held' \cup Replied') = {}
         /\ Queued' \cap (Held' \cup Replied') = {}
         /\ Held' \cap Replied' = {}
    BY <1>3, <1>6, <1>7, <1>11 DEF JobsAreUnique
  <1>14. IsInjective(jobs')
    BY <1>10 DEF JobsAreUnique
  <1> QED
    BY <1>8, <1>9, <1>10, <1>12, <1>13, <1>14 DEF Stay, JobsAreUnique

(* A collected result takes exactly one pair out of the uncollected ones.  *)
LEMMA CollectRemoves ==
  ASSUME TypeOK, JobsAreUnique, Collect
  PROVE  /\ JobsAreUnique'
         /\ Head(results).job \in Replied
         /\ Uncollected' = Uncollected \ {Head(results).job}
         /\ collected' = collected + 1
  <1> DEFINE job == Head(results).job
  <1>1. /\ DOMAIN results = 1 .. Len(results) /\ Len(results) \in Nat \ {0}
        /\ Head(results) = results[1]
        /\ DOMAIN results' = 1 .. Len(results) - 1
        /\ \A k \in 1 .. Len(results) - 1 : results'[k] = results[k + 1]
    BY DEF Collect, TypeOK
  <1>2. \A k \in DOMAIN results' : k + 1 \in DOMAIN results /\ k + 1 # 1
    BY <1>1
  <1>3. 1 \in DOMAIN results
    BY <1>1
  <1>4. Replied = {job} \cup Replied'
    BY RepliedElements DEF Collect, TypeOK, Replied
  <1>5. job \notin Replied'
    BY <1>1, <1>2, <1>3 DEF JobsAreUnique, Replied
  <1>6. \A k, l \in DOMAIN results' : results'[k].job = results'[l].job => k = l
    <2> SUFFICES ASSUME NEW k \in DOMAIN results', NEW l \in DOMAIN results',
                        results'[k].job = results'[l].job
                 PROVE  k = l
      OBVIOUS
    <2>1. k + 1 = l + 1
      BY <1>1, <1>2 DEF JobsAreUnique
    <2> QED
      BY <1>1, <2>1
  <1>7. UNCHANGED <<cursor, jobs, worker>> /\ collected' = collected + 1
    BY DEF Collect, goroutines
  <1>8. Unsent' = Unsent /\ Queued' = Queued /\ Busy' = Busy /\ Held' = Held
    BY <1>7 DEF Unsent, Queued, Busy, Held
  <1>9. job \notin Unsent \cup Queued \cup Held
    BY <1>4 DEF JobsAreUnique
  <1> HIDE DEF job
  <1>10. Uncollected' = Uncollected \ {job}
    BY <1>4, <1>5, <1>8, <1>9 DEF Uncollected
  <1>11. JobsAreUnique'
    BY <1>4, <1>6, <1>7, <1>8 DEF JobsAreUnique
  <1> QED
    BY <1>4, <1>7, <1>10, <1>11 DEF job

(* An attempt starts with every job unsent.                                *)
LEMMA StartOfAttempt ==
  ASSUME cursor = <<1, 1>>, jobs = <<>>, results = <<>>,
         worker = [w \in Worker |-> Receiving]
  PROVE  JobsAreUnique /\ Uncollected = Pair
  <1>1. Unsent = Pair
    BY CursorAtStart
  <1>2. Queued = {} /\ Replied = {}
    BY DEF Queued, Replied, Range
  <1>3. Busy = {} /\ Held = {}
    BY BusyStates DEF Busy, Held
  <1>4. IsInjective(jobs)
    BY DEF IsInjective
  <1> QED
    BY <1>1, <1>2, <1>3, <1>4 DEF JobsAreUnique, Uncollected

LEMMA RetryRestarts ==
  ASSUME Retry
  PROVE  JobsAreUnique' /\ Uncollected' = Pair /\ collected' = 0
  <1>1. /\ cursor' = <<1, 1>> /\ jobs' = <<>> /\ results' = <<>>
        /\ worker' = [w \in Worker |-> Receiving]
        /\ collected' = 0
    BY DEF Retry, StartAttempt
  <1>2. Unsent' = Pair
    <2>1. \A pair \in Pair : pair[1] \in 1 .. N /\ pair[2] \in 1 .. N
      BY DEF Pair
    <2> QED
      BY <1>1, <2>1 DEF Unsent
  <1>3. Queued' = {} /\ Replied' = {}
    BY <1>1 DEF Queued, Replied, Range
  <1>4. Busy' = {} /\ Held' = {}
    BY <1>1, BusyStates DEF Busy, Held
  <1>5. IsInjective(jobs')
    BY <1>1 DEF IsInjective
  <1> QED
    BY <1>1, <1>2, <1>3, <1>4, <1>5 DEF JobsAreUnique, Uncollected

(* Every step keeps the jobs of the attempt together, takes one pair away, *)
(* or starts the second attempt.                                           *)
LEMMA JobsStep ==
  ASSUME TypeOK, JobsAreUnique, [Next]_vars
  PROVE  \/ Stay
         \/ Collect
         \/ Retry
  <1> USE DEF env, channels, goroutines, caller, table, verdict
  <1>1. ASSUME NEW pair \in Pair, Flip(pair) PROVE Stay
    BY <1>1, QuietStep DEF Flip
  <1>2. CASE Enqueue
    BY <1>2, EnqueueStays
  <1>3. CASE CloseJobs
    BY <1>3, QuietStep DEF CloseJobs
  <1>4. CASE Finish
    BY <1>4, QuietStep DEF Finish
  <1>5. ASSUME NEW w \in Worker, WorkerStep(w) PROVE Stay
    <2>1. CASE Receive(w)
      BY <2>1, ReceiveStays
    <2>2. CASE Exit(w)
      <3>1. \A v \in Worker : IF v = w THEN worker[v] = Receiving /\ worker'[v] = Exited
                                       ELSE worker'[v] = worker[v]
        BY <2>2 DEF Exit, TypeOK
      <3> QED
        BY <2>2, <3>1, BusyStates, QuietStep DEF Exit, Busy
    <2>3. CASE Skip(w)
      BY <2>3, ReplyStays DEF Skip
    <2>4. CASE Connect(w)
      BY <2>4, ReplyStays DEF Connect, AtProbe, Fail
    <2>5. CASE Netcat(w)
      <3>1. CASE worker' = [worker EXCEPT ![w].tries = @ + 1]
        <4>1. worker[w] \in WorkerState /\ worker[w].pc = "probe"
          BY <2>5 DEF Netcat, AtProbe, TypeOK
        <4>2. worker'[w].pc = worker[w].pc /\ worker'[w].job = worker[w].job
          BY <3>1, <4>1 DEF TypeOK, WorkerState
        <4>3. \A v \in Worker \ {w} : worker'[v] = worker[v]
          BY <3>1 DEF TypeOK
        <4> QED
          BY <2>5, <4>2, <4>3, QuietStep DEF Netcat, Busy
      <3> QED
        BY <2>5, <3>1, ReplyStays DEF Netcat, AtProbe, Fail
    <2>6. CASE Iperf(w)
      BY <2>6, ReplyStays DEF Iperf, AtProbe, Fail
    <2>7. CASE ShortOutput(w)
      BY <2>7, QuietStep DEF ShortOutput
    <2>8. CASE Send(w)
      BY <2>8, SendStays
    <2> QED
      BY <1>5, <2>1, <2>2, <2>3, <2>4, <2>5, <2>6, <2>7, <2>8 DEF WorkerStep
  <1>6. ASSUME NEW w \in Worker, ExitLate(w) PROVE Stay
    BY <1>6, QuietStep DEF ExitLate
  <1>7. CASE UNCHANGED vars
    BY <1>7, QuietStep DEF vars
  <1> QED
    BY <1>1, <1>2, <1>3, <1>4, <1>5, <1>6, <1>7 DEF Next, CallerStep, Terminating

(* NothingIsLost and JobsAreUnique are inductive together with the types.  *)
Conserved == TypeOK /\ JobsAreUnique /\ NothingIsLost

LEMMA UncollectedIsFinite ==
  ASSUME TypeOK
  PROVE  Uncollected \subseteq Pair /\ IsFiniteSet(Uncollected)
  <1>1. Queued \subseteq Pair
    BY DEF Queued, Range, TypeOK
  <1>2. Held \subseteq Pair
    BY WorkerStates DEF Held, Busy, TypeOK
  <1>3. Replied \subseteq Pair
    <2>1. \A k \in DOMAIN results : results[k] \in Result
      BY DEF TypeOK
    <2>2. \A k \in DOMAIN results : results[k].job \in Pair
      BY <2>1 DEF Result
    <2> QED
      BY <2>2 DEF Replied
  <1>4. Uncollected \subseteq Pair
    BY <1>1, <1>2, <1>3 DEF Uncollected, Unsent
  <1> QED
    BY <1>4, PairsAreFinite, FS_Subset

LEMMA ConservedInit == Init => Conserved
  <1> SUFFICES ASSUME Init PROVE Conserved
    OBVIOUS
  <1>1. JobsAreUnique /\ Uncollected = Pair
    BY StartOfAttempt DEF Init
  <1>2. NothingIsLost
    BY <1>1, PairsAreFinite DEF NothingIsLost, Init
  <1> QED
    BY <1>1, <1>2, TypeInit DEF Conserved

LEMMA ConservedNext == Conserved /\ [Next]_vars => Conserved'
  <1> SUFFICES ASSUME Conserved, [Next]_vars PROVE Conserved'
    OBVIOUS
  <1> USE DEF Conserved
  <1>1. TypeOK'
    BY TypeNext
  <1>2. CASE Stay
    BY <1>1, <1>2 DEF Stay, NothingIsLost
  <1>3. CASE Collect
    <2>1. /\ JobsAreUnique'
          /\ Head(results).job \in Uncollected
          /\ Uncollected' = Uncollected \ {Head(results).job}
          /\ collected' = collected + 1
      BY <1>3, CollectRemoves DEF Uncollected
    <2>2. /\ Cardinality(Uncollected') = Cardinality(Uncollected) - 1
          /\ Cardinality(Uncollected) \in Nat
      BY <2>1, UncollectedIsFinite, FS_RemoveElement, FS_CardinalityType
    <2>3. collected \in Nat
      BY PairsAreFinite DEF TypeOK
    <2>4. NothingIsLost'
      BY <2>1, <2>2, <2>3, PairsAreFinite DEF NothingIsLost
    <2> QED
      BY <1>1, <2>1, <2>4
  <1>4. CASE Retry
    <2>1. NothingIsLost'
      BY <1>4, RetryRestarts, PairsAreFinite DEF NothingIsLost
    <2> QED
      BY <1>1, <1>4, <2>1, RetryRestarts
  <1> QED
    BY <1>2, <1>3, <1>4, JobsStep

(* No job is in two places, and none gets lost, in either attempt: the pool*)
(* neither observes a pair twice nor leaves the caller waiting for a result*)
(* that will not come.                                                     *)
THEOREM JobsConserved == Spec => []JobsAreConserved
  <1>1. Conserved => JobsAreConserved
    BY DEF Conserved, JobsAreConserved
  <1> QED
    BY <1>1, ConservedInit, ConservedNext, PTL DEF Spec

-----------------------------------------------------------------------------
(* The caller returns only what it has collected in full.                  *)
Complete == pc = "done" => collected = Size

LEMMA CompleteNext == TypeOK /\ JobsAreUnique /\ Complete /\ [Next]_vars => Complete'
  <1> SUFFICES ASSUME TypeOK, JobsAreUnique, Complete, [Next]_vars PROVE Complete'
    OBVIOUS
  <1>1. CASE Collect
    BY <1>1 DEF Collect, Complete
  <1>2. CASE Retry
    BY <1>2 DEF Retry, StartAttempt, Complete
  <1>3. CASE Finish
    BY <1>3 DEF Finish, Complete
  <1>4. CASE ~Collect /\ ~Retry /\ ~Finish
    <2>1. Stay
      BY <1>4, JobsStep
    <2>2. pc' = "done" => pc = "done"
      BY <1>4 DEF Next, CallerStep, WorkerStep, Terminating, Flip, Enqueue, CloseJobs,
         Receive, Exit, ExitLate, Skip, Connect, Netcat, Iperf, ShortOutput, Send,
         caller, vars
    <2> QED
      BY <2>1, <2>2 DEF Stay, Complete
  <1> QED
    BY <1>1, <1>2, <1>3, <1>4

(* Once the loop has counted to Size there is nothing left to collect.     *)
LEMMA AllCollected == Conserved /\ collected = Size => Uncollected = {}
  <1> SUFFICES ASSUME Conserved, collected = Size PROVE Uncollected = {}
    OBVIOUS
  <1>1. Cardinality(Uncollected) = 0
    BY PairsAreFinite, UncollectedIsFinite, FS_CardinalityType
       DEF Conserved, NothingIsLost
  <1> QED
    BY <1>1, UncollectedIsFinite, FS_EmptySet DEF Conserved

(* When an attempt is over, and when the caller has returned, no goroutine *)
(* is inside a probe: nothing of a first attempt can touch the second.     *)
THEOREM AttemptsDoNotOverlap == Spec => []NoProbeOutlivesItsAttempt
  <1>1. Init => Complete
    BY DEF Init, Complete
  <1>2. Conserved /\ Complete => NoProbeOutlivesItsAttempt
    BY AllCollected DEF Complete, NoProbeOutlivesItsAttempt, Uncollected
  <1>3. Conserved /\ Complete /\ [Next]_vars => Complete'
    BY CompleteNext DEF Conserved
  <1> QED
    BY <1>1, <1>2, <1>3, ConservedInit, ConservedNext, PTL DEF Spec

-----------------------------------------------------------------------------
(* The buffers are large enough because what is in a channel is distinct   *)
(* and leaves out at least the job that is about to be sent.               *)
LEMMA DistinctAndOneMore ==
  ASSUME NEW S, IsFiniteSet(S), NEW x \in S, NEW n \in Nat,
         NEW f \in [1 .. n -> S \ {x}],
         \A k, l \in 1 .. n : f[k] = f[l] => k = l
  PROVE  n < Cardinality(S)
  <1>1. IsFiniteSet(S \ {x}) /\ Cardinality(S \ {x}) = Cardinality(S) - 1
    BY FS_RemoveElement
  <1>2. f \in Injection(1 .. n, S \ {x})
    BY DEF Injection, IsInjective
  <1>3. Cardinality(1 .. n) <= Cardinality(S \ {x})
    BY <1>1, <1>2, FS_Injection
  <1>4. Cardinality(1 .. n) = n
    BY FS_Interval
  <1> QED
    BY <1>1, <1>3, <1>4, FS_CardinalityType

(* Neither the caller nor a goroutine ever blocks on a send, whatever the  *)
(* number of pods and of goroutines.                                       *)
THEOREM BuffersSuffice == Spec => []SendsNeverBlock
  <1>1. TypeOK /\ JobsAreUnique => SendsNeverBlock
    <2> SUFFICES ASSUME TypeOK, JobsAreUnique PROVE SendsNeverBlock
      OBVIOUS
    <2>1. ASSUME cursor[1] <= N PROVE Len(jobs) < Capacity
      <3>1. cursor \in Pair
        BY <2>1 DEF TypeOK
      <3>2. cursor \notin Queued
        BY <3>1, CursorLeavesUnsent DEF JobsAreUnique, Unsent, Pair
      <3>3. /\ Len(jobs) \in Nat /\ DOMAIN jobs = 1 .. Len(jobs)
            /\ jobs \in [1 .. Len(jobs) -> Pair]
        BY DEF TypeOK
      <3>4. jobs \in [1 .. Len(jobs) -> Pair \ {cursor}]
        BY <3>2, <3>3 DEF Queued, Range
      <3>5. \A k, l \in 1 .. Len(jobs) : jobs[k] = jobs[l] => k = l
        BY <3>3 DEF JobsAreUnique, IsInjective
      <3> QED
        BY <3>1, <3>3, <3>4, <3>5, PairsAreFinite, DistinctAndOneMore DEF Capacity
    <2>2. ASSUME NEW w \in Worker, worker[w].pc = "reply"
          PROVE  Len(results) < Capacity
      <3> DEFINE job == worker[w].job
                 f == [k \in 1 .. Len(results) |-> results[k].job]
      <3>1. job \in Pair
        BY <2>2, WorkerStates DEF TypeOK
      <3>2. job \notin Replied
        BY <2>2 DEF Held, Busy, JobsAreUnique
      <3>3. /\ Len(results) \in Nat /\ DOMAIN results = 1 .. Len(results)
            /\ \A k \in 1 .. Len(results) : results[k] \in Result
        BY DEF TypeOK
      <3>4. f \in [1 .. Len(results) -> Pair \ {job}]
        BY <3>2, <3>3 DEF Replied, Result
      <3>5. \A k, l \in 1 .. Len(results) : f[k] = f[l] => k = l
        BY <3>3 DEF JobsAreUnique
      <3> HIDE DEF f
      <3> QED
        BY <3>1, <3>3, <3>4, <3>5, PairsAreFinite, DistinctAndOneMore DEF Capacity
    <2> QED
      BY <2>1, <2>2 DEF SendsNeverBlock
  <1> QED
    BY <1>1, TypeCorrect, JobsConserved, PTL DEF JobsAreConserved

(* The observed table is written by the collecting loop alone, one pair per*)
(* step and each pair once per attempt, and never after the verdict.       *)
THEOREM OnlyCollectWrites == Spec => TableChangesOnlyByCollect
  <1> DEFINE Collected ==
        /\ pc = "collect"
        /\ \E pair \in Uncollected \ Unsent :
             /\ Uncollected' = Uncollected \ {pair}
             /\ \A other \in Pair \ {pair} :
                  /\ bandwidth'[other] = bandwidth[other]
                  /\ Get(observed', other) = Get(observed, other)
  <1>1. Conserved /\ [Next]_vars => [table' # table => Collected]_vars
    <2> SUFFICES ASSUME Conserved, [Next]_vars, table' # table PROVE Collected
      OBVIOUS
    <2>1. Collect
      BY DEF Next, CallerStep, WorkerStep, Terminating, Flip, Enqueue, CloseJobs,
         Retry, Finish, Receive, Exit, ExitLate, Skip, Connect, Netcat, Iperf,
         ShortOutput, Send, vars, table
    <2> DEFINE job == Head(results).job
    <2>2. job \in Replied /\ Uncollected' = Uncollected \ {job}
      BY <2>1, CollectRemoves DEF Conserved
    <2>3. job \in Uncollected \ Unsent
      BY <2>2 DEF Uncollected, Conserved, JobsAreUnique
    <2>4. \A other \in Pair \ {job} :
            /\ bandwidth'[other] = bandwidth[other]
            /\ Get(observed', other) = Get(observed, other)
      BY <2>1 DEF Collect, Set, Get, Conserved, TypeOK
    <2>5. pc = "collect"
      BY <2>1 DEF Collect
    <2> QED
      BY <2>2, <2>3, <2>4, <2>5
  <1> QED
    BY <1>1, ConservedInit, ConservedNext, PTL DEF Spec, TableChangesOnlyByCollect

-----------------------------------------------------------------------------
(* Nobody waits in vain.  The jobs channel is closed before the collecting *)
(* loop starts, and a goroutine leaves only once it is closed and drained. *)
ExitsAreLast ==
  /\ pc = "send" => ~closed
  /\ pc = "collect" => closed /\ cursor[1] > N
  /\ \A w \in Worker : worker[w] = Exited => closed /\ jobs = <<>>

LEMMA NobodyLeavesEarly ==
  ASSUME ExitsAreLast, UNCHANGED <<pc, closed, jobs, cursor>>,
         \A w \in Worker : worker'[w] = Exited => worker[w] = Exited
  PROVE  ExitsAreLast'
  BY DEF ExitsAreLast

(* Only Exit leads to Exited.                                              *)
LEMMA NotExited ==
  /\ Receiving # Exited
  /\ \A job, tries : Probing(job, tries) # Exited
  /\ \A job, c, m : Replying(job, c, m) # Exited
  <1>1. Exited.pc = "exited" /\ Receiving.pc = "receive"
    BY DEF Exited, Receiving
  <1>2. \A job, tries : Probing(job, tries).pc = "probe"
    BY DEF Probing
  <1>3. \A job, c, m : Replying(job, c, m).pc = "reply"
    BY DEF Replying
  <1> QED
    BY <1>1, <1>2, <1>3

LEMMA ExitsAreLastNext == TypeOK /\ ExitsAreLast /\ [Next]_vars => ExitsAreLast'
  <1> SUFFICES ASSUME TypeOK, ExitsAreLast, [Next]_vars PROVE ExitsAreLast'
    OBVIOUS
  <1> USE NotExited DEF env, channels, goroutines, caller, table, verdict
  <1>1. ASSUME NEW pair \in Pair, Flip(pair) PROVE ExitsAreLast'
    BY <1>1, NobodyLeavesEarly DEF Flip
  <1>2. CASE Enqueue
    BY <1>2 DEF Enqueue, ExitsAreLast
  <1>3. CASE CloseJobs
    BY <1>3 DEF CloseJobs, ExitsAreLast
  <1>4. CASE Collect
    BY <1>4, NobodyLeavesEarly DEF Collect
  <1>5. CASE Retry
    BY <1>5 DEF Retry, StartAttempt, ExitsAreLast
  <1>6. CASE Finish
    BY <1>6 DEF Finish, ExitsAreLast
  <1>7. ASSUME NEW w \in Worker, WorkerStep(w) PROVE ExitsAreLast'
    <2>1. CASE Receive(w)
      BY <2>1 DEF Receive, ExitsAreLast, TypeOK
    <2>2. CASE Exit(w)
      BY <2>2 DEF Exit, ExitsAreLast, TypeOK
    <2>3. ASSUME NEW c, NEW m, Reply(w, c, m), UNCHANGED <<channels, caller>>
          PROVE  ExitsAreLast'
      BY <2>3, NobodyLeavesEarly DEF Reply, TypeOK
    <2>4. CASE Skip(w)
      BY <2>3, <2>4 DEF Skip
    <2>5. CASE Connect(w)
      BY <2>3, <2>5 DEF Connect, Fail
    <2>6. CASE Netcat(w)
      <3>1. CASE worker' = [worker EXCEPT ![w].tries = @ + 1]
        <4>1. worker'[w].pc = "probe"
          BY <2>6, <3>1 DEF Netcat, AtProbe, TypeOK, WorkerState
        <4>2. worker'[w] # Exited
          BY <4>1 DEF Exited
        <4> QED
          BY <2>6, <3>1, <4>2, NobodyLeavesEarly DEF Netcat, TypeOK
      <3> QED
        BY <2>3, <2>6, <3>1 DEF Netcat, Fail
    <2>7. CASE Iperf(w)
      BY <2>3, <2>7 DEF Iperf, Fail
    <2>8. CASE ShortOutput(w)
      BY <2>8 DEF ShortOutput, ExitsAreLast
    <2>9. CASE Send(w)
      BY <2>9, NobodyLeavesEarly DEF Send, TypeOK
    <2> QED
      BY <1>7, <2>1, <2>2, <2>4, <2>5, <2>6, <2>7, <2>8, <2>9 DEF WorkerStep
  <1>8. ASSUME NEW w \in Worker, ExitLate(w) PROVE ExitsAreLast'
    BY <1>8, NobodyLeavesEarly DEF ExitLate
  <1>9. CASE UNCHANGED vars
    BY <1>9, NobodyLeavesEarly DEF vars
  <1> QED
    BY <1>1, <1>2, <1>3, <1>4, <1>5, <1>6, <1>7, <1>8, <1>9
       DEF Next, CallerStep, Terminating

(* As long as less than the matrix is counted, some of it is still to come.*)
LEMMA MoreToCome ==
  ASSUME collected \in Int, NothingIsLost, collected < Size
  PROVE  Uncollected # {}
  <1>1. Cardinality({}) = 0
    BY FS_EmptySet
  <1> QED
    BY <1>1 DEF NothingIsLost

(* What is uncollected then has a goroutine or a channel to come from.     *)
LEMMA SomebodyServes == Conserved /\ ExitsAreLast => CallerIsServed
  <1> SUFFICES ASSUME Conserved, ExitsAreLast, pc = "collect", collected < Size,
                      results = <<>>, Busy = {}
               PROVE  jobs # <<>> /\ \E w \in Worker : worker[w] = Receiving
    BY DEF CallerIsServed
  <1>1. Uncollected # {}
    <2>1. collected \in Int /\ NothingIsLost
      BY DEF Conserved, TypeOK
    <2> QED
      BY <2>1, MoreToCome
  <1>2. Unsent = {}
    BY DEF Unsent, Pair, ExitsAreLast, Conserved, TypeOK
  <1>3. Held = {} /\ Replied = {}
    BY DEF Held, Replied
  <1>4. Queued # {}
    BY <1>1, <1>2, <1>3 DEF Uncollected
  <1>5. jobs # <<>>
    BY <1>4 DEF Queued, Range
  <1>6. PICK w \in Worker : TRUE
    BY WorkerAssumption
  <1>7. worker[w] # Exited /\ worker[w].pc \notin {"probe", "reply"}
    BY <1>5 DEF ExitsAreLast, Busy
  <1>8. worker[w] = Receiving
    BY <1>7 DEF Conserved, TypeOK, WorkerState, Receiving, Exited
  <1> QED
    BY <1>5, <1>8

(* However many pods and goroutines there are, the collecting loop never   *)
(* waits for a result that nobody is about to produce.                     *)
THEOREM CallerNeverWaitsInVain == Spec => []CallerIsServed
  <1>1. Init => ExitsAreLast
    BY NotExited DEF Init, ExitsAreLast
  <1>2. Conserved /\ ExitsAreLast /\ [Next]_vars => ExitsAreLast'
    BY ExitsAreLastNext DEF Conserved
  <1> QED
    BY <1>1, <1>2, SomebodyServes, ConservedInit, ConservedNext, PTL DEF Spec

-----------------------------------------------------------------------------
(* Every step uses something up.                                           *)
Less == /\ Left' # Left
        /\ \A part \in DOMAIN Left : Left'[part] \subseteq Left[part]

(* A step that takes from one part, and the parts one by one.              *)
Returning == {w \in Worker : worker[w] # Exited}

NothingAdded ==
  /\ Unsent' \subseteq Unsent
  /\ (Unsent \cup Queued)' \subseteq Unsent \cup Queued
  /\ TriesLeft' \subseteq TriesLeft
  /\ (Unsent \cup Queued \cup Held)' \subseteq Unsent \cup Queued \cup Held
  /\ Uncollected' \subseteq Uncollected
  /\ Returning' \subseteq Returning
  /\ lingering' \subseteq lingering
  /\ upsets \in Nat /\ upsets' \in Nat /\ upsets' >= upsets
  /\ LoopsLeft' \subseteq LoopsLeft

LEMMA IntervalShrinks ==
  ASSUME NEW low \in Nat, NEW high \in Nat, NEW top \in Nat, low <= high
  PROVE  /\ high + 1 .. top \subseteq low + 1 .. top
         /\ low # high /\ high <= top => high + 1 .. top # low + 1 .. top
  <1>1. low # high /\ high <= top => /\ low + 1 \in low + 1 .. top
                                    /\ low + 1 \notin high + 1 .. top
    OBVIOUS
  <1> QED
    BY <1>1

LEMMA LessLeft ==
  ASSUME NothingAdded, upsets' <= MaxUpsets,
         \/ Unsent' # Unsent
         \/ (Unsent \cup Queued)' # Unsent \cup Queued
         \/ TriesLeft' # TriesLeft
         \/ (Unsent \cup Queued \cup Held)' # Unsent \cup Queued \cup Held
         \/ Uncollected' # Uncollected
         \/ Returning' # Returning
         \/ lingering' # lingering
         \/ upsets' # upsets
         \/ LoopsLeft' # LoopsLeft
  PROVE  Less
  <1>1. /\ Left.enqueue = Unsent
        /\ Left.receive = Unsent \cup Queued
        /\ Left.probe = TriesLeft
        /\ Left.reply = Unsent \cup Queued \cup Held
        /\ Left.collect = Uncollected
        /\ Left.return = Returning
        /\ Left.linger = lingering
        /\ Left.upset = upsets + 1 .. MaxUpsets
        /\ Left.loop = LoopsLeft
        /\ DOMAIN Left = {"enqueue", "receive", "probe", "reply", "collect",
                          "return", "linger", "upset", "loop"}
    BY DEF Left, Returning
  <1>2. /\ Left'.enqueue = Unsent'
        /\ Left'.receive = (Unsent \cup Queued)'
        /\ Left'.probe = TriesLeft'
        /\ Left'.reply = (Unsent \cup Queued \cup Held)'
        /\ Left'.collect = Uncollected'
        /\ Left'.return = Returning'
        /\ Left'.linger = lingering'
        /\ Left'.upset = upsets' + 1 .. MaxUpsets
        /\ Left'.loop = LoopsLeft'
    BY DEF Left, Returning
  <1>3. /\ upsets' + 1 .. MaxUpsets \subseteq upsets + 1 .. MaxUpsets
        /\ upsets' # upsets => upsets' + 1 .. MaxUpsets # upsets + 1 .. MaxUpsets
    <2>1. upsets \in Nat /\ upsets' \in Nat /\ upsets <= upsets'
      BY DEF NothingAdded
    <2> QED
      BY <2>1, MaxUpsetsAssumption, IntervalShrinks
  <1>4. Left' # Left
    BY <1>1, <1>2, <1>3
  <1>5. \A part \in DOMAIN Left : Left'[part] \subseteq Left[part]
    BY <1>1, <1>2, <1>3 DEF NothingAdded
  <1> QED
    BY <1>4, <1>5 DEF Less

(* Steps that leave the jobs where they are.                               *)
LEMMA JobsStayPut ==
  ASSUME TypeOK, TypeOK', UNCHANGED <<cursor, jobs, results, worker>>,
         lingering' \subseteq lingering, upsets' >= upsets, LoopsLeft' \subseteq LoopsLeft,
         lingering' # lingering \/ upsets' # upsets \/ LoopsLeft' # LoopsLeft
  PROVE  Less
  <1>1. /\ Unsent' = Unsent /\ Queued' = Queued /\ Held' = Held
        /\ Uncollected' = Uncollected /\ TriesLeft' = TriesLeft
        /\ Returning' = Returning
    BY DEF Unsent, Queued, Held, Busy, Replied, Uncollected, TriesLeft, Returning
  <1>2. upsets \in Nat /\ upsets' \in Nat /\ upsets' <= MaxUpsets
    BY MaxUpsetsAssumption DEF TypeOK
  <1>3. NothingAdded
    BY <1>1, <1>2 DEF NothingAdded
  <1> QED
    BY <1>2, <1>3, LessLeft

(* An execution of a probe's command, or a pod that is skipped: the try    *)
(* that was made, and with an answer those after it, are not made again.   *)
LEMMA ATryIsUsed ==
  ASSUME TypeOK, TypeOK', JobsAreUnique, NEW w \in Worker, worker[w].pc = "probe",
         UNCHANGED <<cursor, jobs, results, lingering, pc>>, upsets' >= upsets,
         \A v \in Worker \ {w} : worker'[v] = worker[v],
         \/ worker'[w].pc = "probe" /\ worker'[w].tries = worker[w].tries + 1
         \/ worker'[w].pc = "reply",
         worker'[w].job = worker[w].job
  PROVE  Less
  <1> DEFINE try == <<worker[w].job, worker[w].tries + 1>>
  <1>1. /\ worker[w].job \in Pair
        /\ \A v \in Worker : /\ worker[v].pc = "probe" => worker[v].tries \in 0 .. MaxRetries - 1
                             /\ worker'[v].pc = "probe" => worker'[v].tries \in 0 .. MaxRetries - 1
    BY WorkerStates DEF TypeOK
  <1>2. Unsent' = Unsent /\ Queued' = Queued /\ Replied' = Replied /\ LoopsLeft' = LoopsLeft
    BY DEF Unsent, Queued, Replied, LoopsLeft
  <1>3. Busy' = Busy /\ w \in Busy
    BY DEF Busy
  <1>4. Held' = Held /\ worker[w].job \in Held
    BY <1>3 DEF Held, Busy
  <1>5. Uncollected' = Uncollected
    BY <1>2, <1>4 DEF Uncollected
  <1>6. Returning' \subseteq Returning
    BY DEF Returning, Exited
  <1>7. TriesLeft' \subseteq TriesLeft
    BY <1>1, <1>2, MaxRetriesAssumption DEF TriesLeft
  <1>8. try \in TriesLeft
    BY <1>1, MaxRetriesAssumption DEF TriesLeft
  <1>9. try \notin TriesLeft'
    <2>1. worker[w].job \notin Unsent \cup Queued
      BY <1>4 DEF JobsAreUnique
    <2>2. \A v \in Worker : worker[v].pc = "probe" /\ worker[v].job = worker[w].job => v = w
      BY <1>3 DEF JobsAreUnique, Busy
    <2>3. ASSUME NEW v \in Worker, worker'[v].pc = "probe", worker'[v].job = worker[w].job
          PROVE  worker'[v].tries = worker[w].tries + 1
      BY <2>2, <2>3
    <2> QED
      BY <1>1, <1>2, <2>1, <2>3, MaxRetriesAssumption DEF TriesLeft
  <1>10. upsets \in Nat /\ upsets' \in Nat /\ upsets' <= MaxUpsets
    BY MaxUpsetsAssumption DEF TypeOK
  <1>11. NothingAdded
    BY <1>2, <1>4, <1>5, <1>6, <1>7, <1>10 DEF NothingAdded
  <1> QED
    BY <1>8, <1>9, <1>10, <1>11, LessLeft

(* The steps that hand a job on, each to the next part.                    *)
LEMMA EnqueueUses == ASSUME Conserved, Conserved', Enqueue PROVE Less
  <1> USE DEF Conserved
  <1>1. cursor \in Unsent /\ Unsent' = Unsent \ {cursor}
    BY CursorLeavesUnsent DEF Enqueue, TypeOK
  <1>2. Queued' = Queued \cup {cursor}
    BY AppendElements DEF Enqueue, TypeOK, Queued
  <1>3. UNCHANGED <<worker, lingering, upsets, pc>>
    BY DEF Enqueue, goroutines, env
  <1>4. Held' = Held /\ Returning' = Returning /\ LoopsLeft' = LoopsLeft
    BY <1>3 DEF Held, Busy, Returning, LoopsLeft
  <1>5. (Unsent \cup Queued)' = Unsent \cup Queued
    BY <1>1, <1>2
  <1>6. TriesLeft' = TriesLeft
    BY <1>3, <1>5 DEF TriesLeft
  <1>7. Uncollected' = Uncollected
    BY EnqueueStays DEF Stay
  <1>8. NothingAdded /\ upsets' <= MaxUpsets
    BY <1>1, <1>3, <1>4, <1>5, <1>6, <1>7, MaxUpsetsAssumption DEF NothingAdded, TypeOK
  <1> QED
    BY <1>1, <1>8, LessLeft

LEMMA ReceiveUses ==
  ASSUME Conserved, NEW w \in Worker, Receive(w) PROVE Less
  <1> USE DEF Conserved
  <1> DEFINE job == Head(jobs)
  <1>1. job \in Queued /\ Queued' = Queued \ {job}
    BY TailElements DEF Receive, TypeOK, JobsAreUnique, Queued
  <1>2. UNCHANGED <<cursor, lingering, upsets, pc>>
    BY DEF Receive, caller, env
  <1>3. Unsent' = Unsent /\ LoopsLeft' = LoopsLeft
    BY <1>2 DEF Unsent, LoopsLeft
  <1>4. /\ worker'[w] = Probing(job, 0) /\ worker[w] = Receiving
        /\ \A v \in Worker \ {w} : worker'[v] = worker[v]
    BY DEF Receive, TypeOK
  <1>5. Held' \subseteq Held \cup {job}
    <2>1. \A v \in Busy' : worker'[v].job = job \/ (v \in Busy /\ worker'[v].job = worker[v].job)
      BY <1>4, BusyStates DEF Busy
    <2> QED
      BY <2>1 DEF Held
  <1>6. Returning' = Returning
    BY <1>4, NotExited DEF Returning
  <1>7. TriesLeft' \subseteq TriesLeft
    <2>1. \A v \in Worker : worker'[v].pc = "probe" =>
            \/ worker'[v].job \in Queued
            \/ worker[v].pc = "probe" /\ worker'[v] = worker[v]
      BY <1>1, <1>4, BusyStates
    <2> QED
      BY <1>1, <1>3, <2>1 DEF TriesLeft
  <1>8. Uncollected' = Uncollected
    BY ReceiveStays DEF Stay
  <1>9. job \notin Unsent'
    BY <1>1, <1>3 DEF JobsAreUnique
  <1> HIDE DEF job
  <1>10. NothingAdded /\ upsets' <= MaxUpsets
    BY <1>1, <1>2, <1>3, <1>5, <1>6, <1>7, <1>8, MaxUpsetsAssumption DEF NothingAdded, TypeOK
  <1>11. (Unsent \cup Queued)' # Unsent \cup Queued
    BY <1>1, <1>9
  <1> QED
    BY <1>10, <1>11, LessLeft

LEMMA SendUses ==
  ASSUME Conserved, NEW w \in Worker, Send(w) PROVE Less
  <1> USE DEF Conserved
  <1> DEFINE job == worker[w].job
  <1>1. UNCHANGED <<cursor, jobs, lingering, upsets, pc>>
    BY DEF Send, caller, env
  <1>2. Unsent' = Unsent /\ Queued' = Queued /\ LoopsLeft' = LoopsLeft
    BY <1>1 DEF Unsent, Queued, LoopsLeft
  <1>3. /\ worker'[w] = Receiving /\ worker[w].pc = "reply"
        /\ \A v \in Worker \ {w} : worker'[v] = worker[v]
    BY DEF Send, TypeOK
  <1>4. w \in Busy /\ Busy' = Busy \ {w} /\ \A v \in Busy' : worker'[v] = worker[v]
    BY <1>3, BusyStates DEF Busy
  <1>5. job \in Held /\ Held' \subseteq Held \ {job}
    <2>1. \A v \in Busy : worker[v].job = job => v = w
      BY <1>4 DEF JobsAreUnique
    <2> QED
      BY <1>4, <2>1 DEF Held
  <1>6. Returning' \subseteq Returning
    BY <1>3 DEF Returning, Exited
  <1>7. TriesLeft' \subseteq TriesLeft
    BY <1>2, <1>3, BusyStates DEF TriesLeft
  <1>8. Uncollected' = Uncollected
    BY SendStays DEF Stay
  <1>9. job \notin Unsent \cup Queued
    BY <1>5 DEF JobsAreUnique
  <1> HIDE DEF job
  <1>10. NothingAdded /\ upsets' <= MaxUpsets
    BY <1>1, <1>2, <1>5, <1>6, <1>7, <1>8, MaxUpsetsAssumption DEF NothingAdded, TypeOK
  <1>11. (Unsent \cup Queued \cup Held)' # Unsent \cup Queued \cup Held
    BY <1>2, <1>5, <1>9
  <1> QED
    BY <1>10, <1>11, LessLeft

LEMMA CollectUses == ASSUME Conserved, Collect PROVE Less
  <1> USE DEF Conserved
  <1>1. Head(results).job \in Uncollected /\ Uncollected' = Uncollected \ {Head(results).job}
    BY CollectRemoves DEF Uncollected
  <1>2. UNCHANGED <<cursor, jobs, worker, lingering, upsets, pc>>
    BY DEF Collect, goroutines, env
  <1>3. /\ Unsent' = Unsent /\ Queued' = Queued /\ Held' = Held
        /\ TriesLeft' = TriesLeft /\ Returning' = Returning /\ LoopsLeft' = LoopsLeft
    BY <1>2 DEF Unsent, Queued, Held, Busy, TriesLeft, Returning, LoopsLeft
  <1>4. NothingAdded /\ upsets' <= MaxUpsets
    BY <1>1, <1>2, <1>3, MaxUpsetsAssumption DEF NothingAdded, TypeOK
  <1> QED
    BY <1>1, <1>4, LessLeft

LEMMA ExitUses ==
  ASSUME Conserved, NEW w \in Worker, Exit(w) PROVE Less
  <1> USE DEF Conserved
  <1>1. UNCHANGED <<cursor, jobs, results, lingering, upsets, pc>>
    BY DEF Exit, channels, caller, env
  <1>2. /\ worker'[w] = Exited /\ worker[w] = Receiving
        /\ \A v \in Worker \ {w} : worker'[v] = worker[v]
    BY DEF Exit, TypeOK
  <1>3. Unsent' = Unsent /\ Queued' = Queued /\ Replied' = Replied /\ LoopsLeft' = LoopsLeft
    BY <1>1 DEF Unsent, Queued, Replied, LoopsLeft
  <1>4. Busy' = Busy /\ \A v \in Busy : worker'[v] = worker[v]
    BY <1>2, BusyStates DEF Busy
  <1>5. Held' = Held
    BY <1>4 DEF Held
  <1>6. TriesLeft' \subseteq TriesLeft
    BY <1>2, <1>3, BusyStates DEF TriesLeft
  <1>7. Returning' \subseteq Returning /\ w \in Returning \ Returning'
    BY <1>2, NotExited DEF Returning
  <1>8. Uncollected' = Uncollected
    BY <1>3, <1>5 DEF Uncollected
  <1>9. NothingAdded /\ upsets' <= MaxUpsets
    BY <1>1, <1>3, <1>5, <1>6, <1>7, <1>8, MaxUpsetsAssumption DEF NothingAdded, TypeOK
  <1> QED
    BY <1>7, <1>9, LessLeft

(* A goroutine that answers its probe.                                     *)
LEMMA ReplyUses ==
  ASSUME Conserved, Conserved', NEW w \in Worker, worker[w].pc = "probe",
         NEW c, NEW m, Reply(w, c, m), UNCHANGED <<channels, caller, lingering>>,
         upsets' >= upsets
  PROVE  Less
  <1>1. /\ worker'[w] = Replying(worker[w].job, c, m)
        /\ \A v \in Worker \ {w} : worker'[v] = worker[v]
    BY DEF Reply, Conserved, TypeOK
  <1>2. worker'[w].pc = "reply" /\ worker'[w].job = worker[w].job
    BY <1>1 DEF Replying
  <1> QED
    BY <1>1, <1>2, ATryIsUsed DEF Conserved, channels, caller

LEMMA StepUses ==
  ASSUME Conserved, Conserved', Next, ~UNCHANGED vars
  PROVE  Less \/ (round = 1 /\ round' = 2)
  <1> USE DEF env, channels, goroutines, caller, table, verdict
  <1>1. upsets \in 0 .. MaxUpsets /\ \A n \in Nat : n + 1 >= n /\ n + 1 # n
    BY DEF Conserved, TypeOK
  <1>2. ASSUME NEW pair \in Pair, Flip(pair) PROVE Less
    <2>1. LoopsLeft' = LoopsLeft
      BY <1>2 DEF Flip, LoopsLeft
    <2> QED
      BY <1>1, <1>2, <2>1, MaxUpsetsAssumption, JobsStayPut DEF Flip, Conserved
  <1>3. CASE Enqueue
    BY <1>3, EnqueueUses
  <1>4. ASSUME UNCHANGED <<cursor, jobs, results, worker, lingering, upsets>>,
               pc \in {"send", "collect"}, pc' # pc, pc' # "send"
        PROVE  Less
    <2>1. LoopsLeft' \subseteq LoopsLeft
      BY <1>4 DEF LoopsLeft
    <2>2. pc \in LoopsLeft \ LoopsLeft'
      BY <1>4 DEF LoopsLeft
    <2> QED
      BY <1>1, <1>4, <2>1, <2>2, MaxUpsetsAssumption, JobsStayPut DEF Conserved
  <1>5. CASE CloseJobs
    BY <1>4, <1>5 DEF CloseJobs
  <1>6. CASE Collect
    BY <1>6, CollectUses
  <1>7. CASE Retry
    BY <1>7 DEF Retry
  <1>8. CASE Finish
    BY <1>4, <1>8 DEF Finish
  <1>9. ASSUME NEW w \in Worker, WorkerStep(w) PROVE Less
    <2>1. CASE Receive(w)
      BY <2>1, ReceiveUses
    <2>2. CASE Exit(w)
      BY <2>2, ExitUses
    <2>3. ASSUME worker[w].pc = "probe", NEW c, NEW m, Reply(w, c, m),
                 UNCHANGED <<channels, caller, lingering>>,
                 upsets' = upsets \/ upsets' = upsets + 1
          PROVE  Less
      BY <1>1, <2>3, ReplyUses, MaxUpsetsAssumption
    <2>4. CASE Skip(w)
      BY <2>3, <2>4 DEF Skip
    <2>5. CASE Connect(w)
      BY <2>3, <2>5 DEF Connect, AtProbe, Fail
    <2>6. CASE Netcat(w)
      <3>1. CASE /\ worker' = [worker EXCEPT ![w].tries = @ + 1]
                 /\ UNCHANGED <<upsets, seen>>
        <4>1. worker[w] \in WorkerState /\ worker[w].pc = "probe"
          BY <2>6 DEF Netcat, AtProbe, Conserved, TypeOK
        <4>2. /\ worker'[w].pc = "probe"
              /\ worker'[w].job = worker[w].job
              /\ worker'[w].tries = worker[w].tries + 1
          BY <3>1, <4>1 DEF Conserved, TypeOK, WorkerState
        <4>3. \A v \in Worker \ {w} : worker'[v] = worker[v]
          BY <3>1 DEF Conserved, TypeOK
        <4> QED
          BY <1>1, <2>6, <3>1, <4>1, <4>2, <4>3, ATryIsUsed, MaxUpsetsAssumption
             DEF Netcat, Conserved
      <3> QED
        BY <2>3, <2>6, <3>1 DEF Netcat, AtProbe, Fail
    <2>7. CASE Iperf(w)
      BY <2>3, <2>7 DEF Iperf, AtProbe, Fail
    <2>8. CASE ShortOutput(w)
      BY <1>4, <2>8 DEF ShortOutput, Running
    <2>9. CASE Send(w)
      BY <2>9, SendUses
    <2> QED
      BY <1>9, <2>1, <2>2, <2>4, <2>5, <2>6, <2>7, <2>8, <2>9 DEF WorkerStep
  <1>10. ASSUME NEW w \in Worker, ExitLate(w) PROVE Less
    <2>1. LoopsLeft' = LoopsLeft
      BY <1>10 DEF ExitLate, LoopsLeft
    <2> QED
      BY <1>1, <1>10, <2>1, MaxUpsetsAssumption, JobsStayPut DEF ExitLate, Conserved
  <1> QED
    BY <1>2, <1>3, <1>5, <1>6, <1>7, <1>8, <1>9, <1>10 DEF Next, CallerStep, Terminating

(* Only the retry begins another attempt.                                  *)
LEMMA OnlyRetryCounts ==
  ASSUME [Next]_vars, ~Retry PROVE round' = round
  BY DEF Next, CallerStep, WorkerStep, Terminating, Flip, Enqueue, CloseJobs, Collect,
     Finish, Receive, Exit, ExitLate, Skip, Connect, Netcat, Iperf, ShortOutput, Send,
     caller, vars

(* The pool cannot go round in circles: every step of a validation, of any *)
(* size, uses up something of the attempt, and there are two attempts.     *)
THEOREM NoStepIsWasted == Spec => StepsRunOut
  <1>1. Conserved /\ Conserved' /\ [Next]_vars
          => [\/ round = 1 /\ round' = 2
              \/ /\ round' = round
                 /\ Left' # Left
                 /\ \A part \in DOMAIN Left : Left'[part] \subseteq Left[part]]_vars
    <2> SUFFICES ASSUME Conserved, Conserved', Next, ~UNCHANGED vars
                 PROVE  \/ round = 1 /\ round' = 2
                        \/ round' = round /\ Less
      BY DEF Less
    <2>1. CASE Retry
      BY <2>1 DEF Retry
    <2>2. CASE ~Retry
      BY <2>2, StepUses, OnlyRetryCounts
    <2> QED
      BY <2>1, <2>2
  <1> QED
    BY <1>1, ConservedInit, ConservedNext, PTL DEF Spec, StepsRunOut

(* What is left of an attempt is finite, so that it can run out.           *)
LEMMA LeftIsFinite == TypeOK => \A part \in DOMAIN Left : IsFiniteSet(Left[part])
  <1> SUFFICES ASSUME TypeOK PROVE \A part \in DOMAIN Left : IsFiniteSet(Left[part])
    OBVIOUS
  <1>1. IsFiniteSet(Unsent \cup Queued \cup Held) /\ IsFiniteSet(Uncollected)
    BY UncollectedIsFinite, FS_Subset DEF Uncollected
  <1>2. IsFiniteSet(Unsent) /\ IsFiniteSet(Unsent \cup Queued)
    BY <1>1, FS_Subset
  <1>3. IsFiniteSet(TriesLeft)
    <2>1. IsFiniteSet(1 .. MaxRetries)
      BY MaxRetriesAssumption, FS_Interval
    <2>2. IsFiniteSet(Pair \X (1 .. MaxRetries))
      BY <2>1, PairsAreFinite, FS_Product
    <2> QED
      BY <2>2, FS_Subset DEF TriesLeft
  <1>4. IsFiniteSet(Returning) /\ IsFiniteSet(lingering)
    BY WorkerAssumption, FS_Subset DEF Returning, TypeOK
  <1>5. IsFiniteSet(upsets + 1 .. MaxUpsets)
    <2>1. upsets + 1 \in Int /\ MaxUpsets \in Int
      BY MaxUpsetsAssumption DEF TypeOK
    <2> QED
      BY <2>1, FS_Interval
  <1>6. IsFiniteSet(LoopsLeft)
    <2>1. IsFiniteSet({"send"} \cup {"collect"})
      BY FS_Singleton, FS_Union
    <2> QED
      BY <2>1, FS_Subset DEF LoopsLeft
  <1>7. DOMAIN Left = {"enqueue", "receive", "probe", "reply", "collect",
                       "return", "linger", "upset", "loop"}
    BY DEF Left
  <1>8. /\ Left.enqueue = Unsent
        /\ Left.receive = Unsent \cup Queued
        /\ Left.probe = TriesLeft
        /\ Left.reply = Unsent \cup Queued \cup Held
        /\ Left.collect = Uncollected
        /\ Left.return = Returning
        /\ Left.linger = lingering
        /\ Left.upset = upsets + 1 .. MaxUpsets
        /\ Left.loop = LoopsLeft
    BY DEF Left, Returning
  <1> QED
    BY <1>1, <1>2, <1>3, <1>4, <1>5, <1>6, <1>7, <1>8

-----------------------------------------------------------------------------
(* Refinement of the specification without channels and goroutines.        *)
LEMMA SameFalsePairs == Abstract!FalsePairs = FalsePairs
  BY DEF Abstract!FalsePairs, FalsePairs, Abstract!FalseObs, FalseObs,
     Abstract!IgnoredObs, IgnoredObs, Abstract!Compare, Compare,
     Abstract!TooSlow, TooSlow, Abstract!Get, Get, Abstract!Loopback, Loopback

LEMMA SameCardinality == \A S : Abstract!Cardinality(S) = Cardinality(S)
  BY DEF Abstract!Cardinality, Cardinality

LEMMA SameWrong ==
  Cardinality(FalsePairs) = Summary(tc.expected, observed, bandwidth,
                                    tc.ignoreLoopback, tc.mode = "iperf").wrong
  BY DEF Summary, FalsePairs

LEMMA AbstractInitial == Init => Abstract!Init
  <1> SUFFICES ASSUME Init PROVE Abstract!Init
    OBVIOUS
  <1>1. Uncollected = Pair
    BY StartOfAttempt DEF Init
  <1> QED
    BY <1>1 DEF Init, Abstract!Init, EmptyTable, Abstract!EmptyTable, Running

LEMMA AbstractObserve ==
  ASSUME TypeOK, JobsAreUnique, Collect
  PROVE  Abstract!Observe(Head(results).job, Head(results).connected,
                          Head(results).measured)
  BY CollectRemoves
     DEF Collect, Abstract!Observe, Set, Abstract!Set, env, verdict, Running, Uncollected

LEMMA AbstractRetry ==
  ASSUME Uncollected = {}, Retry PROVE Abstract!Retry
  BY RetryRestarts, SameFalsePairs
     DEF Retry, StartAttempt, Abstract!Retry, env, table, verdict, Running

LEMMA AbstractFinish ==
  ASSUME JobsAreUnique, Uncollected = {}, Finish PROVE Abstract!Finish
  <1>1. Uncollected' = {}
    BY QuietStep DEF Finish, channels, goroutines, Stay
  <1>2. wrong' = Cardinality(FalsePairs)
    BY SameWrong DEF Finish
  <1> QED
    BY <1>1, <1>2, SameFalsePairs, SameCardinality
       DEF Finish, Abstract!Finish, env, table, Running

LEMMA AbstractPanic ==
  ASSUME Stay, NEW w \in Worker, ShortOutput(w) PROVE Abstract!Panic
  BY DEF ShortOutput, AtProbe, Abstract!Panic, Stay, env, table, verdict, Running

(* Every other step is invisible to the caller.                            *)
LEMMA AbstractStutter ==
  ASSUME Stay, [Next]_vars, ~Collect, ~Retry, ~Finish,
         \A w \in Worker : ~ShortOutput(w)
  PROVE  UNCHANGED Abstract!vars
  <1>1. UNCHANGED <<tc, round, observed, bandwidth, wrong>>
    BY DEF Next, CallerStep, WorkerStep, Terminating, Flip, Enqueue, CloseJobs,
       Receive, Exit, ExitLate, Skip, Connect, Netcat, Iperf, Send,
       env, caller, table, verdict, vars
  <1>2. pc' = pc \/ (pc = "send" /\ pc' = "collect")
    BY DEF Next, CallerStep, WorkerStep, Terminating, Flip, Enqueue, CloseJobs,
       Receive, Exit, ExitLate, Skip, Connect, Netcat, Iperf, Send, caller, vars
  <1> QED
    BY <1>1, <1>2 DEF Stay, Abstract!vars, Running

LEMMA AbstractStep == Conserved /\ [Next]_vars => [Abstract!Next]_(Abstract!vars)
  <1> SUFFICES ASSUME Conserved, [Next]_vars PROVE [Abstract!Next]_(Abstract!vars)
    OBVIOUS
  <1> USE DEF Conserved
  <1>1. CASE Collect
    <2>1. Head(results) \in Result
      BY <1>1 DEF Collect, TypeOK
    <2>2. /\ Head(results).job \in Pair
          /\ Head(results).connected \in BOOLEAN
          /\ Head(results).measured \in Abstract!Bandwidth
      BY <2>1 DEF Result, Bandwidth, Abstract!Bandwidth
    <2> QED
      BY <1>1, <2>2, AbstractObserve DEF Abstract!Next
  <1>2. CASE Retry
    BY <1>2, AllCollected, AbstractRetry DEF Retry, Abstract!Next
  <1>3. CASE Finish
    BY <1>3, AllCollected, AbstractFinish DEF Finish, Abstract!Next
  <1>4. ASSUME ~Collect, ~Retry PROVE Stay
    BY <1>4, JobsStep
  <1>5. ASSUME NEW w \in Worker, ShortOutput(w), ~Collect, ~Retry
        PROVE  [Abstract!Next]_(Abstract!vars)
    BY <1>4, <1>5, AbstractPanic DEF Abstract!Next
  <1>6. CASE ~Collect /\ ~Retry /\ ~Finish /\ \A w \in Worker : ~ShortOutput(w)
    BY <1>4, <1>6, AbstractStutter
  <1> QED
    BY <1>1, <1>2, <1>3, <1>5, <1>6

(* The pool of goroutines, with its channels, retry and stragglers, does   *)
(* what the specification without them says: two attempts at most, each    *)
(* observing every pair exactly once, and a verdict of the last table.     *)
THEOREM PoolRefinesTwoTries == Spec => AbstractSpec
  <1>1. Conserved /\ [Next]_vars => [Abstract!Next]_(Abstract!vars)
    BY AbstractStep
  <1> QED
    BY <1>1, AbstractInitial, ConservedInit, ConservedNext, PTL
       DEF Spec, AbstractSpec, Abstract!Spec
=============================================================================
