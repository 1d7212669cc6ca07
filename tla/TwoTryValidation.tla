-------------------------- MODULE TwoTryValidation --------------------------
(***************************************************************************)
(* What a caller of ValidateAndMeasureBandwidthOrFail may rely on, without *)
(* channels and goroutines: an attempt observes every pair of the matrix   *)
(* exactly once, in any order; a first attempt whose summary is wrong is   *)
(* followed by one complete second attempt over the same table; the verdict*)
(* is the number of wrong pairs of the table as the last attempt left it.  *)
(* The process may die during an attempt, and then there is no verdict.    *)
(***************************************************************************)
EXTENDS Reachability

CONSTANTS Pair,        \* the cells of the matrix
          TestCases    \* the test cases a caller passes, with their flags

VARIABLES tc,          \* the test case being validated
          attempt,     \* 1 or 2
          pending,     \* the pairs this attempt has not observed yet
          observed,    \* the observed table
          bandwidth,   \* the observed bandwidths
          outcome,     \* "running", "done" or "panicked"
          wrong        \* the verdict; 0 before there is one

vars == <<tc, attempt, pending, observed, bandwidth, outcome, wrong>>

FalsePairs ==
  FalseObs(tc.expected, observed, bandwidth, tc.ignoreLoopback, tc.mode = "iperf")

Init ==
  /\ tc \in TestCases
  /\ attempt = 1
  /\ pending = Pair
  /\ observed = EmptyTable
  /\ bandwidth = [pair \in Pair |-> "nil"]
  /\ outcome = "running"
  /\ wrong = 0

Observe(pair, connected, measured) ==
  /\ outcome = "running"
  /\ pair \in pending
  /\ pending' = pending \ {pair}
  /\ observed' = Set(observed, pair, connected)
  /\ bandwidth' = [bandwidth EXCEPT ![pair] = measured]
  /\ UNCHANGED <<tc, attempt, outcome, wrong>>

Retry ==
  /\ outcome = "running"
  /\ pending = {}
  /\ attempt = 1
  /\ FalsePairs # {}
  /\ attempt' = 2
  /\ pending' = Pair
  /\ UNCHANGED <<tc, observed, bandwidth, outcome, wrong>>

Finish ==
  /\ outcome = "running"
  /\ pending = {}
  /\ attempt = 2 \/ FalsePairs = {}
  /\ outcome' = "done"
  /\ wrong' = Cardinality(FalsePairs)
  /\ UNCHANGED <<tc, attempt, pending, observed, bandwidth>>

Panic ==
  /\ outcome = "running"
  /\ tc.mode = "iperf"
  /\ outcome' = "panicked"
  /\ UNCHANGED <<tc, attempt, pending, observed, bandwidth, wrong>>

Next ==
  \/ \E pair \in Pair, connected \in BOOLEAN, measured \in Bandwidth :
       Observe(pair, connected, measured)
  \/ Retry
  \/ Finish
  \/ Panic

Spec == Init /\ [][Next]_vars
=============================================================================
