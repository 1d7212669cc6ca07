---------------------------- MODULE MCValidation ----------------------------
(***************************************************************************)
(* Instances of Validation for TLC: two pods, hence four pairs, and fewer  *)
(* goroutines than pairs, so that each may get more than one job or none.  *)
(***************************************************************************)
EXTENDS Validation, TLC

Allow == NewTruthTable(Pair, TRUE)
NoLoopback == ExpectPeer(ExpectPeer(Allow, {1}, {1}, FALSE), {2}, {2}, FALSE)

Case(expected, skip, unaddressed, ignoreLoopback, mode) ==
  [expected |-> expected, skip |-> skip, unaddressed |-> unaddressed,
   ignoreLoopback |-> ignoreLoopback, mode |-> mode]

(* As the tests call it: everything is expected to be reachable (services),*)
(* or all but one pair (label_test), loopback ignored or not.              *)
ConnectCases ==
  {Case(Allow, {}, {}, FALSE, "connect"),
   Case(NoLoopback, {}, {}, FALSE, "connect"),
   Case(NoLoopback, {}, {}, TRUE, "connect"),
   Case(Allow, {2}, {}, FALSE, "connect"),
   Case(ExpectPeer(Allow, {1}, {2}, FALSE), {}, {2}, FALSE, "connect")}

(* The answer of the target itself is wanted, or its bandwidth.            *)
MeasuredCases ==
  {Case(NoLoopback, {}, {}, TRUE, "nc"), Case(Allow, {2}, {}, FALSE, "iperf")}

AllCases == ConnectCases \cup MeasuredCases

(* One case of each kind of probe, for the larger graph that liveness needs.*)
LiveCases ==
  {Case(NoLoopback, {2}, {}, TRUE, "connect"), Case(Allow, {}, {}, TRUE, "nc"),
   Case(Allow, {2}, {}, TRUE, "iperf")}

OneNetwork == {NoLoopback}

(* Every path works, or a pod cannot reach itself: the missing hairpin.     *)
TwoNetworks == {Allow, NoLoopback}

WorkerSymmetry == Permutations(Worker)
=============================================================================
