---------------------------- MODULE Reachability ----------------------------
(***************************************************************************)
(* The reachability matrix of pkg/matrix: TruthTable (truthtable.go) and   *)
(* the comparison of the expected with the observed table (reachability.go)*)
(*                                                                         *)
(* A table is a function from pairs <<from, to>> of pods to BOOLEAN.  The  *)
(* expected table is total, NewReachability fills it with a default; the   *)
(* observed one starts empty and grows with every observation, so its      *)
(* DOMAIN is the set of pairs that were ever observed.  A measured         *)
(* bandwidth is "nil", "low" (below the benchmark of consts.go) or "high". *)
(***************************************************************************)
EXTENDS Naturals, FiniteSets

Bandwidth == {"nil", "low", "high"}

(* A freshly created table: every pair at the default, or no pair at all.  *)
NewTruthTable(pairs, default) == [pair \in pairs |-> default]
EmptyTable == [pair \in {} |-> FALSE]

(* Mutant of Set: what the first attempt observed stays.                   *)
SetOnce(table, pair, value) ==
  [p \in DOMAIN table \cup {pair} |-> IF p \in DOMAIN table THEN table[p] ELSE value]

Set(table, pair, value) ==
  [p \in DOMAIN table \cup {pair} |-> IF p = pair THEN value ELSE table[p]]

(* Reading a key that is not in the map yields the zero value of bool.     *)
Get(table, pair) == pair \in DOMAIN table /\ table[pair]

(* Reachability.ExpectPeer: a Peer stands for the set of pods it matches.  *)
ExpectPeer(expected, from, to, connected) ==
  [pair \in DOMAIN expected |->
     IF pair[1] \in from /\ pair[2] \in to THEN connected ELSE expected[pair]]

IsComplete(pairs, table) == pairs \subseteq DOMAIN table

(* The keys of the comparison are those of the receiver, the expected      *)
(* table, whatever was observed.                                           *)
Compare(expected, observed) ==
  [pair \in DOMAIN expected |-> expected[pair] = Get(observed, pair)]

(* What an attempt may observe of a matrix that was empty or has been seen *)
(* before: every pair, each connected one was up during the attempt, each  *)
(* other one was down, or its probe failed on its own and said so.         *)
Observations(pairs, up, down, failing) ==
  {table \in [pairs -> BOOLEAN] :
     \A pair \in pairs : IF table[pair] THEN pair \in up \ failing
                                       ELSE pair \in down \cup failing}

(***************************************************************************)
(* Reachability.Summary sorts the pairs of the comparison into ignored,    *)
(* false and true observations and counts each of them.                    *)
(***************************************************************************)
Loopback(pair) == pair[1] = pair[2]

IgnoredObs(expected, ignoreLoopback) ==
  {pair \in DOMAIN expected : ignoreLoopback /\ Loopback(pair)}

(* A pair that agrees, was connected and measured below the benchmark.     *)
TooSlow(observed, bandwidth, pair) ==
  Get(observed, pair) /\ bandwidth[pair] = "low"

FalseObs(expected, observed, bandwidth, ignoreLoopback, measureBandwidth) ==
  {pair \in DOMAIN expected \ IgnoredObs(expected, ignoreLoopback) :
     \/ ~Compare(expected, observed)[pair]
     \/ measureBandwidth /\ TooSlow(observed, bandwidth, pair)}

TrueObs(expected, observed, bandwidth, ignoreLoopback, measureBandwidth) ==
  DOMAIN expected \
    (IgnoredObs(expected, ignoreLoopback) \cup
     FalseObs(expected, observed, bandwidth, ignoreLoopback, measureBandwidth))

Summary(expected, observed, bandwidth, ignoreLoopback, measureBandwidth) ==
  [right   |-> Cardinality(TrueObs(expected, observed, bandwidth,
                                   ignoreLoopback, measureBandwidth)),
   wrong   |-> Cardinality(FalseObs(expected, observed, bandwidth,
                                    ignoreLoopback, measureBandwidth)),
   ignored |-> Cardinality(IgnoredObs(expected, ignoreLoopback))]
=============================================================================
