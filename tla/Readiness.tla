------------------------------ MODULE Readiness ------------------------------
(***************************************************************************)
(* WaitForHTTPServers of pkg/matrix/manager.go: before the first test, the  *)
(* servers of all pods are probed with the attempts of the test suite, case *)
(* by case (a port and a protocol), until every case was right once.        *)
(*                                                                         *)
(* A round goes over the cases that are not ready, in the order of a map.   *)
(* The pool that makes an attempt is module Validation; what is kept of it  *)
(* is what is proved there (TableIsOfTheAttempt): it ends with one of the   *)
(* Observations of what was up and down at some moment of it.  Servers      *)
(* start and stop at any time.  A pod without an address (module            *)
(* PodStartup) is not reached: the probing pod dials itself.               *)
(***************************************************************************)
EXTENDS Reachability

CONSTANTS
  Node,      \* the pods that Setup may leave in the model
  Case,      \* ports and protocols of their containers
  MaxTries,  \* 10 in the code
  MaxUpsets  \* bound: probes that fail although the server is up

ASSUME ReadinessAssumption ==
  /\ IsFiniteSet(Node)
  /\ MaxTries \in Nat \ {0}
  /\ MaxUpsets \in Nat

VARIABLES
  pods, addressed,  \* model.AllPods(), and those of them with an address
  up,               \* the servers that are up, by case
  pc,               \* the caller: between attempts, in one, or returned
  round,            \* the round, i + 1
  left,             \* the cases that the range over testCases has not reached
  notReady,         \* the map of that name
  case,             \* the case that is probed
  seen,             \* history: the servers that were up, down in this attempt
  last,             \* history: what the last attempt of a case rests on
  tried,            \* history: the rounds in which a case had an attempt
  upsets

probing == <<case, seen, last, tried>>
vars == <<pods, addressed, up, pc, round, left, notReady, probing, upsets>>

Pairs == pods \X pods

(* The empty model has no containers, hence no ports and no cases.          *)
Cases == IF pods = {} THEN {} ELSE Case

(* The server that answers a probe.                                        *)
Server(pair) == IF pair[2] \in addressed THEN pair[2] ELSE pair[1]

Sights == [up : SUBSET Node, down : SUBSET Node]
Nothing == [up |-> {}, down |-> {}]

(* All servers were up at some moment of it; some was not, or a probe failed.*)
Grounds == [allUp : BOOLEAN, fault : BOOLEAN]

TypeOK ==
  /\ pods \subseteq Node
  /\ addressed \subseteq pods
  /\ up \in [Case -> SUBSET Node]
  /\ pc \in {"round", "attempt", "ready", "error"}
  /\ round \in 1 .. MaxTries
  /\ notReady \subseteq Cases
  /\ left \subseteq notReady
  /\ pc = "attempt" => case \in left
  /\ seen \in Sights
  /\ last \in [Case -> Grounds]
  /\ tried \in [Case -> SUBSET (1 .. MaxTries)]
  /\ upsets \in 0 .. MaxUpsets

Init ==
  /\ pods \in SUBSET Node
  /\ addressed \in SUBSET pods
  /\ up \in [Case -> SUBSET pods]
  /\ pc = "round"
  /\ round = 1
  /\ left = Cases
  /\ notReady = Cases
  /\ case \in Case
  /\ seen = Nothing
  /\ last = [c \in Case |-> [allUp |-> FALSE, fault |-> FALSE]]
  /\ tried = [c \in Case |-> {}]
  /\ upsets = 0

-----------------------------------------------------------------------------
(* A server starts or stops.                                               *)
Flip ==
  /\ \E c \in Cases, p \in pods :
       /\ up' = [up EXCEPT ![c] = IF p \in @ THEN @ \ {p} ELSE @ \union {p}]
       /\ seen' = IF pc # "attempt" \/ c # case THEN seen
                  ELSE [seen EXCEPT !.up = @ \union up'[c], !.down = @ \union (pods \ up'[c])]
  /\ UNCHANGED <<pods, addressed, pc, round, left, notReady, case, last, tried, upsets>>

(* A case that is not ready gets a new attempt.                            *)
StartAttempt ==
  /\ pc = "round"
  /\ case' \in left
  /\ seen' = [up |-> up[case'], down |-> pods \ up[case']]
  /\ tried' = [tried EXCEPT ![case'] = @ \union {round}]
  /\ pc' = "attempt"
  /\ UNCHANGED <<pods, addressed, up, round, left, notReady, last, upsets>>

(* The tables that an attempt may end with: a pair is up when the server   *)
(* that answers its probe is.                                              *)
Observable(failing) ==
  Observations(Pairs, {pair \in Pairs : Server(pair) \in seen.up},
                      {pair \in Pairs : Server(pair) \in seen.down}, failing)

(* Reachability.Summary of a new table that expects everything.            *)
Summarised(observed) ==
  Summary(NewTruthTable(Pairs, TRUE), observed, [pair \in Pairs |-> "nil"], FALSE, FALSE)

(* Mutant of IsReady: the first result of Summary instead of the second.    *)
IsPartlyReady(observed) == Summarised(observed).right # 0

IsReady(observed) == Summarised(observed).wrong = 0

EndAttempt ==
  /\ pc = "attempt"
  /\ \E failing \in SUBSET Pairs :
       /\ upsets + Cardinality(failing) <= MaxUpsets
       /\ upsets' = upsets + Cardinality(failing)
       /\ last' = [last EXCEPT ![case] =
                  [allUp |-> pods \subseteq seen.up, fault |-> seen.down # {} \/ failing # {}]]
       /\ \E observed \in Observable(failing) :
            notReady' = IF IsReady(observed) THEN notReady \ {case} ELSE notReady
  /\ left' = left \ {case}
  /\ seen' = Nothing
  /\ pc' = "round"
  /\ UNCHANGED <<pods, addressed, up, round, case, tried>>

(* Mutants of IsLastRound: one round less, one round more.                 *)
IsLastButOne == round + 1 >= MaxTries
OneRoundMore == round > MaxTries

IsLastRound == round = MaxTries

(* Mutant of NextRound: rounds are not counted.                            *)
SameRound == round

NextRound == round + 1

EndRound ==
  /\ pc = "round"
  /\ left = {}
  /\ \/ notReady = {} /\ pc' = "ready" /\ UNCHANGED <<round, left>>
     \/ /\ notReady # {}
        /\ ~IsLastRound
        /\ round' = NextRound
        /\ left' = notReady
        /\ UNCHANGED pc
     \/ notReady # {} /\ IsLastRound /\ pc' = "error" /\ UNCHANGED <<round, left>>
  /\ UNCHANGED <<pods, addressed, up, notReady, probing, upsets>>

CallerStep == StartAttempt \/ EndAttempt \/ EndRound

Terminated == pc \in {"ready", "error"} /\ UNCHANGED vars

Next == CallerStep \/ Flip \/ Terminated

Spec == Init /\ [][Next]_vars

(* Probes end (see module Validation), so the caller gets on.               *)
FairSpec == Spec /\ WF_vars(CallerStep)

-----------------------------------------------------------------------------
(* Ready means: of every case, the server of every pod was up during the    *)
(* last attempt.  Not that all were up at one moment, nor that a pod        *)
(* without an address was reached by another.                              *)
ReadyIsBacked ==
  pc = "ready" => \A c \in Cases : last[c].allUp

(* An error means: some case was tried in every round, and its last attempt *)
(* had a reason, a server that was down or a probe that failed.             *)
FailureIsBacked ==
  pc = "error" =>
    /\ notReady # {}
    /\ \A c \in notReady : tried[c] = 1 .. MaxTries /\ last[c].fault

(* The attempts that may still be made, by case and round.                 *)
Ahead ==
  {try \in Cases \X (1 .. MaxTries) :
     \/ try[2] = round /\ try[1] \in left
     \/ try[2] > round /\ try[1] \in notReady}

(* The caller never starts over (manager.go:313-328): an attempt is one that *)
(* was still ahead and takes itself off; nothing is ever added, whichever    *)
(* case a round begins with and however often servers come and go; no case   *)
(* is tried twice in a round, and no round ends before every case that is    *)
(* not ready was tried in it.                                              *)
AttemptsRunOut ==
  [][ /\ Ahead' \subseteq Ahead
      /\ pc = "round" /\ pc' = "attempt" => <<case', round>> \in Ahead /\ round \notin tried[case']
      /\ pc = "attempt" /\ pc' # "attempt" => <<case, round>> \in Ahead \ Ahead'
      /\ round' # round => \A c \in notReady : round \in tried[c] ]_vars

(* WaitForHTTPServers returns, whatever the servers do.                     *)
WaitEnds == <>(pc \in {"ready", "error"})
=============================================================================
