--------------------------- MODULE ReadinessProofs ---------------------------
(***************************************************************************)
(* What WaitForHTTPServers says when it returns, for any number of pods,    *)
(* cases and rounds.                                                       *)
(***************************************************************************)
EXTENDS Readiness, TLAPS, FiniteSetTheorems

USE DEF Nothing, Sights, Grounds

-----------------------------------------------------------------------------
(***************************************************************************)
(* What a table of an attempt says.                                        *)
(***************************************************************************)

(* Probes are pairs of pods, finitely many.                                *)
LEMMA PairsAreFinite ==
  ASSUME pods \subseteq Node
  PROVE  IsFiniteSet(Pairs)
<1>1. IsFiniteSet(pods)
  BY ReadinessAssumption, FS_Subset
<1> QED
  BY <1>1, FS_Product DEF Pairs

(* A case is ready exactly when every probe of the attempt got through.    *)
LEMMA ReadyIfAllConnected ==
  ASSUME pods \subseteq Node,
         NEW observed \in [Pairs -> BOOLEAN]
  PROVE  IsReady(observed) <=> \A pair \in Pairs : observed[pair]
<1> DEFINE expected == NewTruthTable(Pairs, TRUE)
           wrong == FalseObs(expected, observed, [pair \in Pairs |-> "nil"], FALSE, FALSE)
<1>1. wrong = {pair \in Pairs : ~observed[pair]}
  BY DEF FalseObs, IgnoredObs, Compare, Get, NewTruthTable
<1>2. IsFiniteSet(wrong)
  BY <1>1, PairsAreFinite, FS_Subset
<1>3. IsReady(observed) <=> Cardinality(wrong) = 0
  BY DEF IsReady, Summarised, Summary
<1>4. Cardinality(wrong) = 0 <=> wrong = {}
  BY <1>2, FS_EmptySet
<1> QED
  BY <1>1, <1>3, <1>4

(* If every probe got through, the server of every pod was up.             *)
LEMMA ReadySawAllUp ==
  ASSUME pods \subseteq Node,
         NEW failing \in SUBSET Pairs,
         NEW observed \in Observable(failing),
         IsReady(observed)
  PROVE  pods \subseteq seen.up
<1>1. observed \in [Pairs -> BOOLEAN]
  BY DEF Observable, Observations
<1>2. \A pair \in Pairs : observed[pair]
  BY <1>1, ReadyIfAllConnected
<1>3. ASSUME NEW p \in pods PROVE p \in seen.up
  <2>1. <<p, p>> \in Pairs /\ Server(<<p, p>>) = p
    BY DEF Pairs, Server
  <2> QED
    BY <1>2, <2>1 DEF Observable, Observations
<1> QED
  BY <1>3

(* If one did not, a server was down or the probe failed on its own.       *)
LEMMA NotReadyHasAReason ==
  ASSUME pods \subseteq Node,
         NEW failing \in SUBSET Pairs,
         NEW observed \in Observable(failing),
         ~IsReady(observed)
  PROVE  seen.down # {} \/ failing # {}
<1>1. observed \in [Pairs -> BOOLEAN]
  BY DEF Observable, Observations
<1>2. PICK pair \in Pairs : ~observed[pair]
  BY <1>1, ReadyIfAllConnected
<1> QED
  BY <1>2 DEF Observable, Observations

-----------------------------------------------------------------------------
(* Every reachable state of the wait is of its type.                       *)
THEOREM ReadinessTypes == Spec => []TypeOK
<1>1. Init => TypeOK
  <2> SUFFICES ASSUME Init PROVE TypeOK
    OBVIOUS
  <2>1. Cases \subseteq Case
    BY DEF Cases
  <2> QED
    BY <2>1, ReadinessAssumption DEF Init, TypeOK
<1>2. TypeOK /\ [Next]_vars => TypeOK'
  <2> SUFFICES ASSUME TypeOK, [Next]_vars PROVE TypeOK'
    OBVIOUS
  <2> USE ReadinessAssumption
  <2>0. Cases \subseteq Case
    BY DEF Cases
  <2>1. CASE Flip
    <3>1. Cases' = Cases
      BY <2>1 DEF Flip, Cases
    <3>2. PICK c \in Cases, p \in pods :
            /\ up' = [up EXCEPT ![c] = IF p \in @ THEN @ \ {p} ELSE @ \union {p}]
            /\ seen' = IF pc # "attempt" \/ c # case THEN seen
                       ELSE [seen EXCEPT !.up = @ \union up'[c],
                                         !.down = @ \union (pods \ up'[c])]
      BY <2>1 DEF Flip
    <3>3. up' \in [Case -> SUBSET Node]
      BY <3>2, <2>0 DEF TypeOK
    <3>4. seen' \in [up : SUBSET Node, down : SUBSET Node]
      BY <3>2, <3>3, <2>0 DEF TypeOK
    <3> QED
      BY <2>1, <3>1, <3>3, <3>4 DEF Flip, TypeOK
  <2>2. CASE StartAttempt
    <3>1. Cases' = Cases /\ case' \in left /\ left \subseteq Case
      BY <2>2, <2>0 DEF StartAttempt, Cases, TypeOK
    <3>2. seen' \in [up : SUBSET Node, down : SUBSET Node]
      BY <2>2, <3>1 DEF StartAttempt, TypeOK
    <3>3. tried' \in [Case -> SUBSET (1 .. MaxTries)]
      BY <2>2, <3>1 DEF StartAttempt, TypeOK
    <3> QED
      BY <2>2, <3>1, <3>2, <3>3 DEF StartAttempt, TypeOK
  <2>3. CASE EndAttempt
    <3>1. PICK failing \in SUBSET Pairs :
            /\ upsets + Cardinality(failing) <= MaxUpsets
            /\ upsets' = upsets + Cardinality(failing)
            /\ last' = [last EXCEPT ![case] =
                         [allUp |-> pods \subseteq seen.up, fault |-> seen.down # {} \/ failing # {}]]
            /\ \E observed \in Observable(failing) :
                 notReady' = IF IsReady(observed) THEN notReady \ {case} ELSE notReady
      BY <2>3 DEF EndAttempt
    <3>2. IsFiniteSet(failing)
      BY PairsAreFinite, FS_Subset DEF TypeOK
    <3>3. Cardinality(failing) \in Nat
      BY <3>2, FS_CardinalityType
    <3>4. upsets' \in 0 .. MaxUpsets
      BY <3>1, <3>3 DEF TypeOK
    <3>5. Cases' = Cases /\ case \in left /\ left \subseteq Case
      BY <2>3, <2>0 DEF EndAttempt, Cases, TypeOK
    <3>6. last' \in [Case -> [allUp : BOOLEAN, fault : BOOLEAN]]
      BY <3>1, <3>5 DEF TypeOK
    <3>7. notReady' \subseteq Cases /\ left' \subseteq notReady'
      BY <2>3, <3>1 DEF EndAttempt, TypeOK
    <3> QED
      BY <2>3, <3>4, <3>5, <3>6, <3>7 DEF EndAttempt, TypeOK
  <2>4. CASE EndRound
    BY <2>4 DEF EndRound, probing, Cases, TypeOK, IsLastRound, NextRound
  <2>5. CASE Terminated \/ UNCHANGED vars
    BY <2>5 DEF Terminated, vars, probing, Cases, TypeOK
  <2> QED
    BY <2>1, <2>2, <2>3, <2>4, <2>5 DEF Next, CallerStep
<1> QED
  BY <1>1, <1>2, PTL DEF Spec

-----------------------------------------------------------------------------
(***************************************************************************)
(* The invariant: what the rounds so far say of every case.                *)
(***************************************************************************)

(* A case that is ready rests on its last attempt.                         *)
ReadyCases == \A c \in Cases \ notReady : last[c].allUp

(* One that is not had an attempt in every round so far, or in all but this *)
(* one, and the last that is over had a reason to fail.                    *)
Behind(c) == c \in left /\ ~(pc = "attempt" /\ c = case)

UnreadyCases ==
  \A c \in notReady :
    /\ tried[c] = IF Behind(c) THEN 1 .. round - 1 ELSE 1 .. round
    /\ c \notin left \/ round > 1 => last[c].fault

Returns ==
  /\ pc = "ready" => notReady = {}
  /\ pc = "error" => notReady # {} /\ left = {} /\ round = MaxTries

Rounds == ReadyCases /\ UnreadyCases /\ Returns

LEMMA RoundsInit == Init => Rounds
<1> SUFFICES ASSUME Init PROVE Rounds
  OBVIOUS
<1>1. notReady = Cases /\ left = Cases /\ Cases \subseteq Case
  BY DEF Init, Cases
<1>2. 1 .. round - 1 = {}
  BY DEF Init
<1> QED
  BY <1>1, <1>2 DEF Init, Rounds, ReadyCases, UnreadyCases, Returns, Behind

LEMMA RoundsStep == TypeOK /\ Rounds /\ [Next]_vars => Rounds'
<1> SUFFICES ASSUME TypeOK, Rounds, [Next]_vars PROVE Rounds'
  OBVIOUS
<1> USE ReadinessAssumption
<1>0. Cases \subseteq Case
  BY DEF Cases
<1>1. CASE Flip
  BY <1>1 DEF Flip, Rounds, ReadyCases, UnreadyCases, Returns, Behind, Cases
<1>2. CASE StartAttempt
  <2>1. Cases' = Cases /\ case' \in left /\ pc = "round" /\ pc' = "attempt"
    BY <1>2 DEF StartAttempt, Cases
  <2>2. ReadyCases' /\ Returns'
    BY <1>2, <2>1 DEF StartAttempt, Rounds, ReadyCases, Returns
  <2>3. ASSUME NEW c \in notReady
        PROVE  /\ tried'[c] = IF Behind(c)' THEN 1 .. round - 1 ELSE 1 .. round
               /\ c \notin left \/ round > 1 => last[c].fault
    <3>1. c \in Case /\ case' \in Case
      BY <1>0, <2>1 DEF TypeOK
    <3>2. tried[c] = IF c \in left THEN 1 .. round - 1 ELSE 1 .. round
      BY <2>1 DEF Rounds, UnreadyCases, Behind
    <3>3. (1 .. round - 1) \union {round} = 1 .. round
      BY DEF TypeOK
    <3>4. tried'[c] = IF c = case' THEN tried[c] \union {round} ELSE tried[c]
      BY <1>2, <3>1 DEF StartAttempt, TypeOK
    <3>5. Behind(c)' <=> c \in left /\ c # case'
      BY <1>2, <2>1 DEF StartAttempt, Behind
    <3> QED
      BY <2>1, <3>2, <3>3, <3>4, <3>5 DEF Rounds, UnreadyCases
  <2>4. UnreadyCases'
    BY <1>2, <2>3 DEF StartAttempt, UnreadyCases
  <2> QED
    BY <2>2, <2>4 DEF Rounds
<1>3. CASE EndAttempt
  <2>1. PICK failing \in SUBSET Pairs :
          /\ last' = [last EXCEPT ![case] =
                       [allUp |-> pods \subseteq seen.up, fault |-> seen.down # {} \/ failing # {}]]
          /\ \E observed \in Observable(failing) :
               notReady' = IF IsReady(observed) THEN notReady \ {case} ELSE notReady
    BY <1>3 DEF EndAttempt
  <2>2. PICK observed \in Observable(failing) :
          notReady' = IF IsReady(observed) THEN notReady \ {case} ELSE notReady
    BY <2>1
  <2>3. /\ Cases' = Cases /\ case \in left /\ left \subseteq notReady
        /\ notReady \subseteq Cases /\ pc = "attempt" /\ pc' = "round"
        /\ left' = left \ {case} /\ round' = round /\ tried' = tried
    BY <1>3 DEF EndAttempt, Cases, TypeOK
  <2>4. case \in Case
    BY <1>0, <2>3
  <2>5. /\ last'[case] = [allUp |-> pods \subseteq seen.up,
                          fault |-> seen.down # {} \/ failing # {}]
        /\ \A c \in Case \ {case} : last'[c] = last[c]
    BY <2>1, <2>4 DEF TypeOK
  <2>6. ReadyCases'
    <3> SUFFICES ASSUME NEW c \in Cases, c \notin notReady' PROVE last'[c].allUp
      BY <2>3 DEF ReadyCases
    <3>1. CASE c = case
      <4>1. IsReady(observed)
        BY <2>2, <2>3, <3>1
      <4>2. pods \subseteq seen.up
        BY <4>1, ReadySawAllUp DEF TypeOK
      <4>3. last'[case].allUp = (pods \subseteq seen.up)
        BY <2>5
      <4> QED
        BY <3>1, <4>2, <4>3
    <3>2. CASE c # case
      BY <3>2, <1>0, <2>2, <2>5 DEF Rounds, ReadyCases
    <3> QED
      BY <3>1, <3>2
  <2>7. ASSUME NEW c \in notReady'
        PROVE  /\ tried[c] = IF Behind(c)' THEN 1 .. round - 1 ELSE 1 .. round
               /\ c \notin left' \/ round > 1 => last'[c].fault
    <3>1. c \in notReady /\ c \in Case
      BY <1>0, <2>2, <2>3
    <3>2. Behind(c)' <=> Behind(c)
      BY <2>3 DEF Behind
    <3>3. tried[c] = IF Behind(c)' THEN 1 .. round - 1 ELSE 1 .. round
      BY <3>1, <3>2 DEF Rounds, UnreadyCases
    <3>4. CASE c = case
      <4>1. ~IsReady(observed)
        BY <2>2, <3>4
      <4>2. seen.down # {} \/ failing # {}
        BY <4>1, NotReadyHasAReason DEF TypeOK
      <4>3. last'[case].fault = (seen.down # {} \/ failing # {})
        BY <2>5
      <4> QED
        BY <3>3, <3>4, <4>2, <4>3
    <3>5. CASE c # case
      BY <3>1, <3>3, <3>5, <2>3, <2>5 DEF Rounds, UnreadyCases
    <3> QED
      BY <3>4, <3>5
  <2>8. UnreadyCases' /\ Returns'
    BY <2>3, <2>7 DEF UnreadyCases, Returns
  <2> QED
    BY <2>6, <2>8 DEF Rounds
<1>4. CASE EndRound
  <2>1. /\ Cases' = Cases /\ notReady' = notReady /\ last' = last /\ tried' = tried
        /\ pc = "round" /\ left = {} /\ pc' # "attempt" /\ round \in Nat
    BY <1>4 DEF EndRound, probing, Cases, TypeOK
  <2>2. ReadyCases'
    BY <2>1 DEF Rounds, ReadyCases
  <2>3. Returns'
    BY <1>4, <2>1 DEF EndRound, Returns, IsLastRound
  <2>4. ASSUME NEW c \in notReady
        PROVE  tried[c] = 1 .. round /\ last[c].fault
    BY <2>1 DEF Rounds, UnreadyCases, Behind
  <2>5. UnreadyCases'
    <3>1. CASE round' = round + 1 /\ left' = notReady
      <4>1. round' - 1 = round
        BY <2>1, <3>1
      <4> QED
        BY <2>1, <2>4, <3>1, <4>1 DEF UnreadyCases, Behind
    <3>2. CASE round' = round /\ left' = left
      BY <2>1, <2>4, <3>2 DEF UnreadyCases, Behind
    <3> QED
      BY <1>4, <3>1, <3>2 DEF EndRound, NextRound
  <2> QED
    BY <2>2, <2>3, <2>5 DEF Rounds
<1>5. CASE Terminated \/ UNCHANGED vars
  BY <1>5 DEF Terminated, vars, probing, Rounds, ReadyCases, UnreadyCases, Returns, Behind, Cases
<1> QED
  BY <1>1, <1>2, <1>3, <1>4, <1>5 DEF Next, CallerStep

(* What the rounds so far say of every case, in every reachable state.      *)
THEOREM RoundsHold == Spec => []Rounds
<1>1. Spec => []TypeOK
  BY ReadinessTypes
<1> QED
  BY <1>1, RoundsInit, RoundsStep, PTL DEF Spec

-----------------------------------------------------------------------------
(* WaitForHTTPServers returns without an error only if the server of every  *)
(* pod was up in the last attempt of every case.                           *)
THEOREM ReadyMeansWasUp == Spec => []ReadyIsBacked
<1>1. Rounds => ReadyIsBacked
  BY DEF Rounds, ReadyCases, Returns, ReadyIsBacked
<1> QED
  BY <1>1, RoundsHold, PTL

(* It returns an error only if some case was tried in every round and had a *)
(* reason to fail the last time.                                           *)
THEOREM ErrorMeansTried == Spec => []FailureIsBacked
<1>1. Rounds => FailureIsBacked
  BY DEF Rounds, UnreadyCases, Returns, Behind, FailureIsBacked
<1> QED
  BY <1>1, RoundsHold, PTL

-----------------------------------------------------------------------------
(* The four parts of AttemptsRunOut, where a step of the caller can touch   *)
(* them.                                                                   *)
LEMMA AheadStep ==
  ASSUME TypeOK, Rounds, [Next]_vars
  PROVE  /\ Ahead' \subseteq Ahead
         /\ pc = "round" /\ pc' = "attempt" => <<case', round>> \in Ahead /\ round \notin tried[case']
         /\ pc = "attempt" /\ pc' # "attempt" => <<case, round>> \in Ahead \ Ahead'
         /\ round' # round => \A c \in notReady : round \in tried[c]
<1> DEFINE Goal ==
      /\ Ahead' \subseteq Ahead
      /\ pc = "round" /\ pc' = "attempt" => <<case', round>> \in Ahead /\ round \notin tried[case']
      /\ pc = "attempt" /\ pc' # "attempt" => <<case, round>> \in Ahead \ Ahead'
      /\ round' # round => \A c \in notReady : round \in tried[c]
<1>1. /\ round \in 1 .. MaxTries /\ round \in Nat /\ MaxTries \in Nat
      /\ left \subseteq notReady /\ notReady \subseteq Cases
  BY ReadinessAssumption DEF TypeOK
<1>2. CASE UNCHANGED <<pods, round, left, notReady, pc>>
  BY <1>2 DEF Ahead, Cases
<1>3. CASE StartAttempt
  <2>1. /\ Ahead' = Ahead /\ pc = "round" /\ pc' = "attempt" /\ case' \in left /\ round' = round
    BY <1>3 DEF StartAttempt, Ahead, Cases
  <2>2. <<case', round>> \in Ahead
    BY <1>1, <2>1 DEF Ahead
  <2>3. tried[case'] = 1 .. round - 1
    BY <1>1, <2>1 DEF Rounds, UnreadyCases, Behind
  <2>4. round \notin 1 .. round - 1
    BY <1>1
  <2> QED
    BY <2>1, <2>2, <2>3, <2>4
<1>4. CASE EndAttempt
  <2>1. /\ notReady' \subseteq notReady /\ left' = left \ {case} /\ round' = round /\ Cases' = Cases
        /\ pc = "attempt" /\ pc' = "round" /\ case \in left
    BY <1>4 DEF EndAttempt, Cases, TypeOK
  <2>2. Ahead' \subseteq Ahead
    BY <2>1 DEF Ahead
  <2>3. <<case, round>> \in Ahead
    BY <1>1, <2>1 DEF Ahead
  <2>4. <<case, round>> \notin Ahead'
    BY <1>1, <2>1 DEF Ahead
  <2> QED
    BY <2>1, <2>2, <2>3, <2>4
<1>5. CASE EndRound
  <2>1. /\ pc = "round" /\ pc' # "attempt" /\ left = {} /\ notReady' = notReady /\ Cases' = Cases
        /\ \/ round' = round /\ left' = left
           \/ round' = round + 1 /\ left' = notReady
    BY <1>5 DEF EndRound, NextRound, Cases
  <2>2. ASSUME NEW c \in notReady PROVE round \in tried[c]
    <3>1. tried[c] = 1 .. round
      BY <2>1, <2>2 DEF Rounds, UnreadyCases, Behind
    <3> QED
      BY <1>1, <3>1
  <2>3. Ahead' \subseteq Ahead
    <3>1. CASE round' = round /\ left' = left
      BY <2>1, <3>1 DEF Ahead
    <3>2. CASE round' = round + 1 /\ left' = notReady
      BY <1>1, <2>1, <3>2 DEF Ahead
    <3> QED
      BY <2>1, <3>1, <3>2
  <2> QED
    BY <2>1, <2>2, <2>3
<1>6. CASE Flip \/ Terminated \/ UNCHANGED vars
  BY <1>2, <1>6 DEF Flip, Terminated, vars
<1> QED
  BY <1>3, <1>4, <1>5, <1>6 DEF Next, CallerStep

(* The attempts run out: each one is new and none is ever added, so that    *)
(* there is an end to them for any number of cases and rounds.              *)
THEOREM NoAttemptIsRepeated == Spec => AttemptsRunOut
<1>1. TypeOK /\ Rounds /\ [Next]_vars =>
        [ /\ Ahead' \subseteq Ahead
          /\ pc = "round" /\ pc' = "attempt" =>
               <<case', round>> \in Ahead /\ round \notin tried[case']
          /\ pc = "attempt" /\ pc' # "attempt" => <<case, round>> \in Ahead \ Ahead'
          /\ round' # round => \A c \in notReady : round \in tried[c] ]_vars
  BY AheadStep
<1> QED
  BY <1>1, ReadinessTypes, RoundsHold, PTL DEF Spec, AttemptsRunOut
=============================================================================
