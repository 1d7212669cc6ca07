------------------------ MODULE ServiceWatchProofs ------------------------
(***************************************************************************)
(* Theorems about ServiceWatch, for any services and any backlog.          *)
(***************************************************************************)
EXTENDS ServiceWatch, FiniteSetTheorems, SequenceTheorems, TLAPS

-----------------------------------------------------------------------------
(* What holds of one event: what it shows was so.  Shows of a service watch*)
(* are kinds of address, of an endpoints watch kinds of subset, so the two *)
(* cannot be mistaken for each other.                                      *)
TrueOf(e, h) ==
  /\ "ready" \in e.shows => e.of \in h["endpoint"]
  /\ \A w \in Trait : w \in e.shows => e.of \in h[w]

WasTrue(e) == TrueOf(e, had)

EventsWereTrue == \A i \in 1..Len(events) : WasTrue(events[i])

(* What is so now is part of the history.                                  *)
HistoryIsComplete ==
  \A w \in Shown, s \in Service : Shows(s, w, granted, subsets) => s \in had[w]

(* An address that Mine has while it is waited for has been collected, or  *)
(* an event on its way shows it, or one on its way breaks the watch.       *)
OnItsWay(w) ==
  \E i \in 1..Len(events) :
    events[i] = Broken \/ (events[i].of = Mine /\ w \in events[i].shows)

GrantsAreOnTheirWay ==
  pc = "wait" /\ Current \in granted[Mine] =>
    OnItsWay(Current) \/ (Current = "externalIP" /\ Mine \in answer[Current])

OnlyCreatedHaveAddresses ==
  \A s \in Service : granted[s] # {} => s \in created

(* While a wait runs its own kind of watch is open, or an event on its way *)
(* breaks it.                                                              *)
WatchIsOpen ==
  pc = "wait" => \/ watch = KindOf(Current)
                 \/ watch = "broken" /\ \E i \in 1..Len(events) : events[i] = Broken

-----------------------------------------------------------------------------
(* The constants and helpers.                                              *)
LEMMA Programs ==
  \A c \in Caller : Program[c] \in Seq(Wait) /\ Len(Program[c]) >= 1
  <1> DEFINE IsShort(q) == q \in Seq(Wait) /\ Len(q) >= 1
  <1>1. {"endpoint", "clusterIP", "nodePort", "externalIP"} \subseteq Wait
    BY DEF Wait, AddressWait
  <1>2. \A v \in Wait : IsShort(<<v>>)
    OBVIOUS
  <1>3. \A v, w \in Wait : IsShort(<<v, w>>)
    OBVIOUS
  <1>4. \A u, v, w \in Wait : IsShort(<<u, v, w>>)
    OBVIOUS
  <1>5. /\ IsShort(Program.template)  /\ IsShort(Program.clusterIP)
        /\ IsShort(Program.nodePort)  /\ IsShort(Program.local)
        /\ IsShort(Program.loadBalancer) /\ IsShort(Program.twinBalancer)
        /\ IsShort(Program.labels)
    <2> HIDE DEF IsShort
    <2> QED
      BY <1>1, <1>2, <1>3, <1>4 DEF Program
  <1>6. Caller = {"template", "clusterIP", "nodePort", "local", "loadBalancer",
                  "twinBalancer", "labels"}
    BY DEF Caller, Program
  <1> QED
    BY <1>5, <1>6

LEMMA CurrentIsAWait == TypeOK => Current \in Wait /\ Current \in Shown
  BY Programs DEF TypeOK, Current, Wait, Shown, Trait

LEMMA GivenAreAddresses == Given \subseteq AddressWait /\ AddressWait \subseteq Trait
  BY DEF Given, Trait

LEMMA Kinds ==
  /\ "ready" \notin Shown
  /\ Subset \intersect Trait = {}
  /\ Wait \subseteq Shown /\ Trait \subseteq Shown /\ AddressWait \subseteq Trait
  /\ \A w \in Trait : w # "endpoint" /\ (w \in Wait => w \in AddressWait)
  /\ \A w \in Wait : KindOf(w) \in {"services", "endpoints"}
  /\ \A w \in AddressWait : w \in Wait /\ KindOf(w) = "services" /\ w # "endpoint"
  BY DEF Wait, AddressWait, Trait, Shown, Subset, KindOf

LEMMA BrokenIsAnEvent == Broken \in Event /\ Broken.shows = {} /\ Broken.of = Nobody
  BY DEF Broken, Event

LEMMA SnapshotType ==
  ASSUME NEW s \in Service, NEW kind,
         NEW gr \in [Service -> SUBSET Trait],
         NEW su \in [Service -> SUBSET Subset]
  PROVE  Snapshot(s, kind, gr, su) \in Event /\ Snapshot(s, kind, gr, su) # Broken
  BY MineIsAService, Kinds DEF Snapshot, Event, Broken

(* The events a watch starts with are one for each service that exists.    *)
LEMMA InitialEventsType ==
  ASSUME TypeOK, NEW kind, NEW ev \in InitialEvents(kind)
  PROVE  /\ ev \in Seq(Event)
         /\ \A i \in 1..Len(ev) : \E s \in created :
              ev[i] = Snapshot(s, kind, granted, subsets)
         /\ \A s \in created : \E i \in 1..Len(ev) :
              ev[i] = Snapshot(s, kind, granted, subsets)
  <1> DEFINE f == [s \in created |-> Snapshot(s, kind, granted, subsets)]
             S == {Snapshot(s, kind, granted, subsets) : s \in created}
             D == 1..Cardinality(S)
  <1>1. IsFiniteSet(S)
    <2>1. IsFiniteSet(created)
      BY ServicesAreFinite, FS_Subset DEF TypeOK
    <2>2. f \in Surjection(created, S)
      BY DEF Surjection
    <2> HIDE DEF f, S
    <2> QED
      BY <2>1, <2>2, FS_Surjection
  <1>2. S \subseteq Event
    BY SnapshotType DEF TypeOK
  <1>3. Cardinality(S) \in Nat
    BY <1>1, FS_CardinalityType
  <1>4. ev \in [D -> S] /\ \A i, j \in D : i # j => ev[i] # ev[j]
    BY DEF InitialEvents, SetToSeqs
  <1>5. ev \in Seq(S) /\ Len(ev) = Cardinality(S)
    BY <1>3, <1>4
  <1>6. \A x \in S : \E i \in D : ev[i] = x
    <2>1. ev \in Injection(D, S)
      BY <1>4 DEF Injection, IsInjective
    <2>2. IsFiniteSet(D) /\ Cardinality(D) = Cardinality(S)
      BY <1>3, FS_Interval
    <2>3. ev \in Surjection(D, S)
      <3> HIDE DEF D, S
      <3> QED
        BY <1>1, <2>1, <2>2, FS_Injection
    <2> QED
      BY <2>3 DEF Surjection
  <1>7. ev \in Seq(Event)
    BY <1>2, <1>5, SeqMonotonic
  <1>8. \A i \in D : ev[i] \in S
    BY <1>4
  <1> QED
    BY <1>5, <1>6, <1>7, <1>8

(* One more event.                                                         *)
LEMMA Notified ==
  ASSUME events \in Seq(Event), NEW e \in Event, Notify(e)
  PROVE  /\ events' \in Seq(Event)
         /\ Len(events') = Len(events) + 1
         /\ \A i \in 1..Len(events) : events'[i] = events[i]
         /\ events'[Len(events')] = e
         /\ \A i \in 1..Len(events') : i \in 1..Len(events) \/ events'[i] = e
  BY AppendProperties, LenProperties DEF Notify
-----------------------------------------------------------------------------
(* Type correctness.                                                       *)
LEMMA TypeInit == Init => TypeOK
  <1> SUFFICES ASSUME Init PROVE TypeOK
    OBVIOUS
  <1>1. step \in 1..Len(Program[caller])
    BY Programs DEF Init
  <1>2. granted \in [Service -> SUBSET Trait]
    BY GivenAreAddresses DEF Init
  <1>3. subsets \in [Service -> SUBSET Subset]
    BY DEF Init
  <1>4. had \in [Shown -> SUBSET Service] /\ answer \in [Shown -> SUBSET Service]
    BY DEF Init
  <1>5. events \in Seq(Event)
    BY EmptySeq DEF Init
  <1> QED
    BY <1>1, <1>2, <1>3, <1>4, <1>5 DEF Init, TypeOK

(* What a wait that returns does to the caller.                            *)
LEMMA Returned ==
  ASSUME TypeOK, NEW value \in SUBSET Service, NEW failed \in BOOLEAN,
         Return(value, failed)
  PROVE  /\ TypeOK' /\ pc' # "wait" /\ events' = <<>>
         /\ answer' = [answer EXCEPT ![Current] = value]
         /\ UNCHANGED cluster
  <1>1. step' \in 1..Len(Program[caller])
    BY Programs DEF TypeOK, Return, HasNext
  <1>2. reported' \in BOOLEAN
    BY DEF Return, Disappoints, TypeOK
  <1>3. pc' \in {"panicked", "fatal", "open", "end"}
    BY DEF Return
  <1>4. answer' = [answer EXCEPT ![Current] = value]
    BY DEF Return
  <1> QED
    BY <1>1, <1>2, <1>3, <1>4, CurrentIsAWait DEF TypeOK, Return, cluster

(* What the list of external IPs grows by.                                 *)
LEMMA CollectedAnswers ==
  ASSUME TypeOK, NEW e, e.of = Mine, answer' = Collected(e)
  PROVE  /\ answer' \in [Shown -> SUBSET Service]
         /\ answer'["externalIP"] = answer["externalIP"] \union {Mine}
         /\ answer'["hostname"] # answer["hostname"] =>
              "hostname" \in e.shows /\ answer'["hostname"] = {Mine}
         /\ \A w \in Shown \ {"externalIP", "hostname"} : answer'[w] = answer[w]
  BY MineIsAService DEF Collected, TypeOK, Shown, Trait, AddressWait

(* What a change of the cluster does.                                      *)
LEMMA Changed ==
  ASSUME TypeOK, NEW s \in Service, NEW kind,
         NEW gr \in [Service -> SUBSET Trait],
         NEW su \in [Service -> SUBSET Subset],
         Change(s, kind, gr, su)
  PROVE  /\ had' \in [Shown -> SUBSET Service] /\ events' \in Seq(Event)
         /\ granted' = gr /\ subsets' = su /\ UNCHANGED <<setup, watch>>
         /\ \/ watch = kind /\ Notify(Snapshot(s, kind, gr, su))
            \/ watch # kind /\ UNCHANGED events
         /\ had' = [w \in Shown |-> had[w] \union {t \in Service : Shows(t, w, gr, su)}]
  <1>1. events' \in Seq(Event)
    BY Notified, SnapshotType DEF Change, TypeOK
  <1> QED
    BY <1>1 DEF Change, TypeOK

(* Everything the namespace does but Vanish and Break changes one object,  *)
(* and only a change that a service watch shows touches its addresses.     *)
OneObjectChanges(s, kind, gr, su) ==
  /\ Change(s, kind, gr, su)
  /\ kind = "services" \/ gr = granted
  /\ \A t \in Service \ {s} : gr[t] = granted[t]
  /\ gr[s] \subseteq granted[s] \/ s \in created'
  /\ created \subseteq created' /\ created' \subseteq Service

SomethingChanges ==
  \E s \in Service, kind \in {"services", "endpoints"},
     gr \in [Service -> SUBSET Trait], su \in [Service -> SUBSET Subset] :
    OneObjectChanges(s, kind, gr, su)

LEMMA EnvironmentSteps ==
  ASSUME TypeOK, Environment
  PROVE  SomethingChanges \/ (\E s \in Service : Vanish(s)) \/ Break
  <1>1. ASSUME NEW s \in Service, Appear(s) PROVE SomethingChanges
    <2>1. OneObjectChanges(s, "services", granted, subsets)
      BY <1>1 DEF Appear, OneObjectChanges, TypeOK
    <2> QED
      BY <2>1 DEF SomethingChanges, TypeOK
  <1>2. ASSUME NEW s \in Service, NEW w \in AddressWait, Grant(s, w)
        PROVE  SomethingChanges
    <2>1. PICK new \in SUBSET {w, "hostname"} :
            Change(s, "services", [granted EXCEPT ![s] = @ \union new], subsets)
      BY <1>2 DEF Grant
    <2> DEFINE gr == [granted EXCEPT ![s] = @ \union new]
    <2>2. gr \in [Service -> SUBSET Trait]
      BY DEF TypeOK, Trait
    <2>3. OneObjectChanges(s, "services", gr, subsets)
      BY <1>2, <2>1 DEF Grant, OneObjectChanges, TypeOK
    <2> QED
      BY <2>2, <2>3 DEF SomethingChanges, TypeOK
  <1>3. ASSUME NEW s \in Service, Withdraw(s) PROVE SomethingChanges
    <2> DEFINE gr == [granted EXCEPT ![s] = @ \ {"externalIP", "hostname"}]
    <2>1. gr \in [Service -> SUBSET Trait]
      BY DEF TypeOK
    <2>2. OneObjectChanges(s, "services", gr, subsets)
      BY <1>3 DEF Withdraw, OneObjectChanges, TypeOK
    <2> QED
      BY <2>1, <2>2 DEF SomethingChanges, TypeOK
  <1>4. ASSUME NEW s \in Service, Settle(s) PROVE SomethingChanges
    <2>1. PICK new \in SUBSET Subset :
            Change(s, "endpoints", granted, [subsets EXCEPT ![s] = new])
      BY <1>4 DEF Settle
    <2> DEFINE su == [subsets EXCEPT ![s] = new]
    <2>2. su \in [Service -> SUBSET Subset]
      BY DEF TypeOK
    <2>3. OneObjectChanges(s, "endpoints", granted, su)
      BY <1>4, <2>1 DEF Settle, OneObjectChanges, TypeOK
    <2> QED
      BY <2>2, <2>3 DEF SomethingChanges, TypeOK
  <1>5. ASSUME NEW s \in Service, Touch(s) PROVE SomethingChanges
    <2>1. OneObjectChanges(s, watch, granted, subsets)
      BY <1>5 DEF Touch, OneObjectChanges, TypeOK
    <2> QED
      BY <1>5, <2>1 DEF SomethingChanges, TypeOK, Touch
  <1> QED
    BY <1>1, <1>2, <1>3, <1>4, <1>5 DEF Environment

LEMMA TypeNext == TypeOK /\ [Next]_vars => TypeOK'
  <1> SUFFICES ASSUME TypeOK, [Next]_vars PROVE TypeOK'
    OBVIOUS
  <1>1. CASE SomethingChanges
    <2>1. PICK s \in Service, kind \in {"services", "endpoints"},
               gr \in [Service -> SUBSET Trait],
               su \in [Service -> SUBSET Subset] :
                 OneObjectChanges(s, kind, gr, su)
      BY <1>1 DEF SomethingChanges
    <2>2. /\ had' \in [Shown -> SUBSET Service] /\ events' \in Seq(Event)
          /\ granted' = gr /\ subsets' = su /\ UNCHANGED <<setup, watch>>
      BY <2>1, Changed DEF OneObjectChanges
    <2> QED
      BY <2>1, <2>2 DEF OneObjectChanges, TypeOK, setup
  <1>2. ASSUME NEW s \in Service, Vanish(s) PROVE TypeOK'
    <2>1. events' \in Seq(Event)
      BY <1>2, Notified, SnapshotType DEF Vanish, TypeOK
    <2> QED
      BY <1>2, <2>1 DEF Vanish, TypeOK, setup
  <1>3. CASE Break
    <2>1. events' \in Seq(Event)
      BY <1>3, Notified, BrokenIsAnEvent DEF Break, TypeOK
    <2> QED
      BY <1>3, <2>1 DEF Break, TypeOK, setup, cluster
  <1>4. CASE Create
    BY <1>4, MineIsAService DEF Create, TypeOK
  <1>5. CASE Open
    <2>1. events' \in Seq(Event)
      BY <1>5, InitialEventsType DEF Open
    <2>2. watch' \in {"services", "endpoints"}
      BY <1>5, Kinds, CurrentIsAWait DEF Open
    <2> QED
      BY <1>5, <2>1, <2>2 DEF Open, TypeOK, cluster
  <1>6. CASE OpenFails
    <2>1. CASE Current \in {"endpoint", "externalIP"}
      BY <1>6, <2>1, Returned DEF OpenFails
    <2>2. CASE Current \notin {"endpoint", "externalIP"}
      BY <1>6, <2>2 DEF OpenFails, TypeOK, cluster
    <2> QED
      BY <2>1, <2>2
  <1>7. CASE Receive
    <2> DEFINE e == Head(events)
    <2>1. e \in Event /\ Tail(events) \in Seq(Event)
      BY <1>7, HeadTailProperties DEF Receive, TypeOK
    <2>2. CASE e = Broken /\ UNCHANGED <<caller, step, answer, reported, cluster, watch, events>>
               /\ pc' = "panicked"
      BY <2>2 DEF TypeOK, cluster
    <2>3. CASE e # Broken /\ Return({e.of}, FALSE)
      <3>1. {e.of} \in SUBSET Service
        BY <2>1, <2>3 DEF Event
      <3> QED
        BY <2>3, <3>1, Returned
    <2>4. CASE /\ e # Broken
               /\ events' = Tail(events)
               /\ answer' = IF Current = "externalIP" /\ e.of = Mine /\ Current \in e.shows
                            THEN Collected(e) ELSE answer
               /\ UNCHANGED <<caller, step, pc, reported, cluster, watch>>
      <3>1. answer' \in [Shown -> SUBSET Service]
        BY <2>4, CollectedAnswers DEF TypeOK
      <3> QED
        BY <2>1, <2>4, <3>1 DEF TypeOK, cluster
    <2> QED
      BY <1>7, <2>2, <2>3, <2>4 DEF Receive
  <1>8. CASE Timeout
    <2>1. answer[Current] \in SUBSET Service
      BY CurrentIsAWait DEF TypeOK
    <2> QED
      BY <1>8, <2>1, Returned DEF Timeout
  <1>9. CASE UNCHANGED vars
    BY <1>9 DEF vars, setup, cluster, TypeOK
  <1> QED
    BY <1>1, <1>2, <1>3, <1>4, <1>5, <1>6, <1>7, <1>8, <1>9, EnvironmentSteps
       DEF Next, CallerStep, Terminated

(* Type correctness of the waits and of the namespace they watch.          *)
THEOREM TypeCorrect == Spec => []TypeOK
  <1> QED
    BY TypeInit, TypeNext, PTL DEF Spec

-----------------------------------------------------------------------------
(* What a wait answers was true: every event on its way was, and a wait    *)
(* answers with what one event showed of its object.                       *)
Truthful == EventsWereTrue /\ HistoryIsComplete /\ AnswersWereTrue

HistoryGrows == \A w \in Shown : had[w] \subseteq had'[w]

LEMMA StaysTrue ==
  ASSUME HistoryGrows, NEW e, WasTrue(e)
  PROVE  WasTrue(e)'
  BY Kinds DEF WasTrue, TrueOf, HistoryGrows, Wait

LEMMA AnswersStay ==
  ASSUME HistoryGrows, AnswersWereTrue, UNCHANGED answer
  PROVE  AnswersWereTrue'
  BY DEF HistoryGrows, AnswersWereTrue

(* A snapshot shows what is so.                                            *)
LEMMA SnapshotWasTrue ==
  ASSUME NEW gr \in [Service -> SUBSET Trait],
         NEW su \in [Service -> SUBSET Subset], NEW h,
         \A w \in Shown, t \in Service : Shows(t, w, gr, su) => t \in h[w],
         NEW s \in Service, NEW kind
  PROVE  TrueOf(Snapshot(s, kind, gr, su), h)
  <1>1. \A w \in Trait : w \in gr[s] => s \in h[w]
    BY Kinds DEF Shows
  <1>2. "ready" \in su[s] => s \in h["endpoint"]
    BY DEF Shows, Shown
  <1>3. CASE kind = "endpoints"
    <2>1. su[s] \intersect Trait = {}
      BY Kinds
    <2> QED
      BY <1>2, <1>3, <2>1 DEF TrueOf, Snapshot
  <1>4. CASE kind # "endpoints"
    <2>1. "ready" \notin gr[s]
      BY Kinds
    <2> QED
      BY <1>1, <1>4, <2>1 DEF TrueOf, Snapshot
  <1> QED
    BY <1>3, <1>4

LEMMA SnapshotNow ==
  ASSUME TypeOK, HistoryIsComplete, NEW s \in Service, NEW kind
  PROVE  WasTrue(Snapshot(s, kind, granted, subsets))
  BY SnapshotWasTrue DEF TypeOK, HistoryIsComplete, WasTrue

LEMMA BrokenWasTrue == WasTrue(Broken)
  BY BrokenIsAnEvent DEF WasTrue, TrueOf

(* The answer of a wait that an event satisfies.                           *)
LEMMA SatisfiedWasTrue ==
  ASSUME NEW w \in Wait, NEW e \in Event, WasTrue(e), Satisfied(w, e)
  PROVE  e.of \in had[w] /\ (w \in Trait => e.of = Mine)
  BY Kinds DEF WasTrue, TrueOf, Satisfied, Wait

LEMMA OneAnswerStays ==
  ASSUME TypeOK, AnswersWereTrue, UNCHANGED had, NEW value,
         answer' = [answer EXCEPT ![Current] = value],
         value \subseteq had[Current],
         Current \in Trait => value \subseteq {Mine}
  PROVE  AnswersWereTrue'
  BY CurrentIsAWait DEF AnswersWereTrue, TypeOK

LEMMA TruthfulInit == Init => Truthful
  <1> SUFFICES ASSUME Init PROVE Truthful
    OBVIOUS
  <1>1. EventsWereTrue
    BY EmptySeq DEF Init, EventsWereTrue
  <1>2. HistoryIsComplete
    BY DEF Init, HistoryIsComplete
  <1>3. AnswersWereTrue
    BY DEF Init, AnswersWereTrue
  <1> QED
    BY <1>1, <1>2, <1>3 DEF Truthful

LEMMA TruthfulNext == TypeOK /\ Truthful /\ [Next]_vars => Truthful'
  <1> SUFFICES ASSUME TypeOK, EventsWereTrue, HistoryIsComplete, AnswersWereTrue,
                      [Next]_vars
               PROVE  EventsWereTrue' /\ HistoryIsComplete' /\ AnswersWereTrue'
    BY DEF Truthful
  <1> USE DEF TypeOK
  <1>0. ASSUME UNCHANGED <<had, granted, subsets>>
        PROVE  HistoryIsComplete' /\ HistoryGrows
    BY <1>0 DEF HistoryIsComplete, HistoryGrows, Shows
  <1>1. CASE SomethingChanges
    <2>1. PICK s \in Service, kind \in {"services", "endpoints"},
               gr \in [Service -> SUBSET Trait],
               su \in [Service -> SUBSET Subset] :
                 Change(s, kind, gr, su)
      BY <1>1 DEF SomethingChanges, OneObjectChanges
    <2>2. /\ granted' = gr /\ subsets' = su /\ UNCHANGED answer
          /\ Notify(Snapshot(s, kind, gr, su)) \/ UNCHANGED events
          /\ had' = [w \in Shown |-> had[w] \union {t \in Service : Shows(t, w, gr, su)}]
      BY <2>1 DEF Change, setup
    <2>3. HistoryIsComplete' /\ HistoryGrows
      BY <2>2 DEF HistoryIsComplete, HistoryGrows
    <2>4. TrueOf(Snapshot(s, kind, gr, su), had')
      <3>1. \A w \in Shown, t \in Service : Shows(t, w, gr, su) => t \in had'[w]
        BY <2>2
      <3> QED
        BY <3>1, SnapshotWasTrue
    <2>5. EventsWereTrue'
      <3>1. CASE UNCHANGED events
        BY <2>3, <3>1, StaysTrue DEF EventsWereTrue
      <3>2. CASE Notify(Snapshot(s, kind, gr, su))
        <4> DEFINE e == Snapshot(s, kind, gr, su)
        <4>1. \A i \in 1..Len(events') : events'[i] = e \/
                (i \in 1..Len(events) /\ events'[i] = events[i])
          BY <3>2, Notified, SnapshotType
        <4>2. \A i \in 1..Len(events) : TrueOf(events[i], had')
          BY <2>3, StaysTrue DEF EventsWereTrue, WasTrue
        <4> HIDE DEF e
        <4>3. TrueOf(e, had')
          BY <2>4 DEF e
        <4> QED
          BY <4>1, <4>2, <4>3 DEF EventsWereTrue, WasTrue
      <3> QED
        BY <2>2, <3>1, <3>2
    <2> QED
      BY <2>2, <2>3, <2>5, AnswersStay
  <1>2. ASSUME NEW s \in Service, Vanish(s)
        PROVE  EventsWereTrue' /\ HistoryIsComplete' /\ AnswersWereTrue'
    <2>1. HistoryGrows /\ UNCHANGED <<had, answer>>
      BY <1>2 DEF Vanish, HistoryGrows, setup
    <2>2. HistoryIsComplete'
      BY <1>2 DEF Vanish, HistoryIsComplete, Shows, Wait, AddressWait
    <2>3. Notify(Snapshot(s, watch, granted, subsets)) \/ UNCHANGED events
      BY <1>2 DEF Vanish
    <2>4. EventsWereTrue'
      BY <2>1, <2>3, StaysTrue, SnapshotNow, Notified, SnapshotType
         DEF EventsWereTrue
    <2> QED
      BY <2>1, <2>2, <2>4, AnswersStay
  <1>3. CASE Break
    <2>1. UNCHANGED <<had, granted, subsets, answer>>
      BY <1>3 DEF Break, setup, cluster
    <2>2. EventsWereTrue'
      BY <1>3, <2>1, <1>0, StaysTrue, BrokenWasTrue, Notified, BrokenIsAnEvent
         DEF EventsWereTrue, Break
    <2> QED
      BY <2>1, <2>2, <1>0, AnswersStay
  <1>4. CASE Create
    <2>1. UNCHANGED <<had, granted, subsets, answer, events>>
      BY <1>4 DEF Create
    <2> QED
      BY <2>1, <1>0, AnswersStay, StaysTrue DEF EventsWereTrue
  <1>5. CASE Open
    <2>1. UNCHANGED <<had, granted, subsets, answer>>
      BY <1>5 DEF Open, cluster
    <2>2. \A i \in 1..Len(events') : WasTrue(events'[i])
      BY <1>5, InitialEventsType, SnapshotNow DEF Open
    <2>3. EventsWereTrue'
      BY <2>1, <2>2, <1>0, StaysTrue DEF EventsWereTrue
    <2> QED
      BY <2>1, <2>3, <1>0, AnswersStay
  <1>6. ASSUME NEW value \in SUBSET Service, NEW failed \in BOOLEAN,
               Return(value, failed),
               value \subseteq had[Current],
               Current \in Trait => value \subseteq {Mine}
        PROVE  EventsWereTrue' /\ HistoryIsComplete' /\ AnswersWereTrue'
    <2>1. /\ UNCHANGED <<had, granted, subsets>>
          /\ answer' = [answer EXCEPT ![Current] = value] /\ events' = <<>>
      BY <1>6, Returned DEF cluster
    <2>2. EventsWereTrue'
      BY <2>1, EmptySeq DEF EventsWereTrue
    <2>3. AnswersWereTrue'
      BY <1>6, <2>1, OneAnswerStays
    <2> QED
      BY <2>1, <2>2, <2>3, <1>0
  <1>7. CASE OpenFails
    <2>1. CASE Return({}, Current = "endpoint")
      BY <2>1, <1>6
    <2>2. CASE UNCHANGED <<caller, step, answer, reported, cluster, watch, events>>
      BY <2>2, <1>0, AnswersStay, StaysTrue DEF cluster, EventsWereTrue
    <2> QED
      BY <1>7, <2>1, <2>2 DEF OpenFails
  <1>8. CASE Receive
    <2> DEFINE e == Head(events)
    <2>1. /\ e \in Event /\ WasTrue(e) /\ Tail(events) \in Seq(Event)
          /\ \A i \in 1..Len(Tail(events)) : WasTrue(Tail(events)[i])
      BY <1>8, HeadTailProperties, LenProperties DEF Receive, EventsWereTrue
    <2>2. CASE UNCHANGED <<caller, step, answer, reported, cluster, watch, events>>
      BY <2>2, <1>0, AnswersStay, StaysTrue DEF cluster, EventsWereTrue
    <2>3. CASE e # Broken /\ Satisfied(Current, e) /\ Return({e.of}, FALSE)
      <3>1. {e.of} \in SUBSET Service
        BY <2>1, <2>3 DEF Event
      <3>2. e.of \in had[Current] /\ (Current \in Trait => e.of = Mine)
        BY <2>1, <2>3, CurrentIsAWait, SatisfiedWasTrue
      <3> QED
        BY <2>3, <3>1, <3>2, <1>6
    <2>4. CASE /\ events' = Tail(events)
               /\ answer' = IF Current = "externalIP" /\ e.of = Mine /\ Current \in e.shows
                            THEN Collected(e) ELSE answer
               /\ UNCHANGED <<caller, step, pc, reported, cluster, watch>>
      <3>1. UNCHANGED <<had, granted, subsets>>
        BY <2>4 DEF cluster
      <3>2. EventsWereTrue'
        BY <2>1, <2>4, <3>1, <1>0, StaysTrue DEF EventsWereTrue
      <3>3. CASE Current = "externalIP" /\ e.of = Mine /\ Current \in e.shows
        <4>1. \A w \in Trait : w \in e.shows => Mine \in had[w]
          BY <2>1, <3>3 DEF WasTrue, TrueOf
        <4>2. "externalIP" \in Trait /\ "hostname" \in Trait
          BY DEF Trait, AddressWait
        <4>3. AnswersWereTrue'
          BY <2>4, <3>1, <3>3, <4>1, <4>2, CollectedAnswers, Kinds DEF AnswersWereTrue
        <4> QED
          BY <3>1, <3>2, <4>3, <1>0
      <3>4. CASE UNCHANGED answer
        BY <3>1, <3>2, <3>4, <1>0, AnswersStay
      <3> QED
        BY <2>4, <3>3, <3>4
    <2> QED
      BY <1>8, <2>2, <2>3, <2>4 DEF Receive
  <1>9. CASE Timeout
    <2>1. /\ answer[Current] \subseteq had[Current]
          /\ Current \in Trait => answer[Current] \subseteq {Mine}
          /\ answer[Current] \in SUBSET Service
      BY CurrentIsAWait DEF AnswersWereTrue
    <2> QED
      BY <1>9, <2>1, <1>6 DEF Timeout
  <1>10. CASE UNCHANGED vars
    BY <1>10, <1>0, AnswersStay, StaysTrue DEF vars, setup, cluster, EventsWereTrue
  <1> QED
    BY <1>1, <1>2, <1>3, <1>4, <1>5, <1>7, <1>8, <1>9, <1>10, EnvironmentSteps
       DEF Next, CallerStep, Terminated

(* No wait answers with an address of another service, or with one that    *)
(* its service never had, whatever the watch delivers and when.            *)
THEOREM AnswersAreTrue == Spec => []AnswersWereTrue
  <1>1. Init => TypeOK /\ Truthful
    BY TypeInit, TruthfulInit
  <1>2. TypeOK /\ Truthful /\ [Next]_vars => (TypeOK /\ Truthful)'
    BY TypeNext, TruthfulNext
  <1>3. TypeOK /\ Truthful => AnswersWereTrue
    BY DEF Truthful
  <1> QED
    BY <1>1, <1>2, <1>3, PTL DEF Spec

-----------------------------------------------------------------------------
(* No address is missed: until it is collected, an event on its way shows  *)
(* it, because a watch starts with what exists and tells every change.     *)
Delivered == GrantsAreOnTheirWay /\ OnlyCreatedHaveAddresses /\ WatchIsOpen

EventsStay ==
  \A i \in 1..Len(events) : i \in 1..Len(events') /\ events'[i] = events[i]

LEMMA NotifyKeepsEvents ==
  ASSUME events \in Seq(Event), NEW e \in Event, Notify(e) \/ UNCHANGED events
  PROVE  EventsStay
  <1>1. Len(events) \in Nat
    BY LenProperties
  <1>2. CASE Notify(e)
    <2>1. /\ Len(events') = Len(events) + 1
          /\ \A i \in 1..Len(events) : events'[i] = events[i]
      BY <1>2, Notified
    <2> QED
      BY <1>1, <2>1 DEF EventsStay
  <1>3. CASE UNCHANGED events
    BY <1>3 DEF EventsStay
  <1> QED
    BY <1>2, <1>3

(* What is on its way stays so while events are only added.                *)
LEMMA WaitGoesOn ==
  ASSUME TypeOK, WatchIsOpen, GrantsAreOnTheirWay, EventsStay,
         UNCHANGED setup, UNCHANGED watch \/ watch' = "broken",
         watch' = "broken" /\ watch # "broken" =>
           \E i \in 1..Len(events') : events'[i] = Broken,
         pc = "wait" /\ Current \in granted'[Mine] =>
           \/ Current \in granted[Mine]
           \/ \E i \in 1..Len(events') :
                events'[i].of = Mine /\ Current \in events'[i].shows
           \/ watch = "broken"
  PROVE  GrantsAreOnTheirWay' /\ WatchIsOpen'
  <1>1. Current' = Current /\ pc' = pc /\ answer' = answer
    BY DEF setup, Current
  <1>2. WatchIsOpen'
    BY <1>1, Kinds, CurrentIsAWait DEF WatchIsOpen, EventsStay
  <1>3. ASSUME pc = "wait", Current \in granted'[Mine]
        PROVE  OnItsWay(Current)' \/ (Current = "externalIP" /\ Mine \in answer[Current])
    <2>1. CASE Current \in granted[Mine]
      BY <1>1, <1>3, <2>1 DEF GrantsAreOnTheirWay, OnItsWay, EventsStay
    <2>2. CASE \E i \in 1..Len(events') :
                 events'[i].of = Mine /\ Current \in events'[i].shows
      BY <1>1, <2>2 DEF OnItsWay
    <2>3. CASE watch = "broken"
      <3>1. \E i \in 1..Len(events) : events[i] = Broken
        BY <1>3, <2>3, Kinds, CurrentIsAWait DEF WatchIsOpen
      <3> QED
        BY <3>1 DEF OnItsWay, EventsStay
    <2> QED
      BY <1>3, <2>1, <2>2, <2>3
  <1> QED
    BY <1>1, <1>2, <1>3 DEF GrantsAreOnTheirWay

(* Where no wait runs there is nothing to be missed.                       *)
LEMMA NoWait ==
  ASSUME pc' # "wait" PROVE GrantsAreOnTheirWay' /\ WatchIsOpen'
  BY DEF GrantsAreOnTheirWay, WatchIsOpen

LEMMA DeliveredInit == Init => Delivered
  BY DEF Init, Delivered, GrantsAreOnTheirWay, OnlyCreatedHaveAddresses, WatchIsOpen

LEMMA OpenDelivers ==
  ASSUME TypeOK, OnlyCreatedHaveAddresses, Open
  PROVE  GrantsAreOnTheirWay' /\ WatchIsOpen'
  <1>1. /\ Current' = Current /\ watch' = KindOf(Current)
        /\ UNCHANGED <<granted, answer>> /\ events' \in InitialEvents(KindOf(Current))
    BY DEF Open, Current, cluster
  <1>2. ASSUME Current \in granted[Mine]
        PROVE  \E i \in 1..Len(events') :
                 events'[i].of = Mine /\ Current \in events'[i].shows
    <2>1. Mine \in created
      BY <1>2, MineIsAService DEF OnlyCreatedHaveAddresses
    <2>2. KindOf(Current) = "services"
      BY <1>2, Kinds, CurrentIsAWait, MineIsAService DEF TypeOK
    <2>3. PICK i \in 1..Len(events') :
            events'[i] = Snapshot(Mine, "services", granted, subsets)
      BY <1>1, <2>1, <2>2, InitialEventsType
    <2> QED
      BY <1>2, <2>3 DEF Snapshot
  <1> QED
    BY <1>1, <1>2 DEF GrantsAreOnTheirWay, WatchIsOpen, OnItsWay

(* An event that does not end the wait is not the one that is needed, or   *)
(* the answer collects what it shows.                                      *)
LEMMA ReceiveDelivers ==
  ASSUME TypeOK, GrantsAreOnTheirWay, WatchIsOpen, events # <<>>, pc = "wait",
         Head(events) # Broken, ~Satisfied(Current, Head(events)),
         events' = Tail(events),
         answer' = IF /\ Current = "externalIP" /\ Head(events).of = Mine
                      /\ Current \in Head(events).shows
                   THEN Collected(Head(events)) ELSE answer,
         UNCHANGED <<caller, step, pc, reported, cluster, watch>>
  PROVE  GrantsAreOnTheirWay' /\ WatchIsOpen'
  <1>1. /\ Head(events) = events[1] /\ Len(events) \in Nat
        /\ \A i \in 1..Len(events) :
             i = 1 \/ (i - 1 \in 1..Len(events') /\ events'[i - 1] = events[i])
    BY HeadTailProperties, LenProperties DEF TypeOK
  <1>2. Current' = Current /\ granted' = granted /\ Current \in Wait
    BY CurrentIsAWait DEF Current, cluster
  <1>3. ASSUME NEW i \in 1..Len(events), events[i] = Broken
        PROVE  \E j \in 1..Len(events') : events'[j] = Broken
    BY <1>1, <1>3
  <1>4. WatchIsOpen'
    BY <1>2, <1>3 DEF WatchIsOpen
  <1>5. ASSUME NEW i \in 1..Len(events), Current \in granted[Mine],
               events[i].of = Mine, Current \in events[i].shows
        PROVE  OnItsWay(Current)' \/ (Current = "externalIP" /\ Mine \in answer'[Current])
    <2>1. CASE i = 1
      <3>1. Current \in AddressWait
        BY <1>5, MineIsAService, CurrentIsAWait, Kinds DEF TypeOK
      <3>2. Current = "externalIP"
        BY <1>1, <1>5, <2>1, <3>1 DEF Satisfied, AddressWait
      <3> QED
        BY <1>1, <1>2, <1>5, <2>1, <3>2, CollectedAnswers
    <2>2. CASE i # 1
      BY <1>1, <1>2, <1>5, <2>2 DEF OnItsWay
    <2> QED
      BY <2>1, <2>2
  <1>6. Mine \in answer[Current] => Mine \in answer'[Current]
    BY <1>2, CollectedAnswers
  <1>7. Current \in granted[Mine] =>
          OnItsWay(Current)' \/ (Current = "externalIP" /\ Mine \in answer'[Current])
    BY <1>2, <1>3, <1>5, <1>6 DEF GrantsAreOnTheirWay, OnItsWay
  <1> QED
    BY <1>2, <1>4, <1>7 DEF GrantsAreOnTheirWay

LEMMA DeliveredNext == TypeOK /\ Delivered /\ [Next]_vars => Delivered'
  <1> SUFFICES ASSUME TypeOK, GrantsAreOnTheirWay, OnlyCreatedHaveAddresses,
                      WatchIsOpen, [Next]_vars
               PROVE  Delivered'
    BY DEF Delivered
  <1>0. ASSUME UNCHANGED granted, created \subseteq created'
        PROVE  OnlyCreatedHaveAddresses'
    BY <1>0 DEF OnlyCreatedHaveAddresses
  <1>1. CASE SomethingChanges
    <2>1. PICK s \in Service, kind \in {"services", "endpoints"},
               gr \in [Service -> SUBSET Trait],
               su \in [Service -> SUBSET Subset] :
                 OneObjectChanges(s, kind, gr, su)
      BY <1>1 DEF SomethingChanges
    <2> DEFINE e == Snapshot(s, kind, gr, su)
    <2>2. /\ granted' = gr /\ UNCHANGED <<setup, watch>>
          /\ IF watch = kind THEN Notify(e) ELSE UNCHANGED events
      BY <2>1 DEF OneObjectChanges, Change
    <2>3. e \in Event /\ events \in Seq(Event)
      BY SnapshotType DEF TypeOK
    <2>4. EventsStay
      BY <2>2, <2>3, NotifyKeepsEvents
    <2>5. OnlyCreatedHaveAddresses'
      BY <2>1, <2>2 DEF OneObjectChanges, OnlyCreatedHaveAddresses
    <2>6. ASSUME pc = "wait", Current \in gr[Mine], Current \notin granted[Mine],
                 watch # "broken"
          PROVE  \E i \in 1..Len(events') :
                   events'[i].of = Mine /\ Current \in events'[i].shows
      <3>1. s = Mine /\ kind = "services"
        BY <2>1, <2>6, MineIsAService DEF OneObjectChanges
      <3>2. watch = "services"
        BY <2>6, Kinds, CurrentIsAWait, MineIsAService DEF WatchIsOpen
      <3>3. Notify(e) /\ e.of = Mine /\ Current \in e.shows
        BY <2>2, <2>6, <3>1, <3>2 DEF Snapshot
      <3>4. Len(events') \in 1..Len(events') /\ events'[Len(events')] = e
        <4> HIDE DEF e
        <4>1. /\ Len(events') = Len(events) + 1
              /\ events'[Len(events')] = e
          BY <2>3, <3>3, Notified
        <4>2. Len(events) \in Nat
          BY <2>3, LenProperties
        <4> QED
          BY <4>1, <4>2
      <3> QED
        BY <3>3, <3>4
    <2>7. GrantsAreOnTheirWay' /\ WatchIsOpen'
      BY <2>2, <2>4, <2>6, WaitGoesOn
    <2> QED
      BY <2>5, <2>7 DEF Delivered
  <1>2. ASSUME NEW s \in Service, Vanish(s) PROVE Delivered'
    <2>1. /\ s # Mine /\ created' = created \ {s}
          /\ granted' = [granted EXCEPT ![s] = {}] /\ UNCHANGED <<setup, watch>>
          /\ \/ Notify(Snapshot(s, watch, granted, subsets))
             \/ UNCHANGED events
      BY <1>2 DEF Vanish
    <2>2. EventsStay
      BY <2>1, NotifyKeepsEvents, SnapshotType DEF TypeOK
    <2>3. granted'[Mine] = granted[Mine]
      BY <2>1, MineIsAService DEF TypeOK
    <2>4. OnlyCreatedHaveAddresses'
      BY <2>1 DEF OnlyCreatedHaveAddresses, TypeOK
    <2>5. GrantsAreOnTheirWay' /\ WatchIsOpen'
      BY <2>1, <2>2, <2>3, WaitGoesOn
    <2> QED
      BY <2>4, <2>5 DEF Delivered
  <1>3. CASE Break
    <2>1. /\ watch' = "broken" /\ Notify(Broken)
          /\ UNCHANGED <<setup, granted, created>>
      BY <1>3 DEF Break, cluster
    <2>2. EventsStay
      BY <2>1, NotifyKeepsEvents, BrokenIsAnEvent DEF TypeOK
    <2>3. \E i \in 1..Len(events') : events'[i] = Broken
      <3>1. Len(events') = Len(events) + 1 /\ events'[Len(events')] = Broken
        BY <2>1, Notified, BrokenIsAnEvent DEF TypeOK
      <3>2. Len(events) \in Nat
        BY LenProperties DEF TypeOK
      <3> QED
        BY <3>1, <3>2
    <2>4. GrantsAreOnTheirWay' /\ WatchIsOpen'
      BY <2>1, <2>2, <2>3, WaitGoesOn
    <2> QED
      BY <1>0, <2>1, <2>4 DEF Delivered
  <1>4. CASE Create
    <2>1. pc' # "wait" /\ UNCHANGED granted /\ created \subseteq created'
      BY <1>4 DEF Create
    <2> QED
      BY <1>0, <2>1, NoWait DEF Delivered
  <1>5. CASE Open
    <2>1. UNCHANGED <<granted, created>>
      BY <1>5 DEF Open, cluster
    <2> QED
      BY <1>0, <1>5, <2>1, OpenDelivers DEF Delivered
  <1>6. ASSUME NEW value \in SUBSET Service, NEW failed \in BOOLEAN,
               Return(value, failed)
        PROVE  Delivered'
    <2>1. pc' # "wait" /\ UNCHANGED <<granted, created>>
      BY <1>6, Returned DEF cluster
    <2> QED
      BY <1>0, <2>1, NoWait DEF Delivered
  <1>7. ASSUME pc' = "panicked", UNCHANGED cluster PROVE Delivered'
    <2>1. pc' # "wait" /\ UNCHANGED <<granted, created>>
      BY <1>7 DEF cluster
    <2> QED
      BY <1>0, <2>1, NoWait DEF Delivered
  <1>8. CASE OpenFails
    <2>1. CASE Return({}, Current = "endpoint")
      BY <2>1, <1>6
    <2> QED
      BY <1>7, <1>8, <2>1 DEF OpenFails
  <1>9. CASE Receive
    <2> DEFINE e == Head(events)
    <2>1. e \in Event
      BY <1>9, HeadTailProperties DEF Receive, TypeOK
    <2>2. CASE e # Broken /\ Return({e.of}, FALSE)
      <3>1. {e.of} \in SUBSET Service
        BY <2>1, <2>2 DEF Event
      <3> QED
        BY <2>2, <3>1, <1>6
    <2>3. CASE /\ e # Broken /\ ~Satisfied(Current, e) /\ events' = Tail(events)
               /\ answer' = IF Current = "externalIP" /\ e.of = Mine /\ Current \in e.shows
                            THEN Collected(e) ELSE answer
               /\ UNCHANGED <<caller, step, pc, reported, cluster, watch>>
      <3>1. events # <<>> /\ pc = "wait"
        BY <1>9 DEF Receive
      <3>2. GrantsAreOnTheirWay' /\ WatchIsOpen'
        BY <2>3, <3>1, ReceiveDelivers
      <3>3. UNCHANGED <<granted, created>>
        BY <2>3 DEF cluster
      <3> QED
        BY <1>0, <3>2, <3>3 DEF Delivered
    <2> QED
      BY <1>7, <1>9, <2>2, <2>3 DEF Receive
  <1>10. CASE Timeout
    <2>1. answer[Current] \in SUBSET Service
      BY CurrentIsAWait DEF TypeOK
    <2> QED
      BY <1>10, <2>1, <1>6 DEF Timeout
  <1>11. CASE UNCHANGED vars
    <2>1. /\ UNCHANGED <<setup, watch, events, granted, created>>
          /\ EventsStay
      BY <1>11 DEF vars, setup, cluster, EventsStay
    <2>2. GrantsAreOnTheirWay' /\ WatchIsOpen'
      BY <2>1, WaitGoesOn
    <2> QED
      BY <1>0, <2>1, <2>2 DEF Delivered
  <1> QED
    BY <1>1, <1>2, <1>3, <1>4, <1>5, <1>8, <1>9, <1>10, <1>11, EnvironmentSteps
       DEF Next, CallerStep, Terminated

(* A wait that gives up has nothing in its queue, so by then it has        *)
(* collected the address or there is none.                                 *)
LEMMA NothingMissedStep ==
  TypeOK /\ Delivered /\ [Next]_vars =>
    (pc = "wait" /\ events = <<>> /\ Current \in granted[Mine] /\ pc' # "wait"
       => Mine \in answer'[Current])
  <1> SUFFICES ASSUME TypeOK, Delivered, [Next]_vars,
                      pc = "wait", events = <<>>, Current \in granted[Mine], pc' # "wait"
               PROVE  Mine \in answer'[Current]
    OBVIOUS
  <1>1. Mine \in answer[Current]
    BY EmptySeq DEF Delivered, GrantsAreOnTheirWay, OnItsWay
  <1>2. CASE Timeout
    <2>1. answer' = [answer EXCEPT ![Current] = answer[Current]]
      BY <1>2, CurrentIsAWait, Returned DEF Timeout, TypeOK
    <2> QED
      BY <1>1, <2>1, CurrentIsAWait DEF TypeOK
  <1>3. CASE Environment
    <2>1. pc' = pc
      BY <1>3, EnvironmentSteps
         DEF SomethingChanges, OneObjectChanges, Change, Vanish, Break, setup
    <2> QED
      BY <2>1
  <1> QED
    BY <1>1, <1>2, <1>3
       DEF Next, CallerStep, Terminated, Create, Open, OpenFails, Receive, vars, setup

(* Every wait for an address returns it if the service has it and its      *)
(* events were read, whatever else the watch delivers.                     *)
THEOREM NothingMissed == Spec => NothingIsMissed
  <1>1. Init => TypeOK /\ Delivered
    BY TypeInit, DeliveredInit
  <1>2. TypeOK /\ Delivered /\ [Next]_vars => (TypeOK /\ Delivered)'
    BY TypeNext, DeliveredNext
  <1>3. TypeOK /\ Delivered /\ [Next]_vars =>
          [pc = "wait" /\ events = <<>> /\ Current \in granted[Mine] /\ pc' # "wait"
             => Mine \in answer'[Current]]_vars
    BY NothingMissedStep
  <1> QED
    BY <1>1, <1>2, <1>3, PTL DEF Spec, NothingIsMissed

-----------------------------------------------------------------------------
(* A setup that says nothing has its addresses.  In every caller but       *)
(* "local" the one address that is used is waited for last, and its empty  *)
(* answer ends the setup or is reported, a load balancer's if its twin has *)
(* none.                                                                   *)
LEMMA AddressIsLast ==
  ASSUME TypeOK, ~HasNext, caller \notin {"local", "twinBalancer"}, NEW w \in Given, w # "nodePort"
  PROVE  w = Current /\ (caller = "template" \/ <<caller, w>> \in Checked)
  <1> DEFINE prog == Program[caller]
  <1>1. w \in AddressWait /\ \E i \in DOMAIN prog : prog[i] = w
    BY DEF Given, Range
  <1>2. step = Len(prog)
    BY Programs DEF TypeOK, HasNext
  <1>3. w # "endpoint"
    BY <1>1, Kinds
  <1>4. CASE caller = "template"
    BY <1>1, <1>2, <1>4 DEF Program, Current
  <1>5. CASE caller \in {"clusterIP", "labels"}
    <2>1. prog = <<"endpoint", "clusterIP">>
      BY <1>5 DEF Program
    <2> QED
      BY <1>1, <1>2, <1>3, <1>5, <2>1 DEF Current, Checked
  <1>6. CASE caller = "nodePort"
    BY <1>1, <1>3, <1>6 DEF Program
  <1>7. CASE caller = "loadBalancer"
    <2>1. prog = <<"endpoint", "externalIP">>
      BY <1>7 DEF Program
    <2> QED
      BY <1>1, <1>2, <1>3, <1>7, <2>1 DEF Current, Checked
  <1> QED
    BY <1>4, <1>5, <1>6, <1>7 DEF TypeOK, Caller, Program

LEMMA UsableWhenReturned ==
  ASSUME TypeOK, NEW value \in SUBSET Service, NEW failed \in BOOLEAN,
         Return(value, failed), AnswersWereTrue'
  PROVE  SilentSetupIsUsable'
  <1> SUFFICES ASSUME pc' = "end", ~reported', caller \notin {"local", "twinBalancer"},
                      NEW w \in Given, w # "nodePort"
               PROVE  answer'[w] = {Mine}
    BY DEF SilentSetupIsUsable, Return, Given
  <1>1. ~HasNext /\ ~(caller = "template" /\ value = {})
    BY DEF Return
  <1>2. w = Current /\ (caller = "template" \/ <<caller, w>> \in Checked)
    BY <1>1, AddressIsLast
  <1>3. answer'[w] = value
    BY <1>2, Returned, CurrentIsAWait DEF TypeOK
  <1>4. value # {}
    BY <1>1, <1>2 DEF Return, Disappoints
  <1>5. answer'[w] \subseteq {Mine}
    BY Kinds, GivenAreAddresses DEF AnswersWereTrue
  <1> QED
    BY <1>3, <1>4, <1>5

LEMMA UsableNext ==
  TypeOK /\ SilentSetupIsUsable /\ AnswersWereTrue' /\ [Next]_vars
    => SilentSetupIsUsable'
  <1> SUFFICES ASSUME TypeOK, SilentSetupIsUsable, AnswersWereTrue', [Next]_vars
               PROVE  SilentSetupIsUsable'
    OBVIOUS
  <1>1. CASE UNCHANGED setup
    BY <1>1 DEF setup, SilentSetupIsUsable, Given
  <1>2. CASE pc' # "end"
    BY <1>2 DEF SilentSetupIsUsable
  <1>3. CASE OpenFails
    BY <1>2, <1>3, UsableWhenReturned DEF OpenFails
  <1>4. CASE Timeout
    <2>1. answer[Current] \in SUBSET Service
      BY CurrentIsAWait DEF TypeOK
    <2> QED
      BY <1>4, <2>1, UsableWhenReturned DEF Timeout
  <1>5. CASE Receive
    <2> DEFINE e == Head(events)
    <2>1. CASE e # Broken /\ Return({e.of}, FALSE)
      <3>1. e \in Event
        BY <1>5, HeadTailProperties DEF Receive, TypeOK
      <3>2. {e.of} \in SUBSET Service
        BY <2>1, <3>1 DEF Event
      <3> QED
        BY <2>1, <3>2, UsableWhenReturned
    <2>2. CASE pc' \in {pc, "panicked"}
      BY <1>2, <1>5, <2>2 DEF Receive
    <2> QED
      BY <1>5, <2>1, <2>2 DEF Receive
  <1>6. CASE Create \/ Open
    BY <1>2, <1>6 DEF Create, Open
  <1>7. CASE Environment
    BY <1>1, <1>7, EnvironmentSteps
       DEF SomethingChanges, OneObjectChanges, Change, Vanish, Break
  <1>8. CASE UNCHANGED vars
    BY <1>1, <1>8 DEF vars, setup
  <1> QED
    BY <1>3, <1>4, <1>5, <1>6, <1>7, <1>8 DEF Next, CallerStep, Terminated

(* A setup that ends without a report has the addresses that it goes on to *)
(* write into the pods, but for node ports and the caller "local", whatever *)
(* the watches deliver (service.go:163-249, main_test.go).                 *)
THEOREM SilentSetupsAreUsable == Spec => []SilentSetupIsUsable
  <1>1. Init => TypeOK /\ Truthful /\ SilentSetupIsUsable
    BY TypeInit, TruthfulInit DEF Init, SilentSetupIsUsable
  <1>2. TypeOK /\ Truthful /\ SilentSetupIsUsable /\ [Next]_vars
          => (TypeOK /\ Truthful /\ SilentSetupIsUsable)'
    BY TypeNext, TruthfulNext, UsableNext DEF Truthful
  <1> QED
    BY <1>1, <1>2, PTL DEF Spec

-----------------------------------------------------------------------------
(* The promise.  A service once made stays; only one that exists has an    *)
(* address; and what is not reported was made.                             *)
Made == pc # "create" /\ ~reported => Mine \in created

AddressesAreOfTheMade == \A w \in AddressWait : Mine \in had[w] => Mine \in created

GoesOnUnreported ==
  pc \notin {"fatal", "panicked"} /\ caller \in {"template", "labels"} => ~reported

FatalIsReported == pc = "fatal" => caller = "labels" /\ reported

Kept == Made /\ AddressesAreOfTheMade /\ GoesOnUnreported /\ FatalIsReported

LEMMA KeptInit == Init => Kept
  BY MineIsAService, Kinds
     DEF Init, Kept, Made, AddressesAreOfTheMade, GoesOnUnreported, FatalIsReported, Shows

(* A wait of CreateServiceFromTemplate has no error to return, and its     *)
(* empty answer is not looked at but by the wrapped nil error.             *)
LEMMA ReturnedKeeps ==
  ASSUME TypeOK, Kept, pc \in {"open", "wait"}, NEW value \in SUBSET Service,
         NEW failed \in BOOLEAN, failed => Current = "endpoint", Return(value, failed)
  PROVE  Kept'
  <1>1. reported' = (reported \/ failed \/ Disappoints(Current, value))
    BY DEF Return
  <1>2. UNCHANGED <<caller, created, had>>
    BY DEF Return, cluster
  <1>3. Made' /\ AddressesAreOfTheMade'
    BY <1>1, <1>2 DEF Kept, Made, AddressesAreOfTheMade
  <1>4. CASE caller = "template"
    <2>1. Current = "clusterIP"
      BY <1>4 DEF TypeOK, Current, Program
    <2>2. ~reported'
      BY <1>1, <1>4, <2>1 DEF Kept, GoesOnUnreported, Disappoints, Checked
    <2>3. pc' # "fatal"
      BY <1>4 DEF Return, Strict
    <2> QED
      BY <1>2, <1>3, <2>2, <2>3 DEF Kept, GoesOnUnreported, FatalIsReported
  <1>5. CASE caller = "labels"
    <2>1. pc' # "fatal" => ~reported'
      <3> DEFINE wrong == failed \/ Disappoints(Current, value)
      <3>1. wrong => pc' = "fatal"
        <4>1. caller # "template" /\ caller \in Strict
          BY <1>5 DEF Strict
        <4> HIDE DEF wrong
        <4> QED
          BY <4>1, <1>1 DEF Return, wrong
      <3>2. reported' = (reported \/ wrong) /\ ~reported
        BY <1>1, <1>5 DEF Kept, GoesOnUnreported
      <3> QED
        BY <3>1, <3>2
    <2>2. pc' = "fatal" => reported'
      BY <1>5 DEF Return, Strict, HasNext
    <2> QED
      BY <1>2, <1>3, <1>5, <2>1, <2>2 DEF Kept, GoesOnUnreported, FatalIsReported
  <1>6. CASE caller \notin {"template", "labels"}
    <2>1. pc' # "fatal"
      BY <1>6 DEF Return, Strict
    <2> QED
      BY <1>2, <1>3, <1>6, <2>1 DEF Kept, GoesOnUnreported, FatalIsReported
  <1> QED
    BY <1>4, <1>5, <1>6

LEMMA KeptNext ==
  TypeOK /\ Kept /\ OnlyCreatedHaveAddresses' /\ [Next]_vars => Kept'
  <1> SUFFICES ASSUME TypeOK, Kept, OnlyCreatedHaveAddresses', [Next]_vars
               PROVE  Kept'
    OBVIOUS
  <1> USE DEF Kept, Made, GoesOnUnreported, FatalIsReported
  <1>1. CASE SomethingChanges
    <2>1. PICK s \in Service, kind \in {"services", "endpoints"},
               gr \in [Service -> SUBSET Trait],
               su \in [Service -> SUBSET Subset] :
                 OneObjectChanges(s, kind, gr, su)
      BY <1>1 DEF SomethingChanges
    <2>2. /\ UNCHANGED setup /\ granted' = gr /\ created \subseteq created'
          /\ had' = [w \in Shown |-> had[w] \union {t \in Service : Shows(t, w, gr, su)}]
      BY <2>1, Changed DEF OneObjectChanges
    <2>3. ASSUME NEW w \in AddressWait, Mine \in had'[w] PROVE Mine \in created'
      <3>1. Mine \in had[w] \/ Shows(Mine, w, gr, su)
        BY <2>2, <2>3, Kinds
      <3>2. Shows(Mine, w, gr, su) => w \in granted'[Mine]
        BY <2>2, Kinds DEF Shows
      <3> QED
        BY <2>2, <3>1, <3>2, MineIsAService
           DEF AddressesAreOfTheMade, OnlyCreatedHaveAddresses
    <2> QED
      BY <2>2, <2>3 DEF setup, AddressesAreOfTheMade
  <1>2. ASSUME NEW s \in Service, Vanish(s) PROVE Kept'
    BY <1>2 DEF Vanish, setup, AddressesAreOfTheMade
  <1>3. CASE Break
    BY <1>3 DEF Break, setup, cluster, AddressesAreOfTheMade
  <1>4. CASE Create
    <2>1. created \subseteq created' /\ UNCHANGED <<had, caller>>
      BY <1>4 DEF Create
    <2>2. AddressesAreOfTheMade'
      BY <2>1 DEF AddressesAreOfTheMade
    <2> QED
      BY <1>4, <2>2 DEF Create, Strict
  <1>5. CASE Open
    BY <1>5 DEF Open, cluster, AddressesAreOfTheMade
  <1>6. ASSUME pc' = "panicked", UNCHANGED <<caller, reported, cluster>>,
               pc \in {"open", "wait"}
        PROVE  Kept'
    BY <1>6 DEF cluster, AddressesAreOfTheMade
  <1>7. CASE OpenFails
    <2> HIDE DEF Kept, Made, GoesOnUnreported, FatalIsReported
    <2>1. CASE Return({}, Current = "endpoint")
      BY <1>7, <2>1, ReturnedKeeps DEF OpenFails
    <2> QED
      BY <1>6, <1>7, <2>1 DEF OpenFails
  <1>8. CASE Receive
    <2> DEFINE e == Head(events)
    <2> HIDE DEF Kept, Made, GoesOnUnreported, FatalIsReported
    <2>1. CASE e # Broken /\ Return({e.of}, FALSE)
      <3>1. e \in Event
        BY <1>8, HeadTailProperties DEF Receive, TypeOK
      <3>2. {e.of} \in SUBSET Service
        BY <2>1, <3>1 DEF Event
      <3> QED
        BY <1>8, <2>1, <3>2, ReturnedKeeps DEF Receive
    <2>2. CASE UNCHANGED <<caller, pc, reported, cluster>>
      BY <2>2 DEF cluster, Kept, Made, AddressesAreOfTheMade, GoesOnUnreported,
                  FatalIsReported
    <2> QED
      BY <1>6, <1>8, <2>1, <2>2 DEF Receive
  <1>9. CASE Timeout
    <2> HIDE DEF Kept, Made, GoesOnUnreported, FatalIsReported
    <2>1. answer[Current] \in SUBSET Service
      BY CurrentIsAWait DEF TypeOK
    <2> QED
      BY <1>9, <2>1, ReturnedKeeps DEF Timeout
  <1>10. CASE UNCHANGED vars
    BY <1>10 DEF vars, setup, cluster, AddressesAreOfTheMade
  <1> QED
    BY <1>1, <1>2, <1>3, <1>4, <1>5, <1>7, <1>8, <1>9, <1>10, EnvironmentSteps
       DEF Next, CallerStep, Terminated

(* What a Setup that is over has come to.                                  *)
Result == [there |-> Mine \in created, address |-> AddressUsed,
           reported |-> reported, end |-> pc]

LEMMA UsedIsGiven ==
  ASSUME TypeOK
  PROVE  /\ Used \in Given
         /\ caller \in Promise!Careful => /\ Used # "nodePort"
                                        /\ caller \notin {"local", "twinBalancer"}
         /\ Used = "externalIP" => caller \in Promise!Balancers
  <1>1. Last(Program[caller]) = Program[caller][Len(Program[caller])]
    BY DEF Last
  <1>2. Program[caller] \in Seq(Wait) /\ Len(Program[caller]) \in DOMAIN Program[caller]
    BY Programs DEF TypeOK
  <1>3. Used \in Range(Program[caller])
    BY <1>1, <1>2 DEF Used, Range
  <1>4. CASE caller \in {"template", "clusterIP", "labels"}
    <2>1. Used = "clusterIP"
      <3>1. CASE caller = "template"
        BY <1>1, <3>1 DEF Used, Program
      <3>2. CASE caller = "clusterIP"
        BY <1>1, <3>2 DEF Used, Program
      <3>3. CASE caller = "labels"
        BY <1>1, <3>3 DEF Used, Program
      <3> QED
        BY <1>4, <3>1, <3>2, <3>3
    <2> QED
      BY <1>3, <1>4, <2>1 DEF Given, AddressWait
  <1>5. CASE caller = "loadBalancer"
    <2>1. Used = "externalIP"
      BY <1>1, <1>5 DEF Used, Program
    <2> QED
      BY <1>3, <1>5, <2>1 DEF Given, AddressWait, Promise!Balancers
  <1>6. CASE caller \in {"nodePort", "local", "twinBalancer"}
    <2>1. Used = "nodePort" \/ (Used = "externalIP" /\ caller = "twinBalancer")
      <3>1. CASE caller = "nodePort"
        BY <1>1, <3>1 DEF Used, Program
      <3>2. CASE caller = "local"
        BY <1>1, <3>2 DEF Used, Program
      <3>3. CASE caller = "twinBalancer"
        BY <1>1, <3>3 DEF Used, Program
      <3> QED
        BY <1>6, <3>1, <3>2, <3>3
    <2>2. caller \notin Promise!Careful
      BY <1>6 DEF Promise!Careful, Promise!AllOrNothing
    <2> QED
      BY <1>3, <2>1, <2>2 DEF Given, AddressWait, Promise!Balancers
  <1> QED
    BY <1>4, <1>5, <1>6 DEF TypeOK, Caller, Program

LEMMA PromiseIsKept ==
  ASSUME TypeOK, Kept, AnswersWereTrue, SilentSetupIsUsable, Over
  PROVE  Result \in Promise!Promised(caller)
  <1>0. /\ Result.there = (Mine \in created) /\ Result.address = AddressUsed
        /\ Result.reported = reported /\ Result.end = pc
    BY DEF Result
  <1>1. Result \in Promise!Outcome
    BY DEF Result, AddressUsed, Promise!Outcome, TypeOK, Over
  <1>2. Result.address # "none" => Result.there
    <2>1. Result.address # "none" => answer[Used] = {Mine}
      BY <1>0 DEF AddressUsed
    <2> QED
      BY <1>0, <2>1, UsedIsGiven, Kinds, GivenAreAddresses
         DEF AnswersWereTrue, Kept, AddressesAreOfTheMade
  <1>3. pc = "end" /\ ~reported => Result.there
    BY DEF Result, Kept, Made
  <1>4. pc = "end" /\ ~reported /\ caller \in Promise!Careful => Result.address # "none"
    BY <1>0, UsedIsGiven DEF AddressUsed, SilentSetupIsUsable
  <1>5. pc = "end" /\ caller \in Promise!AllOrNothing => ~reported
    BY DEF Kept, GoesOnUnreported, Promise!AllOrNothing
  <1>6. pc = "fatal" => caller = "labels" /\ reported
    BY DEF Kept, FatalIsReported
  <1>7. Result.address = "empty" => caller \in Promise!Balancers
    BY <1>0, UsedIsGiven DEF AddressUsed
  <1> QED
    BY <1>0, <1>1, <1>2, <1>3, <1>4, <1>5, <1>6, <1>7 DEF Promise!Promised

(* Nothing changes the outcome of a Setup that is over.                    *)
LEMMA OutcomeIsFinal ==
  ASSUME TypeOK, Over, [Next]_vars
  PROVE  UNCHANGED <<caller, pc, reported, answer, created>>
  <1>1. ~SomethingChanges
    BY DEF SomethingChanges, OneObjectChanges, Change
  <1>2. ~\E s \in Service : Vanish(s)
    BY DEF Vanish
  <1>3. CASE Break
    BY <1>3 DEF Break, setup, cluster
  <1>4. ~CallerStep
    BY DEF Over, CallerStep, Create, Open, OpenFails, Receive, Timeout
  <1>5. CASE UNCHANGED vars
    BY <1>5 DEF vars, setup, cluster
  <1> QED
    BY <1>1, <1>2, <1>3, <1>4, <1>5, EnvironmentSteps DEF Next, Terminated

LEMMA CallerStays == [Next]_vars => UNCHANGED caller
  BY DEF Next, vars, setup, CallerStep, Create, Open, OpenFails, Receive, Timeout, Return,
         Terminated, Environment, Appear, Grant, Withdraw, Settle, Touch, Vanish, Break, Change

LEMMA PromiseStep ==
  ASSUME TypeOK, TypeOK', Kept', AnswersWereTrue', SilentSetupIsUsable', [Next]_vars
  PROVE  [Promise!ComeToAnEnd]_<<caller,
           IF ~Over THEN [there |-> FALSE, address |-> "none", reported |-> FALSE,
                          end |-> "running"]
           ELSE [there |-> Mine \in created, address |-> AddressUsed,
                 reported |-> reported, end |-> pc]>>
  <1>1. UNCHANGED caller
    BY CallerStays
  <1>2. CASE Over
    BY <1>2, OutcomeIsFinal DEF Over, AddressUsed, Used
  <1>3. CASE ~Over /\ ~Over'
    BY <1>1, <1>3
  <1>4. CASE ~Over /\ Over'
    <2>1. Result' \in Promise!Promised(caller)
      <3>1. (Result \in Promise!Promised(caller))'
        BY <1>4, PromiseIsKept, PTL
      <3> QED
        BY <1>1, <3>1 DEF Promise!Promised, Promise!Careful, Promise!AllOrNothing,
                          Promise!Outcome
    <2> QED
      BY <1>1, <1>4, <2>1 DEF Promise!ComeToAnEnd, Promise!Undecided, Result
  <1> QED
    BY <1>2, <1>3, <1>4

(* Every Setup, whatever its watches deliver and however the API server    *)
(* answers, comes to one of the outcomes that the features count with, and  *)
(* what the namespace does later does not change it (service.go:142-249 as  *)
(* its callers in tests/ use it).                                           *)
THEOREM SetupsKeepTheirPromise == Spec => SetupSpec
  <1> DEFINE I == TypeOK /\ Delivered /\ Truthful /\ SilentSetupIsUsable /\ Kept
  <1>1. Init => I
    BY TypeInit, DeliveredInit, TruthfulInit, KeptInit DEF Init, SilentSetupIsUsable
  <1>2. I /\ [Next]_vars => I'
    BY TypeNext, DeliveredNext, TruthfulNext, UsableNext, KeptNext
       DEF Truthful, Delivered
  <1>3. Init => Promise!Init
    BY DEF Init, Over, Promise!Init, Promise!Undecided
  <1>4. I /\ I' /\ [Next]_vars =>
          [Promise!ComeToAnEnd]_<<caller,
             IF ~Over THEN [there |-> FALSE, address |-> "none", reported |-> FALSE,
                            end |-> "running"]
             ELSE [there |-> Mine \in created, address |-> AddressUsed,
                   reported |-> reported, end |-> pc]>>
    BY PromiseStep DEF Truthful
  <1> HIDE DEF I
  <1> QED
    BY <1>1, <1>2, <1>3, <1>4, PTL DEF Spec, SetupSpec, Promise!Spec
=============================================================================
