---------------------------- MODULE ServiceWatch ----------------------------
(***************************************************************************)
(* How a Setup makes one service and waits for it: Create, WaitForEndpoint, *)
(* WaitForClusterIP, WaitForNodePort and WaitForExternalIP of               *)
(* pkg/entities/kubernetes/service.go, CreateServiceFromTemplate of         *)
(* pkg/matrix/manager.go, and what the callers in tests/ do with an answer. *)
(*                                                                         *)
(* A wait reads a watch of the whole namespace.  Other services live there, *)
(* so its events speak of other objects too; it starts with the objects     *)
(* that exist; and the API server may end it at any time.  An address is    *)
(* named by the service it belongs to: what is modelled of a value is       *)
(* whose it is.                                                            *)
(***************************************************************************)
EXTENDS Naturals, FiniteSets, SequencesExt

CONSTANTS
  Service,     \* the names of services in the namespace
  Mine,        \* the one this Setup creates
  Nobody,      \* no service: what an error event speaks of
  MaxBacklog   \* bound: events on their way in a watch

ASSUME MineIsAService == Mine \in Service /\ Nobody \notin Service
ASSUME ServicesAreFinite == IsFiniteSet(Service)

(***************************************************************************)
(* The waits, and the order in which each caller uses them.  "template" is  *)
(* CreateServiceFromTemplate in the three features that call it; "labels"   *)
(* is the setup of label_test.go, and that of conntrack_test.go.  A load     *)
(* balancer test makes two services for a pod and looks whether the two     *)
(* together have an address: "twinBalancer" is one whose other has some.    *)
(***************************************************************************)
AddressWait == {"clusterIP", "nodePort", "externalIP"}
Wait == AddressWait \union {"endpoint"}

\* What a Service may have: beside the addresses, "hostname" says that the
\* first entry of its ingress has a name and no IP.
Trait == AddressWait \union {"hostname"}
Shown == Trait \union {"endpoint"}

Program ==
  [template     |-> <<"clusterIP">>,
   clusterIP    |-> <<"endpoint", "clusterIP">>,
   nodePort     |-> <<"endpoint", "nodePort">>,
   local        |-> <<"clusterIP", "endpoint", "nodePort">>,
   loadBalancer |-> <<"endpoint", "externalIP">>,
   twinBalancer |-> <<"endpoint", "externalIP">>,
   labels       |-> <<"endpoint", "clusterIP">>]

Caller == DOMAIN Program

\* The empty answers a caller takes for an error.
Checked ==
  ({"clusterIP", "nodePort", "loadBalancer", "twinBalancer", "labels"} \X {"endpoint"})
    \union {<<"clusterIP", "clusterIP">>, <<"labels", "clusterIP">>,
            <<"loadBalancer", "externalIP">>}

\* The callers that call t.Fatal rather than t.Error.
Strict == {"labels"}

\* Subsets of an Endpoints object: "ready" has addresses and none that is not
\* ready; a wait passes over all others.
Subset == {"ready"}

\* A closed watch, or a Status object in it, is an event without an object.
Broken == [of |-> Nobody, shows |-> {}]
Event == [of : Service, shows : SUBSET (Shown \union Subset)] \union {Broken}

VARIABLES
  caller, step, pc,  \* who sets up, at which wait, doing what
  answer,            \* what each wait returned: the owners of the addresses,
                     \* and under "hostname" if the first of them is no IP
  reported,          \* t.Error or t.Fatal was called
  created,           \* the services of the namespace
  granted,           \* the addresses each one has been given
  subsets,           \* the subsets of its Endpoints object
  watch, events,     \* the open watch, and its events on their way
  had                \* history: who ever had what a wait waits for

cluster == <<created, granted, subsets, had>>
setup == <<caller, step, pc, answer, reported>>
vars == <<setup, cluster, watch, events>>

Current == Program[caller][step]
\* The setup is over: what the cluster does then is not looked at.
Over == pc \in {"end", "fatal", "panicked"}

\* The kinds of address this caller waits for; others are left out.
Given == AddressWait \intersect Range(Program[caller])

TypeOK ==
  /\ caller \in Caller
  /\ step \in 1..Len(Program[caller])
  /\ pc \in {"create", "open", "wait", "end", "fatal", "panicked"}
  /\ answer \in [Shown -> SUBSET Service]
  /\ reported \in BOOLEAN
  /\ created \subseteq Service
  /\ granted \in [Service -> SUBSET Trait]
  /\ subsets \in [Service -> SUBSET Subset]
  /\ watch \in {"none", "services", "endpoints", "broken"}
  /\ events \in Seq(Event)
  /\ had \in [Shown -> SUBSET Service]

-----------------------------------------------------------------------------
(***************************************************************************)
(* The namespace.                                                          *)
(***************************************************************************)
Shows(s, w, gr, su) == IF w = "endpoint" THEN "ready" \in su[s] ELSE w \in gr[s]

\* What an event of the open watch says of s.
Snapshot(s, kind, gr, su) ==
  [of |-> s, shows |-> IF kind = "endpoints" THEN su[s] ELSE gr[s]]

Notify(e) == events' = Append(events, e)

\* The cluster moves to gr and su; s is the object that changed.
Change(s, kind, gr, su) ==
  /\ ~Over
  /\ granted' = gr
  /\ subsets' = su
  /\ had' = [w \in Shown |-> had[w] \union {t \in Service : Shows(t, w, gr, su)}]
  /\ IF watch = kind
     THEN Len(events) < MaxBacklog /\ Notify(Snapshot(s, kind, gr, su))
     ELSE UNCHANGED events
  /\ UNCHANGED <<setup, watch>>

\* Another test, or an earlier round of the same loop, made a service.
Appear(s) ==
  /\ s \notin created
  /\ s # Mine
  /\ created' = created \union {s}
  /\ Change(s, "services", granted, subsets)

\* The API server, a controller or a cloud provider gives s an address; that
\* of a load balancer may be a host name (whether another one's is, no wait asks).
Grant(s, w) ==
  /\ s \in created
  /\ w \in Given \ granted[s]
  /\ \E new \in IF w = "externalIP" /\ s = Mine THEN {{w}, {w, "hostname"}} ELSE {{w}} :
       Change(s, "services", [granted EXCEPT ![s] = @ \union new], subsets)
  /\ UNCHANGED created

\* A load balancer loses its address.
Withdraw(s) ==
  /\ "externalIP" \in granted[s]
  /\ Change(s, "services", [granted EXCEPT ![s] = @ \ {"externalIP", "hostname"}], subsets)
  /\ UNCHANGED created

\* Pods behind s become ready or stop being so.
Settle(s) ==
  /\ s \in created
  /\ \E su \in SUBSET Subset \ {subsets[s]} :
       Change(s, "endpoints", granted, [subsets EXCEPT ![s] = su])
  /\ UNCHANGED created

\* An update of something else in the object.
Touch(s) ==
  /\ s \in created
  /\ watch \in {"services", "endpoints"}
  /\ Change(s, watch, granted, subsets)
  /\ UNCHANGED created

\* Another service is deleted: its last state is the event.
Vanish(s) ==
  /\ ~Over
  /\ s \in created \ {Mine}
  /\ created' = created \ {s}
  /\ granted' = [granted EXCEPT ![s] = {}]
  /\ subsets' = [subsets EXCEPT ![s] = {}]
  /\ IF watch \in {"services", "endpoints"}
     THEN Len(events) < MaxBacklog /\ Notify(Snapshot(s, watch, granted, subsets))
     ELSE UNCHANGED events
  /\ UNCHANGED <<setup, watch, had>>

\* The watch ends, or delivers a Status instead of an object.
Break ==
  /\ watch \in {"services", "endpoints"}
  /\ watch' = "broken"
  /\ Notify(Broken)
  /\ UNCHANGED <<setup, cluster>>

Environment ==
  \/ \E s \in Service :
       Appear(s) \/ Withdraw(s) \/ Settle(s) \/ Touch(s) \/ Vanish(s)
  \/ \E s \in Service, w \in AddressWait : Grant(s, w)
  \/ Break

-----------------------------------------------------------------------------
(***************************************************************************)
(* The caller.                                                             *)
(***************************************************************************)
Init ==
  /\ caller \in Caller
  /\ step = 1
  /\ pc = "create"
  /\ answer = [w \in Shown |-> {}]
  /\ reported = FALSE
  /\ created \in SUBSET (Service \ {Mine})
  /\ granted \in {gr \in [Service -> SUBSET Given] :
                    \A s \in Service : s \notin created => gr[s] = {}}
  /\ subsets \in {su \in [Service -> SUBSET Subset] :
                    \A s \in Service : s \notin created => su[s] = {}}
  /\ watch = "none"
  /\ events = <<>>
  /\ had = [w \in Shown |-> {s \in Service : Shows(s, w, granted, subsets)}]

\* Mutant: the error of Create is dropped.
CreateUnseen ==
  /\ pc = "create"
  /\ created' \in {created, created \union {Mine}}
  /\ pc' = "open"
  /\ UNCHANGED <<caller, step, answer, reported, granted, subsets, had, watch, events>>

\* Service.Create, whose error may come after its effect.  Where t.Error
\* reports its failure the waits follow all the same; CreateServiceFromTemplate
\* returns no service then, and its callers assert the type of that nil.
Create ==
  /\ pc = "create"
  /\ \/ /\ created' = created \union {Mine}
        /\ pc' = "open"
        /\ UNCHANGED reported
     \/ /\ reported' = TRUE
        /\ pc' = CASE caller = "template" -> "panicked"
                   [] caller \in Strict   -> "fatal"
                   [] OTHER               -> "open"
        /\ created' \in {created, created \union {Mine}}
  /\ UNCHANGED <<caller, step, answer, granted, subsets, had, watch, events>>

\* Mutant: a watch from "now" on, which does not start with what exists.
NoInitialEvents(kind) == {<<>>}

\* A watch without a resource version starts with the objects that exist.
InitialEvents(kind) ==
  SetToSeqs({Snapshot(s, kind, granted, subsets) : s \in created})

\* Mutant: the loop over the waits runs once too often.
OneWaitTooMany == step <= Len(Program[caller])

HasNext == step < Len(Program[caller])

\* The caller takes an empty answer for an error.
Disappoints(w, value) == value = {} /\ <<caller, w>> \in Checked

\* A wait returns value and, if failed, an error.  CreateServiceFromTemplate
\* wraps its error and returns no service: without an address and without an
\* error that is a nil error, and its caller goes on with the nil service.
Return(value, failed) ==
  LET w == Current
      wrong == failed \/ Disappoints(w, value)
  IN  /\ answer' = [answer EXCEPT ![w] = value]
      /\ reported' = (reported \/ wrong)
      /\ pc' = CASE caller = "template" /\ value = {} -> "panicked"
                 [] caller \in Strict /\ wrong        -> "fatal"
                 [] OTHER -> IF HasNext THEN "open" ELSE "end"
      /\ step' = IF pc' = "open" THEN step + 1 ELSE step
      /\ watch' = "none"
      /\ events' = <<>>
      /\ UNCHANGED <<caller, cluster>>

KindOf(w) == IF w = "endpoint" THEN "endpoints" ELSE "services"

Open ==
  /\ pc = "open"
  /\ pc' = "wait"
  /\ watch' = KindOf(Current)
  /\ events' \in InitialEvents(watch')
  /\ UNCHANGED <<caller, step, answer, reported, cluster>>

\* The call that opens the watch fails.  WaitForEndpoint returns the error,
\* WaitForExternalIP drops it, the other two defer Stop on the nil watch.
OpenFails ==
  /\ pc = "open"
  /\ IF Current \in {"endpoint", "externalIP"}
     THEN Return({}, Current = "endpoint")
     ELSE /\ pc' = "panicked"
          /\ UNCHANGED <<caller, step, answer, reported, cluster, watch, events>>

\* Mutant: the node port of any service of the namespace.
SatisfiedByAnyPort(w, e) ==
  CASE w = "endpoint"   -> "ready" \in e.shows
    [] w = "clusterIP"  -> e.of = Mine /\ w \in e.shows
    [] w = "nodePort"   -> w \in e.shows
    [] w = "externalIP" -> FALSE

\* The event ends the wait.  WaitForEndpoint does not look at whose endpoints
\* these are, and one subset is enough; WaitForExternalIP only collects.
Satisfied(w, e) ==
  CASE w = "endpoint"   -> "ready" \in e.shows
    [] w = "externalIP" -> FALSE
    [] OTHER            -> e.of = Mine /\ w \in e.shows

\* WaitForExternalIP appends what each ingress entry has as its IP, which is
\* the empty string where it has a name.  A probe uses the first of the list.
Collected(e) ==
  [answer EXCEPT !["externalIP"] = @ \union {e.of},
                 !["hostname"] = IF answer["externalIP"] = {} /\ "hostname" \in e.shows
                                 THEN {e.of} ELSE @]

Receive ==
  /\ pc = "wait"
  /\ events # <<>>
  /\ LET e == Head(events)
     IN  \/ /\ e = Broken
            /\ pc' = "panicked"
            /\ UNCHANGED <<caller, step, answer, reported, cluster, watch, events>>
         \/ /\ e # Broken
            /\ Satisfied(Current, e)
            /\ Return({e.of}, FALSE)
         \/ /\ e # Broken
            /\ ~Satisfied(Current, e)
            /\ events' = Tail(events)
            /\ answer' = IF Current = "externalIP" /\ e.of = Mine /\ Current \in e.shows
                         THEN Collected(e) ELSE answer
            /\ UNCHANGED <<caller, step, pc, reported, cluster, watch>>

\* Mutant: a timer that is made anew and read only when an event arrives.
TimeoutOnEvent == events # <<>> /\ Head(events) # Broken

\* waitTime has passed since the last event.  An event that is on its way
\* arrives within that time (the one assumption about the watch).
Idle == events = <<>>

Timeout ==
  /\ pc = "wait"
  /\ Idle
  /\ Return(answer[Current], FALSE)

CallerStep == Create \/ Open \/ OpenFails \/ Receive \/ Timeout

Terminated == Over /\ UNCHANGED vars

Next == CallerStep \/ Environment \/ Terminated

Spec == Init /\ [][Next]_vars
FairSpec == Spec /\ WF_vars(CallerStep)
-----------------------------------------------------------------------------
(***************************************************************************)
(* Properties.                                                             *)
(***************************************************************************)
\* What a wait answers was true of an object when it was sent, and an address
\* is one of the service that was asked for: events of other services, and
\* events about a state long gone, never become its address
\* (service.go:175, 198, 224).
AnswersWereTrue ==
  \A w \in Shown : /\ answer[w] \subseteq had[w]
                   /\ w \in Trait => answer[w] \subseteq {Mine}

\* A wait does not give up on an address that the service has: neither one it
\* was given before the watch was opened, nor one given while events of other
\* services were being read.
NothingIsMissed ==
  [][ pc = "wait" /\ events = <<>> /\ Current \in granted[Mine] /\ pc' # "wait"
        => Mine \in answer'[Current] ]_vars

\* A Setup that ends without a report has the addresses it goes on to write
\* into the pods, except a node port and the answers in "local", whose callers
\* look at the error only, and a wait that timed out has none; and except a load
\* balancer whose twin has an address.  An address of a load balancer is an
\* entry of its list here, which may be without an IP.
SilentSetupIsUsable ==
  pc = "end" /\ ~reported =>
    \A w \in Given : \/ answer[w] = {Mine}
                     \/ w = "nodePort"
                     \/ caller \in {"local", "twinBalancer"}

\* The address that the caller writes into the pods, the last one waited for.
Used == Last(Program[caller])

\* What it is: an entry of the list of external IPs may be no IP.
AddressUsed ==
  IF answer[Used] # {Mine} THEN "none"
  ELSE IF Used = "externalIP" /\ answer["hostname"] = {Mine} THEN "empty"
  ELSE "given"

\* Whatever the watch delivers, a Setup comes to one of the outcomes that the
\* features count with (TestBoard), and what it has come to stays.
Promise == INSTANCE OneSetup WITH
  outcome <- IF ~Over THEN [there |-> FALSE, address |-> "none", reported |-> FALSE,
                            end |-> "running"]
             ELSE [there |-> Mine \in created, address |-> AddressUsed,
                   reported |-> reported, end |-> pc]

SetupSpec == Promise!Spec

\* A Setup ends unless its namespace never comes to rest: every event starts
\* the 15 seconds anew (service.go:156, 178, 206, 229).
SetupEnds == <>Over \/ []<><<Environment>>_vars

\* "WaitForEndpoint return when all addresses are ready." (service.go:139)
EndpointsWereReady ==
  answer["endpoint"] # {} => Mine \in had["endpoint"]
=============================================================================
