---------------------------- MODULE SetupPromise ----------------------------
(***************************************************************************)
(* What a feature may rely on when it sets up one service.  A Setup ends    *)
(* once, with an outcome that depends on how its caller looks at errors and *)
(* at empty answers; how the waits come to it is module ServiceWatch, what  *)
(* the features do with it is module TestBoard.                            *)
(***************************************************************************)

(* there:    the service is in the cluster                                 *)
(* address:  what the caller goes on to use was answered: no address; one  *)
(*           that is empty, for a load balancer whose ingress has a name    *)
(*           and no IP; or one that was given                               *)
(* reported: t.Error or t.Fatal was called                                 *)
(* end:      the Setup ran to its end, t.Fatal cut it off, or it panicked  *)
Outcome == [there : BOOLEAN, address : {"none", "empty", "given"},
            reported : BOOLEAN, end : {"end", "fatal", "panicked"}]

(* Callers that go on only with a service and its address.                 *)
AllOrNothing == {"template", "labels"}

(* Callers that report an address that did not come.                       *)
Careful == AllOrNothing \union {"clusterIP", "loadBalancer"}

Balancers == {"loadBalancer", "twinBalancer"}

Promised(caller) ==
  {o \in Outcome :
     /\ o.address # "none" => o.there
     /\ o.address = "empty" => caller \in Balancers
     /\ o.end = "end" /\ ~o.reported => o.there
     /\ o.end = "end" /\ ~o.reported /\ caller \in Careful => o.address # "none"
     /\ o.end = "end" /\ caller \in AllOrNothing => ~o.reported
     /\ o.end = "fatal" => caller = "labels" /\ o.reported}
=============================================================================
