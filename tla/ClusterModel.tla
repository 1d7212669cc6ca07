---------------------------- MODULE ClusterModel ----------------------------
(***************************************************************************)
(* The pods that the suite knows: Model of pkg/matrix/model.go.            *)
(*                                                                         *)
(* A namespace has a list of pods.  AllPods copies the lists into a cache   *)
(* and returns the cache itself, so that a test that keeps the result and  *)
(* the model share an array: AddPod appends to the cache, in place when the *)
(* array has room and into a copy when it has none, and RemovePod shifts    *)
(* the cache in place, under the eyes of whoever holds a slice of it.       *)
(*                                                                         *)
(* Pods are told apart by their names.  At any time at most one test        *)
(* function holds a slice.                                                  *)
(***************************************************************************)
EXTENDS Integers, Sequences

VARIABLES
  namespace,  \* m.Namespaces: the pods of the suite's and of the iperf one
  array,      \* the array behind *m.pods, as far as it was ever written
  size,       \* len(*m.pods); Nil when m.pods is nil
  slice       \* what the test function holds: a slice of that array or not

model == <<namespace, array, size, slice>>

Nil == -1
Elements(list) == {list[i] : i \in DOMAIN list}
HasDuplicates(list) == \E i, j \in DOMAIN list : i # j /\ list[i] = list[j]

(* A slice of the array behind the cache, and one of another array, which   *)
(* nobody writes to any more.                                              *)
SliceOf(length) == [shared |-> TRUE, length |-> length, copy |-> <<>>]
Detached(list) == [shared |-> FALSE, length |-> 0, copy |-> list]

Pods == IF slice.shared THEN SubSeq(array, 1, slice.length) ELSE slice.copy

Listed == namespace.suite \o namespace.iperf
Cached == IF size = Nil THEN <<>> ELSE SubSeq(array, 1, size)

(* What AllPods returns, now.                                              *)
Modelled == Elements(IF size = Nil THEN Listed ELSE Cached)

ModelType(pods) ==
  /\ namespace \in [suite : Seq(pods), iperf : Seq(pods)]
  /\ array \in Seq(pods)
  /\ size \in 0 .. Len(array) \/ size = Nil
  /\ slice \in [shared : BOOLEAN, length : 0 .. Len(array), copy : Seq(pods)]

(* What Setup of TestMain leaves: it called AllPods.                       *)
NewModel(list) ==
  /\ namespace = [suite |-> list, iperf |-> <<>>]
  /\ array = list
  /\ size = Len(list)
  /\ slice = Detached(<<>>)

-----------------------------------------------------------------------------
(* The cache is filled when there is none.                                 *)
FillCache ==
  IF size = Nil
  THEN array' = Listed /\ size' = Len(Listed)
  ELSE UNCHANGED <<array, size>>

AllPods == FillCache /\ UNCHANGED <<namespace, slice>>

(* pods := model.AllPods()                                                 *)
TakeAllPods == FillCache /\ slice' = SliceOf(size') /\ UNCHANGED namespace

(* Mutant of AddIPerfNamespace: the cache is kept, as it is by             *)
(* AddNamespaceWithImageAndCommands (model.go:40).                         *)
AddNamespaceKeepCache(list) ==
  /\ namespace' = [namespace EXCEPT !.iperf = @ \o list]
  /\ UNCHANGED <<array, size, slice>>

AddIPerfNamespace(list) ==
  /\ namespace' = [namespace EXCEPT !.iperf = @ \o list]
  /\ array' = <<>>
  /\ size' = Nil
  /\ slice' = Detached(Pods)

(* append in place, over what RemovePod left behind, or to a new array.    *)
AddPod(pod) ==
  /\ size # Nil
  /\ namespace' = [namespace EXCEPT !.suite = Append(@, pod)]
  /\ size' = size + 1
  /\ IF size < Len(array)
     THEN array' = [array EXCEPT ![size + 1] = pod] /\ UNCHANGED slice
     ELSE array' = Append(array, pod) /\ slice' \in {slice, Detached(Pods)}

(* append(list[:i], list[i+1:]...): the array keeps its last element twice. *)
Shifted(list, i, length) ==
  [j \in DOMAIN list |-> IF i <= j /\ j < length THEN list[j + 1] ELSE list[j]]

Without(list, pod) ==
  IF pod \notin Elements(list) THEN list
  ELSE LET i == CHOOSE k \in DOMAIN list : list[k] = pod
       IN SubSeq(Shifted(list, i, Len(list)), 1, Len(list) - 1)

(* Mutant of RemovePod: the cache is left as it is.                        *)
RemoveFromNamespace(pod, name) ==
  /\ size # Nil
  /\ namespace' = [namespace EXCEPT ![name] = Without(@, pod)]
  /\ UNCHANGED <<array, size, slice>>

(* By name: from the list of the namespace, and from the cache the first    *)
(* pod of that name, whatever its namespace.                               *)
RemovePod(pod, name) ==
  /\ size # Nil
  /\ namespace' = [namespace EXCEPT ![name] = Without(@, pod)]
  /\ IF pod \notin Elements(Cached)
     THEN UNCHANGED <<array, size>>
     ELSE LET i == CHOOSE k \in 1 .. size :
                     array[k] = pod /\ \A j \in 1 .. k - 1 : array[j] # pod
          IN array' = Shifted(array, i, size) /\ size' = size - 1
  /\ UNCHANGED slice

-----------------------------------------------------------------------------
(* The cache, when there is one, lists the pods of the namespaces, each     *)
(* once.                                                                   *)
CacheAgrees ==
  /\ ~HasDuplicates(Listed)
  /\ size # Nil => /\ Elements(Cached) = Elements(Listed)
                   /\ ~HasDuplicates(Cached)
=============================================================================
