------------------------- MODULE ClusterModelProofs -------------------------
(***************************************************************************)
(* What the operations of ClusterModel do to its lists, for any number of   *)
(* pods: the lemmas that module TestBoardProofs rests on.                  *)
(***************************************************************************)
EXTENDS ClusterModel, TLAPS

-----------------------------------------------------------------------------
(***************************************************************************)
(* Lists.                                                                  *)
(***************************************************************************)
LEMMA AppendFacts ==
  ASSUME NEW S, NEW list \in Seq(S), NEW x \in S
  PROVE  /\ Append(list, x) \in Seq(S)
         /\ Elements(Append(list, x)) = Elements(list) \union {x}
         /\ ~HasDuplicates(list) /\ x \notin Elements(list)
              => ~HasDuplicates(Append(list, x))
<1> DEFINE longer == Append(list, x)
<1>1. /\ longer \in Seq(S) /\ DOMAIN list = 1 .. Len(list) /\ Len(list) \in Nat
      /\ DOMAIN longer = 1 .. Len(list) + 1
      /\ \A i \in 1 .. Len(list) : longer[i] = list[i]
      /\ longer[Len(list) + 1] = x
  OBVIOUS
<1>2. 1 .. Len(list) + 1 = (1 .. Len(list)) \union {Len(list) + 1}
  BY <1>1
<1> HIDE DEF longer
<1>3. Elements(longer) = Elements(list) \union {x}
  BY <1>1, <1>2 DEF Elements
<1>4. ~HasDuplicates(list) /\ x \notin Elements(list) => ~HasDuplicates(longer)
  BY <1>1, <1>2 DEF HasDuplicates, Elements
<1> QED
  BY <1>1, <1>3, <1>4 DEF longer

LEMMA ConcatFacts ==
  ASSUME NEW S, NEW a \in Seq(S), NEW b \in Seq(S)
  PROVE  /\ a \o b \in Seq(S)
         /\ Elements(a \o b) = Elements(a) \union Elements(b)
         /\ ~HasDuplicates(a \o b) <=>
              /\ ~HasDuplicates(a) /\ ~HasDuplicates(b)
              /\ Elements(a) \intersect Elements(b) = {}
<1> DEFINE c == a \o b
<1>1. /\ c \in Seq(S) /\ Len(a) \in Nat /\ Len(b) \in Nat
      /\ DOMAIN a = 1 .. Len(a) /\ DOMAIN b = 1 .. Len(b)
      /\ DOMAIN c = 1 .. Len(a) + Len(b)
      /\ \A i \in 1 .. Len(a) : c[i] = a[i]
      /\ \A i \in 1 .. Len(b) : c[Len(a) + i] = b[i]
  OBVIOUS
<1> HIDE DEF c
<1>2. ASSUME NEW i \in DOMAIN c
      PROVE  i \in DOMAIN a \/ (i - Len(a) \in DOMAIN b /\ i = Len(a) + (i - Len(a)))
  BY <1>1
<1>3. \A i \in DOMAIN a : i \in DOMAIN c
  BY <1>1
<1>4. \A i \in DOMAIN b : Len(a) + i \in DOMAIN c
  BY <1>1
<1>5. Elements(c) = Elements(a) \union Elements(b)
  <2>1. ASSUME NEW i \in DOMAIN c PROVE c[i] \in Elements(a) \union Elements(b)
    <3>1. CASE i \in DOMAIN a
      BY <1>1, <3>1 DEF Elements
    <3>2. CASE i - Len(a) \in DOMAIN b /\ i = Len(a) + (i - Len(a))
      <4>1. c[i] = b[i - Len(a)]
        BY <1>1, <3>2
      <4> QED
        BY <3>2, <4>1 DEF Elements
    <3> QED
      BY <1>2, <3>1, <3>2
  <2>2. \A i \in DOMAIN a : a[i] \in Elements(c)
    BY <1>1, <1>3 DEF Elements
  <2>3. ASSUME NEW i \in DOMAIN b PROVE b[i] \in Elements(c)
    <3>1. c[Len(a) + i] = b[i]
      BY <1>1
    <3> QED
      BY <1>4, <3>1 DEF Elements
  <2> QED
    BY <2>1, <2>2, <2>3 DEF Elements
<1>6. ~HasDuplicates(c) => /\ ~HasDuplicates(a) /\ ~HasDuplicates(b)
                           /\ Elements(a) \intersect Elements(b) = {}
  <2>1. ASSUME HasDuplicates(a) PROVE HasDuplicates(c)
    BY <1>1, <1>3, <2>1 DEF HasDuplicates
  <2>2. ASSUME HasDuplicates(b) PROVE HasDuplicates(c)
    <3>1. PICK i, j \in DOMAIN b : i # j /\ b[i] = b[j]
      BY <2>2 DEF HasDuplicates
    <3>2. Len(a) + i # Len(a) + j /\ c[Len(a) + i] = c[Len(a) + j]
      BY <1>1, <3>1
    <3> QED
      BY <1>4, <3>2 DEF HasDuplicates
  <2>3. ASSUME Elements(a) \intersect Elements(b) # {} PROVE HasDuplicates(c)
    <3>1. PICK i \in DOMAIN a, j \in DOMAIN b : a[i] = b[j]
      BY <2>3 DEF Elements
    <3>2. i # Len(a) + j /\ c[i] = c[Len(a) + j]
      BY <1>1, <3>1
    <3> QED
      BY <1>3, <1>4, <3>2 DEF HasDuplicates
  <2> QED
    BY <2>1, <2>2, <2>3
<1>7. ASSUME ~HasDuplicates(a), ~HasDuplicates(b), Elements(a) \intersect Elements(b) = {},
             NEW i \in DOMAIN c, NEW j \in DOMAIN c, i # j, c[i] = c[j]
      PROVE  FALSE
  <2>1. ASSUME NEW k \in DOMAIN a, NEW l \in DOMAIN b, a[k] = b[l] PROVE FALSE
    BY <1>7, <2>1 DEF Elements
  <2>2. CASE i \in DOMAIN a /\ j \in DOMAIN a
    BY <1>1, <1>7, <2>2 DEF HasDuplicates
  <2>3. CASE i \in DOMAIN a /\ j \notin DOMAIN a
    <3>1. c[j] = b[j - Len(a)] /\ j - Len(a) \in DOMAIN b
      BY <1>1, <1>2, <2>3
    <3> QED
      BY <1>1, <1>7, <2>1, <2>3, <3>1
  <2>4. CASE i \notin DOMAIN a /\ j \in DOMAIN a
    <3>1. c[i] = b[i - Len(a)] /\ i - Len(a) \in DOMAIN b
      BY <1>1, <1>2, <2>4
    <3> QED
      BY <1>1, <1>7, <2>1, <2>4, <3>1
  <2>5. CASE i \notin DOMAIN a /\ j \notin DOMAIN a
    <3>1. /\ c[i] = b[i - Len(a)] /\ i - Len(a) \in DOMAIN b
          /\ c[j] = b[j - Len(a)] /\ j - Len(a) \in DOMAIN b
      BY <1>1, <1>2, <2>5
    <3>2. i - Len(a) # j - Len(a)
      BY <1>1, <1>7
    <3> QED
      BY <1>7, <3>1, <3>2 DEF HasDuplicates
  <2> QED
    BY <2>2, <2>3, <2>4, <2>5
<1> QED
  BY <1>1, <1>5, <1>6, <1>7 DEF HasDuplicates, c

(* The first n elements of a list from which the i-th was cut out.          *)
LEMMA CutFacts ==
  ASSUME NEW S, NEW list \in Seq(S), NEW n \in 1 .. Len(list), NEW i \in 1 .. n,
         ~HasDuplicates(SubSeq(list, 1, n))
  PROVE  LET cut == Shifted(list, i, n)
         IN /\ cut \in Seq(S) /\ Len(cut) = Len(list)
            /\ SubSeq(cut, 1, n - 1) \in Seq(S)
            /\ Elements(SubSeq(cut, 1, n - 1)) = Elements(SubSeq(list, 1, n)) \ {list[i]}
            /\ ~HasDuplicates(SubSeq(cut, 1, n - 1))
<1> DEFINE cut == Shifted(list, i, n)
           long == SubSeq(list, 1, n)
           short == SubSeq(cut, 1, n - 1)
<1>1. /\ DOMAIN list = 1 .. Len(list) /\ Len(list) \in Nat /\ n \in Nat /\ i \in Nat
      /\ n <= Len(list) /\ i <= n /\ 1 <= i
  OBVIOUS
<1>2. cut \in Seq(S) /\ Len(cut) = Len(list) /\ DOMAIN cut = 1 .. Len(list)
  <2>1. \A j \in 1 .. Len(list) : (i <= j /\ j < n) => j + 1 \in 1 .. Len(list)
    BY <1>1
  <2>2. cut \in [1 .. Len(list) -> S]
    BY <1>1, <2>1 DEF Shifted
  <2> QED
    BY <1>1, <2>2
<1>3. /\ long \in Seq(S) /\ DOMAIN long = 1 .. n
      /\ \A j \in 1 .. n : long[j] = list[j]
  BY <1>1
<1>4. \A j \in 1 .. n - 1 : cut[j] = IF i <= j THEN list[j + 1] ELSE list[j]
  BY <1>1, <1>2 DEF Shifted
<1>5. /\ short \in Seq(S) /\ DOMAIN short = 1 .. n - 1
      /\ \A j \in 1 .. n - 1 : short[j] = cut[j]
  <2> HIDE DEF cut
  <2>1. n - 1 \in Nat /\ n - 1 <= Len(cut)
    BY <1>1, <1>2
  <2> QED
    BY <1>1, <1>2, <2>1
<1> HIDE DEF cut, long, short
<1>6. \A j \in 1 .. n - 1 : short[j] = IF i <= j THEN long[j + 1] ELSE long[j]
  BY <1>1, <1>3, <1>4, <1>5
<1>7. long[i] = list[i] /\ i \in 1 .. n
  BY <1>3
<1>8. \A k, l \in 1 .. n : k # l => long[k] # long[l]
  BY <1>3 DEF HasDuplicates, long
<1>9. ASSUME NEW j \in 1 .. n - 1
      PROVE  \E k \in 1 .. n : k # i /\ short[j] = long[k]
  <2>1. j \in 1 .. n /\ j + 1 \in 1 .. n /\ j \in Nat
    BY <1>1
  <2>2. CASE i <= j
    BY <1>1, <1>6, <2>1, <2>2
  <2>3. CASE ~(i <= j)
    BY <1>1, <1>6, <2>1, <2>3
  <2> QED
    BY <2>2, <2>3
<1>10. ASSUME NEW k \in 1 .. n, k # i
       PROVE  \E j \in 1 .. n - 1 : short[j] = long[k]
  <2>1. CASE k < i
    <3>1. k \in 1 .. n - 1 /\ ~(i <= k)
      BY <1>1, <2>1
    <3> QED
      BY <1>6, <3>1
  <2>2. CASE k > i
    <3>1. k - 1 \in 1 .. n - 1 /\ i <= k - 1 /\ (k - 1) + 1 = k
      BY <1>1, <2>2
    <3> QED
      BY <1>6, <3>1
  <2> QED
    BY <1>1, <1>10, <2>1, <2>2
<1>11. Elements(short) = Elements(long) \ {list[i]}
  <2>1. /\ Elements(short) = {short[j] : j \in 1 .. n - 1}
        /\ Elements(long) = {long[k] : k \in 1 .. n}
    BY <1>3, <1>5 DEF Elements
  <2>2. \A k \in 1 .. n : k # i <=> long[k] # list[i]
    BY <1>7, <1>8
  <2>3. Elements(short) \subseteq Elements(long) \ {list[i]}
    BY <2>1, <2>2, <1>9
  <2>4. Elements(long) \ {list[i]} \subseteq Elements(short)
    BY <2>1, <2>2, <1>10
  <2> QED
    BY <2>3, <2>4
<1>12. ~HasDuplicates(short)
  <2> SUFFICES ASSUME NEW j \in 1 .. n - 1, NEW k \in 1 .. n - 1, j # k PROVE short[j] # short[k]
    BY <1>5 DEF HasDuplicates
  <2> DEFINE At(l) == IF i <= l THEN l + 1 ELSE l
  <2>1. At(j) \in 1 .. n /\ At(k) \in 1 .. n /\ At(j) # At(k)
    BY <1>1
  <2>2. short[j] = long[At(j)] /\ short[k] = long[At(k)]
    BY <1>6
  <2> HIDE DEF At
  <2> QED
    BY <1>8, <2>1, <2>2
<1> QED
  BY <1>2, <1>5, <1>11, <1>12 DEF cut, long, short

LEMMA WithoutFacts ==
  ASSUME NEW S, NEW list \in Seq(S), NEW pod, ~HasDuplicates(list)
  PROVE  /\ Without(list, pod) \in Seq(S)
         /\ Elements(Without(list, pod)) = Elements(list) \ {pod}
         /\ ~HasDuplicates(Without(list, pod))
<1>1. CASE pod \notin Elements(list)
  BY <1>1 DEF Without
<1>2. CASE pod \in Elements(list)
  <2> DEFINE i == CHOOSE k \in DOMAIN list : list[k] = pod
  <2>1. i \in DOMAIN list /\ list[i] = pod
    BY <1>2 DEF Elements
  <2>2. Without(list, pod) = SubSeq(Shifted(list, i, Len(list)), 1, Len(list) - 1)
    BY <1>2 DEF Without
  <2> HIDE DEF i
  <2>3. Len(list) \in 1 .. Len(list) /\ i \in 1 .. Len(list)
    BY <2>1
  <2>4. SubSeq(list, 1, Len(list)) = list /\ ~HasDuplicates(SubSeq(list, 1, Len(list)))
    <3>1. SubSeq(list, 1, Len(list)) = list
      OBVIOUS
    <3> QED
      BY <3>1
  <2> DEFINE n == Len(list)
  <2>5. n \in 1 .. Len(list) /\ i \in 1 .. n /\ ~HasDuplicates(SubSeq(list, 1, n))
    BY <2>3, <2>4
  <2>6. /\ SubSeq(Shifted(list, i, n), 1, n - 1) \in Seq(S)
        /\ Elements(SubSeq(Shifted(list, i, n), 1, n - 1)) =
             Elements(SubSeq(list, 1, n)) \ {list[i]}
        /\ ~HasDuplicates(SubSeq(Shifted(list, i, n), 1, n - 1))
    <3> HIDE DEF n
    <3> QED
      BY <2>5, CutFacts
  <2> QED
    BY <2>1, <2>2, <2>4, <2>6
<1> QED
  BY <1>1, <1>2

-----------------------------------------------------------------------------
(***************************************************************************)
(* The invariant of the model, over a set of pods, and what each operation  *)
(* does under it.                                                          *)
(***************************************************************************)
ModelInv(S) ==
  /\ ModelType(S)
  /\ CacheAgrees
  /\ size = Nil => array = <<>>

(* What a test function holds is all of the cache, or a first part of it.   *)
HoldsAll == size # Nil /\ slice.shared /\ slice.length = size

HoldsPart ==
  /\ size # Nil
  /\ Len(Pods) <= size
  /\ \A i \in 1 .. Len(Pods) : Pods[i] = array[i]

LEMMA ModelFacts ==
  ASSUME NEW S, ModelInv(S)
  PROVE  /\ namespace.suite \in Seq(S) /\ namespace.iperf \in Seq(S)
         /\ namespace = [suite |-> namespace.suite, iperf |-> namespace.iperf]
         /\ Listed \in Seq(S)
         /\ Elements(Listed) = Elements(namespace.suite) \union Elements(namespace.iperf)
         /\ ~HasDuplicates(namespace.suite) /\ ~HasDuplicates(namespace.iperf)
         /\ Elements(namespace.suite) \intersect Elements(namespace.iperf) = {}
         /\ Modelled = Elements(Listed)
         /\ Pods \in Seq(S)
<1>1. /\ namespace.suite \in Seq(S) /\ namespace.iperf \in Seq(S)
      /\ namespace = [suite |-> namespace.suite, iperf |-> namespace.iperf]
  BY DEF ModelInv, ModelType
<1>2. ~HasDuplicates(namespace.suite \o namespace.iperf)
  BY DEF ModelInv, CacheAgrees, Listed
<1>3. /\ Listed \in Seq(S)
      /\ Elements(Listed) = Elements(namespace.suite) \union Elements(namespace.iperf)
      /\ ~HasDuplicates(namespace.suite) /\ ~HasDuplicates(namespace.iperf)
      /\ Elements(namespace.suite) \intersect Elements(namespace.iperf) = {}
  BY <1>1, <1>2, ConcatFacts DEF Listed
<1>4. Modelled = Elements(Listed)
  BY DEF Modelled, ModelInv, CacheAgrees
<1>5. Pods \in Seq(S)
  <2>1. CASE slice.shared
    <3>1. array \in Seq(S) /\ slice.length \in 0 .. Len(array)
      BY DEF ModelInv, ModelType
    <3>2. SubSeq(array, 1, slice.length) \in Seq(S)
      BY <3>1
    <3> QED
      BY <2>1, <3>2 DEF Pods
  <2>2. CASE ~slice.shared
    BY <2>2 DEF Pods, ModelInv, ModelType
  <2> QED
    BY <2>1, <2>2
<1> QED
  BY <1>1, <1>3, <1>4, <1>5

(* The first n elements of an array.                                       *)
LEMMA FirstElements ==
  ASSUME NEW S, NEW list \in Seq(S), NEW n \in 0 .. Len(list)
  PROVE  /\ SubSeq(list, 1, n) \in Seq(S)
         /\ Len(SubSeq(list, 1, n)) = n
         /\ DOMAIN SubSeq(list, 1, n) = 1 .. n
         /\ \A i \in 1 .. n : SubSeq(list, 1, n)[i] = list[i]
OBVIOUS

LEMMA HoldsAllShowsModel ==
  ASSUME NEW S, ModelInv(S), HoldsAll
  PROVE  /\ Elements(Pods) = Modelled /\ ~HasDuplicates(Pods)
         /\ HoldsPart
<1>1. Pods = Cached
  BY DEF HoldsAll, Pods, Cached
<1>2. array \in Seq(S) /\ size \in 0 .. Len(array)
  BY DEF HoldsAll, ModelInv, ModelType
<1>3. Len(Pods) = size /\ \A i \in 1 .. size : Pods[i] = array[i]
  BY <1>1, <1>2, FirstElements DEF HoldsAll, Cached
<1>4. HoldsPart
  BY <1>2, <1>3 DEF HoldsAll, HoldsPart
<1> QED
  BY <1>1, <1>4 DEF HoldsAll, Modelled, ModelInv, CacheAgrees

LEMMA HoldsPartIsCurrent ==
  ASSUME NEW S, ModelInv(S), HoldsPart
  PROVE  Elements(Pods) \subseteq Modelled /\ ~HasDuplicates(Pods)
<1>1. array \in Seq(S) /\ size \in 0 .. Len(array) /\ size # Nil
  BY DEF HoldsPart, ModelInv, ModelType
<1>2. /\ DOMAIN Cached = 1 .. size
      /\ \A i \in 1 .. size : Cached[i] = array[i]
  BY <1>1, FirstElements DEF Cached
<1>3. Pods \in Seq(S) /\ DOMAIN Pods = 1 .. Len(Pods) /\ Len(Pods) \in Nat
  BY ModelFacts
<1>4. \A i \in DOMAIN Pods : i \in DOMAIN Cached /\ Pods[i] = Cached[i]
  BY <1>1, <1>2, <1>3 DEF HoldsPart
<1>5. Modelled = Elements(Cached) /\ ~HasDuplicates(Cached)
  BY <1>1 DEF Modelled, ModelInv, CacheAgrees
<1> HIDE DEF Cached, Pods
<1> QED
  BY <1>4, <1>5 DEF Elements, HasDuplicates

(* FillCache makes the cache, if there is none, the list of all pods.       *)
LEMMA FillCacheFacts ==
  ASSUME NEW S, ModelInv(S), FillCache, UNCHANGED namespace
  PROVE  /\ array' \in Seq(S) /\ size' \in 0 .. Len(array')
         /\ size' # Nil /\ Len(array') >= Len(array)
         /\ CacheAgrees'
         /\ Listed' = Listed
<1>1. Listed' = Listed /\ Listed \in Seq(S) /\ ~HasDuplicates(Listed)
  BY ModelFacts DEF Listed, ModelInv, CacheAgrees
<1>2. CASE size = Nil
  <2>1. array' = Listed /\ size' = Len(Listed) /\ array = <<>>
    BY <1>2 DEF FillCache, ModelInv
  <2>2. Len(Listed) \in Nat /\ SubSeq(Listed, 1, Len(Listed)) = Listed
    BY <1>1
  <2>3. size' # Nil /\ size' \in 0 .. Len(array')
    BY <2>1, <2>2 DEF Nil
  <2>4. Cached' = Listed
    BY <2>1, <2>2, <2>3 DEF Cached
  <2>5. Len(array) = 0
    BY <2>1
  <2> QED
    BY <1>1, <2>1, <2>2, <2>3, <2>4, <2>5 DEF CacheAgrees
<1>3. CASE size # Nil
  BY <1>1, <1>3 DEF FillCache, ModelInv, ModelType, CacheAgrees, Cached
<1> QED
  BY <1>2, <1>3

LEMMA AllPodsFacts ==
  ASSUME NEW S, ModelInv(S), AllPods
  PROVE  /\ ModelInv(S)' /\ size' # Nil
         /\ UNCHANGED <<namespace, slice>> /\ Modelled' = Modelled
<1>1. FillCache /\ UNCHANGED <<namespace, slice>>
  BY DEF AllPods
<1>2. /\ array' \in Seq(S) /\ size' \in 0 .. Len(array')
      /\ size' # Nil /\ Len(array') >= Len(array)
      /\ CacheAgrees' /\ Listed' = Listed
  BY <1>1, FillCacheFacts
<1>3. slice' \in [shared : BOOLEAN, length : 0 .. Len(array'), copy : Seq(S)]
  <2>1. slice \in [shared : BOOLEAN, length : 0 .. Len(array), copy : Seq(S)]
        /\ array \in Seq(S)
    BY DEF ModelInv, ModelType
  <2>2. 0 .. Len(array) \subseteq 0 .. Len(array')
    BY <1>2, <2>1
  <2> QED
    BY <1>1, <2>1, <2>2
<1>4. ModelInv(S)'
  BY <1>1, <1>2, <1>3 DEF ModelInv, ModelType
<1>5. Modelled' = Elements(Listed)'
  BY <1>2 DEF Modelled, CacheAgrees
<1> QED
  BY <1>1, <1>2, <1>4, <1>5, ModelFacts

LEMMA TakeAllPodsFacts ==
  ASSUME NEW S, ModelInv(S), TakeAllPods
  PROVE  /\ ModelInv(S)' /\ HoldsAll'
         /\ UNCHANGED namespace /\ Modelled' = Modelled
<1>1. FillCache /\ UNCHANGED namespace /\ slice' = SliceOf(size')
  BY DEF TakeAllPods
<1>2. /\ array' \in Seq(S) /\ size' \in 0 .. Len(array')
      /\ size' # Nil /\ CacheAgrees' /\ Listed' = Listed
  BY <1>1, FillCacheFacts
<1>3. /\ slice' \in [shared : BOOLEAN, length : 0 .. Len(array'), copy : Seq(S)]
      /\ slice'.shared /\ slice'.length = size'
  <2>1. <<>> \in Seq(S)
    OBVIOUS
  <2> QED
    BY <1>1, <1>2, <2>1 DEF SliceOf
<1>4. ModelInv(S)'
  BY <1>1, <1>2, <1>3 DEF ModelInv, ModelType
<1>5. Modelled' = Elements(Listed)'
  BY <1>2 DEF Modelled, CacheAgrees
<1> QED
  BY <1>1, <1>2, <1>3, <1>4, <1>5, ModelFacts DEF HoldsAll

(* A namespace of new pods: the cache goes, what is held stays as it is.    *)
LEMMA AddIPerfNamespaceFacts ==
  ASSUME NEW S, ModelInv(S), NEW list \in Seq(S), AddIPerfNamespace(list),
         ~HasDuplicates(list), Elements(list) \intersect Elements(Listed) = {}
  PROVE  /\ ModelInv(S)' /\ size' = Nil /\ slice' = Detached(Pods)
         /\ namespace'.suite = namespace.suite
         /\ Elements(namespace'.iperf) = Elements(namespace.iperf) \union Elements(list)
         /\ namespace'.iperf \in Seq(S)
<1>1. /\ namespace' = [namespace EXCEPT !.iperf = @ \o list]
      /\ array' = <<>> /\ size' = Nil /\ slice' = Detached(Pods)
  BY DEF AddIPerfNamespace
<1>2. /\ namespace.suite \in Seq(S) /\ namespace.iperf \in Seq(S)
      /\ namespace = [suite |-> namespace.suite, iperf |-> namespace.iperf]
      /\ Elements(Listed) = Elements(namespace.suite) \union Elements(namespace.iperf)
      /\ ~HasDuplicates(namespace.suite) /\ ~HasDuplicates(namespace.iperf)
      /\ Elements(namespace.suite) \intersect Elements(namespace.iperf) = {}
      /\ Pods \in Seq(S)
  BY ModelFacts
<1>3. namespace' = [suite |-> namespace.suite, iperf |-> namespace.iperf \o list]
  BY <1>1, <1>2
<1>4. /\ namespace.iperf \o list \in Seq(S)
      /\ Elements(namespace.iperf \o list) = Elements(namespace.iperf) \union Elements(list)
      /\ ~HasDuplicates(namespace.iperf \o list)
  BY <1>2, ConcatFacts
<1>5. ~HasDuplicates(namespace.suite \o (namespace.iperf \o list))
  <2> DEFINE both == namespace.iperf \o list
  <2>1. Elements(namespace.suite) \intersect Elements(both) = {}
    BY <1>2, <1>4
  <2>2. both \in Seq(S) /\ ~HasDuplicates(both)
    BY <1>4
  <2> HIDE DEF both
  <2>3. ~HasDuplicates(namespace.suite \o both)
    BY <1>2, <2>1, <2>2, ConcatFacts
  <2> QED
    BY <2>3 DEF both
<1>6. CacheAgrees'
  BY <1>1, <1>3, <1>5 DEF CacheAgrees, Listed
<1>7. slice' \in [shared : BOOLEAN, length : 0 .. Len(array'), copy : Seq(S)]
  <2>1. Len(array') = 0 /\ 0 \in 0 .. 0
    BY <1>1
  <2> QED
    BY <1>1, <1>2, <2>1 DEF Detached
<1>8. ModelInv(S)'
  <2>1. namespace' \in [suite : Seq(S), iperf : Seq(S)]
    BY <1>2, <1>3, <1>4
  <2>2. array' \in Seq(S)
    BY <1>1
  <2> QED
    BY <1>1, <1>6, <1>7, <2>1, <2>2 DEF ModelInv, ModelType
<1> QED
  BY <1>1, <1>3, <1>4, <1>8

(* A pod that is in no list: what is held stays as it is, and is a first    *)
(* part of the cache if it was.                                            *)
LEMMA AddPodFacts ==
  ASSUME NEW S, ModelInv(S), NEW pod \in S, AddPod(pod), pod \notin Elements(Listed)
  PROVE  /\ ModelInv(S)' /\ size' # Nil
         /\ HoldsPart => HoldsPart' /\ Pods' = Pods
         /\ namespace'.iperf = namespace.iperf
         /\ Elements(namespace'.suite) = Elements(namespace.suite) \union {pod}
         /\ slice = Detached(<<>>) => slice' = Detached(<<>>)
<1>1. /\ size # Nil /\ size' = size + 1
      /\ namespace' = [namespace EXCEPT !.suite = Append(@, pod)]
  BY DEF AddPod
<1>2. /\ array \in Seq(S) /\ size \in 0 .. Len(array) /\ Len(array) \in Nat /\ size \in Nat
      /\ slice \in [shared : BOOLEAN, length : 0 .. Len(array), copy : Seq(S)]
  BY <1>1 DEF ModelInv, ModelType
<1>3. /\ namespace.suite \in Seq(S) /\ namespace.iperf \in Seq(S)
      /\ namespace = [suite |-> namespace.suite, iperf |-> namespace.iperf]
      /\ Elements(Listed) = Elements(namespace.suite) \union Elements(namespace.iperf)
      /\ ~HasDuplicates(namespace.suite) /\ ~HasDuplicates(namespace.iperf)
      /\ Elements(namespace.suite) \intersect Elements(namespace.iperf) = {}
      /\ Pods \in Seq(S)
  BY ModelFacts
<1>4. namespace' = [suite |-> Append(namespace.suite, pod), iperf |-> namespace.iperf]
  BY <1>1, <1>3
<1>5. /\ Append(namespace.suite, pod) \in Seq(S)
      /\ Elements(Append(namespace.suite, pod)) = Elements(namespace.suite) \union {pod}
      /\ ~HasDuplicates(Append(namespace.suite, pod))
  BY <1>3, AppendFacts
<1>6. /\ ~HasDuplicates(Listed') /\ Elements(Listed') = Elements(Listed) \union {pod}
  <2> DEFINE longer == Append(namespace.suite, pod)
  <2>1. longer \in Seq(S) /\ ~HasDuplicates(longer)
    BY <1>5
  <2>2. Elements(longer) \intersect Elements(namespace.iperf) = {}
    BY <1>3, <1>5
  <2>3. Listed' = longer \o namespace.iperf
    BY <1>4 DEF Listed
  <2>4. Elements(longer) = Elements(namespace.suite) \union {pod}
    BY <1>5
  <2> HIDE DEF longer
  <2>5. /\ ~HasDuplicates(longer \o namespace.iperf)
        /\ Elements(longer \o namespace.iperf) = Elements(longer) \union Elements(namespace.iperf)
    BY <1>3, <2>1, <2>2, ConcatFacts
  <2> QED
    BY <1>3, <2>3, <2>4, <2>5
<1>7. /\ array' \in Seq(S) /\ size' \in 0 .. Len(array') /\ Len(array') >= Len(array)
      /\ \A i \in 1 .. size : array'[i] = array[i]
      /\ array'[size + 1] = pod
  <2>1. CASE size < Len(array) /\ array' = [array EXCEPT ![size + 1] = pod]
    BY <1>1, <1>2, <2>1
  <2>2. CASE ~(size < Len(array)) /\ array' = Append(array, pod)
    BY <1>1, <1>2, <2>2
  <2> QED
    BY <2>1, <2>2 DEF AddPod
<1>8. /\ SubSeq(array, 1, size) \in Seq(S)
      /\ SubSeq(array', 1, size + 1) = Append(SubSeq(array, 1, size), pod)
  <2> DEFINE old == SubSeq(array, 1, size)
             new == SubSeq(array', 1, size + 1)
  <2>1. /\ old \in Seq(S) /\ Len(old) = size /\ DOMAIN old = 1 .. size
        /\ \A i \in 1 .. size : old[i] = array[i]
    BY <1>2, FirstElements
  <2>2. /\ new \in Seq(S) /\ Len(new) = size + 1 /\ DOMAIN new = 1 .. size + 1
        /\ \A i \in 1 .. size + 1 : new[i] = array'[i]
    BY <1>1, <1>7, FirstElements
  <2> HIDE DEF old, new
  <2>3. /\ Append(old, pod) \in Seq(S) /\ Len(Append(old, pod)) = size + 1
        /\ \A i \in 1 .. size : Append(old, pod)[i] = old[i]
        /\ Append(old, pod)[size + 1] = pod
    BY <2>1
  <2>4. \A i \in 1 .. size + 1 : i \in 1 .. size \/ i = size + 1
    BY <1>2
  <2>5. \A i \in 1 .. size + 1 : new[i] = Append(old, pod)[i]
    BY <1>7, <2>1, <2>2, <2>3, <2>4
  <2>6. new = Append(old, pod)
    BY <2>2, <2>3, <2>5
  <2> QED
    BY <2>1, <2>6 DEF old, new
<1>9. CacheAgrees'
  <2>1. size' # Nil
    BY <1>1, <1>2 DEF Nil
  <2>2. Cached = SubSeq(array, 1, size) /\ Cached' = SubSeq(array', 1, size + 1)
    BY <1>1, <2>1 DEF Cached
  <2>3. Elements(Cached) = Elements(Listed) /\ ~HasDuplicates(Cached)
    BY <1>1 DEF ModelInv, CacheAgrees
  <2>4. Elements(Cached') = Elements(Cached) \union {pod} /\ ~HasDuplicates(Cached')
    <3> DEFINE old == SubSeq(array, 1, size)
    <3>1. old \in Seq(S) /\ Cached = old /\ Cached' = Append(old, pod)
      BY <1>8, <2>2
    <3> HIDE DEF old
    <3> QED
      BY <2>3, <3>1, AppendFacts
  <2> QED
    BY <1>6, <2>3, <2>4 DEF CacheAgrees
<1>10. slice' = slice \/ (slice' = Detached(Pods) /\ size = Len(array))
  <2>1. CASE size < Len(array)
    BY <2>1 DEF AddPod
  <2>2. CASE ~(size < Len(array))
    BY <1>2, <2>2 DEF AddPod
  <2> QED
    BY <2>1, <2>2
<1>11. slice' \in [shared : BOOLEAN, length : 0 .. Len(array'), copy : Seq(S)]
  <2>1. 0 .. Len(array) \subseteq 0 .. Len(array') /\ 0 \in 0 .. Len(array')
    BY <1>2, <1>7
  <2>2. CASE slice' = slice
    BY <1>2, <2>1, <2>2
  <2>3. CASE slice' = Detached(Pods)
    BY <1>3, <2>1, <2>3 DEF Detached
  <2> QED
    BY <1>10, <2>2, <2>3
<1>12. ModelInv(S)'
  <2>1. namespace' \in [suite : Seq(S), iperf : Seq(S)]
    BY <1>3, <1>4, <1>5
  <2>2. size' # Nil
    BY <1>1, <1>2 DEF Nil
  <2> QED
    BY <1>7, <1>9, <1>11, <2>1, <2>2 DEF ModelInv, ModelType
<1>13. ASSUME HoldsPart PROVE HoldsPart' /\ Pods' = Pods
  <2>1. /\ Len(Pods) <= size /\ Len(Pods) \in Nat
        /\ \A i \in 1 .. Len(Pods) : Pods[i] = array[i]
    BY <1>3, <1>13 DEF HoldsPart
  <2>2. Pods' = Pods
    <3>1. CASE slice' = Detached(Pods)
      BY <3>1 DEF Detached, Pods
    <3>2. CASE slice' = slice /\ ~slice.shared
      BY <3>2 DEF Pods
    <3>3. CASE slice' = slice /\ slice.shared
      <4> DEFINE n == slice.length
                 old == SubSeq(array, 1, n)
                 new == SubSeq(array', 1, n)
      <4>1. n \in 0 .. Len(array) /\ n \in Nat
        BY <1>2
      <4>2. Pods = old /\ Pods' = new
        BY <3>3 DEF Pods
      <4> HIDE DEF n
      <4>3. n \in 0 .. Len(array')
        BY <1>2, <1>7, <4>1
      <4>4. /\ old \in Seq(S) /\ Len(old) = n /\ new \in Seq(S) /\ Len(new) = n
            /\ \A i \in 1 .. n : old[i] = array[i] /\ new[i] = array'[i]
        BY <1>2, <1>7, <4>1, <4>3, FirstElements
      <4> HIDE DEF old, new
      <4>5. \A i \in 1 .. n : new[i] = old[i]
        BY <1>2, <1>7, <2>1, <4>1, <4>2, <4>4
      <4>6. new = old
        BY <4>4, <4>5
      <4> QED
        BY <4>2, <4>6
    <3> QED
      BY <1>2, <1>10, <3>1, <3>2, <3>3
  <2>3. size' # Nil
    BY <1>1, <1>2 DEF Nil
  <2>4. \A i \in 1 .. Len(Pods) : array'[i] = array[i]
    BY <1>2, <1>7, <2>1
  <2>5. HoldsPart'
    BY <1>1, <1>2, <2>1, <2>2, <2>3, <2>4 DEF HoldsPart
  <2> QED
    BY <2>2, <2>5
<1>14. slice = Detached(<<>>) => slice' = Detached(<<>>)
  BY <1>10 DEF Detached, Pods
<1>15. size' # Nil
  BY <1>1, <1>2 DEF Nil
<1> QED
  BY <1>4, <1>5, <1>12, <1>13, <1>14, <1>15

(* What RemovePod does to the cache: the pod is in it once, or not at all.  *)
LEMMA RemoveFromCache ==
  ASSUME NEW S, ModelInv(S), NEW pod, NEW name, RemovePod(pod, name)
  PROVE  /\ array' \in Seq(S) /\ Len(array') = Len(array)
         /\ size' \in 0 .. Len(array') /\ size' # Nil
         /\ Elements(Cached') = Elements(Cached) \ {pod}
         /\ ~HasDuplicates(Cached')
<1>1. size # Nil
  BY DEF RemovePod
<1>2. /\ array \in Seq(S) /\ size \in 0 .. Len(array) /\ size \in Nat
      /\ Cached = SubSeq(array, 1, size) /\ ~HasDuplicates(Cached)
      /\ DOMAIN Cached = 1 .. size /\ \A k \in 1 .. size : Cached[k] = array[k]
  <2>1. array \in Seq(S) /\ size \in 0 .. Len(array)
    BY <1>1 DEF ModelInv, ModelType
  <2>2. Cached = SubSeq(array, 1, size) /\ ~HasDuplicates(Cached)
    BY <1>1 DEF Cached, ModelInv, CacheAgrees
  <2> QED
    BY <2>1, <2>2, FirstElements
<1>3. CASE pod \notin Elements(Cached)
  <2>1. array' = array /\ size' = size
    BY <1>3 DEF RemovePod
  <2>2. Cached' = Cached
    BY <2>1 DEF Cached
  <2> QED
    BY <1>1, <1>2, <1>3, <2>1, <2>2
<1>4. CASE pod \in Elements(Cached)
  <2> DEFINE First(k) == array[k] = pod /\ \A j \in 1 .. k - 1 : array[j] # pod
             i == CHOOSE k \in 1 .. size : First(k)
  <2>1. PICK k \in 1 .. size : array[k] = pod
    <3> HIDE DEF Cached
    <3> QED
      BY <1>2, <1>4 DEF Elements
  <2>2. First(k)
    <3>1. ASSUME NEW j \in 1 .. k - 1 PROVE array[j] # pod
      <4>1. j \in 1 .. size /\ j # k
        BY <1>2
      <4> QED
        BY <1>2, <2>1, <4>1 DEF HasDuplicates
    <3> QED
      BY <2>1, <3>1
  <2>3. i \in 1 .. size /\ array[i] = pod
    BY <2>2
  <2>4. array' = Shifted(array, i, size) /\ size' = size - 1
    BY <1>4 DEF RemovePod
  <2> HIDE DEF i
  <2>5. size \in 1 .. Len(array) /\ size - 1 \in Nat /\ size - 1 # Nil
    BY <1>2, <2>3 DEF Nil
  <2>6. LET cut == Shifted(array, i, size)
        IN /\ cut \in Seq(S) /\ Len(cut) = Len(array)
           /\ Elements(SubSeq(cut, 1, size - 1)) = Elements(SubSeq(array, 1, size)) \ {array[i]}
           /\ ~HasDuplicates(SubSeq(cut, 1, size - 1))
    BY <1>2, <2>3, <2>5, CutFacts
  <2>7. Cached' = SubSeq(array', 1, size - 1)
    BY <2>4, <2>5 DEF Cached
  <2> QED
    BY <1>2, <2>3, <2>4, <2>5, <2>6, <2>7
<1> QED
  BY <1>3, <1>4

(* The pod leaves the list of its namespace and the cache: that the cache   *)
(* is searched by name alone does no harm while no name is in two           *)
(* namespaces.                                                             *)
LEMMA RemovePodFacts ==
  ASSUME NEW S, ModelInv(S), NEW pod, NEW name \in {"suite", "iperf"}, RemovePod(pod, name),
         pod \in Elements(Listed) => pod \in Elements(namespace[name])
  PROVE  /\ ModelInv(S)' /\ size' # Nil /\ slice' = slice
         /\ Elements(namespace'.suite) =
              IF name = "suite" THEN Elements(namespace.suite) \ {pod} ELSE Elements(namespace.suite)
         /\ Elements(namespace'.iperf) =
              IF name = "iperf" THEN Elements(namespace.iperf) \ {pod} ELSE Elements(namespace.iperf)
<1>1. /\ size # Nil /\ slice' = slice
      /\ namespace' = [namespace EXCEPT ![name] = Without(@, pod)]
  BY DEF RemovePod
<1>2. /\ namespace.suite \in Seq(S) /\ namespace.iperf \in Seq(S)
      /\ namespace = [suite |-> namespace.suite, iperf |-> namespace.iperf]
      /\ Elements(Listed) = Elements(namespace.suite) \union Elements(namespace.iperf)
      /\ ~HasDuplicates(namespace.suite) /\ ~HasDuplicates(namespace.iperf)
      /\ Elements(namespace.suite) \intersect Elements(namespace.iperf) = {}
  BY ModelFacts
<1>3. PICK suite, iperf :
        /\ suite \in Seq(S) /\ iperf \in Seq(S)
        /\ namespace' = [suite |-> suite, iperf |-> iperf]
        /\ Elements(suite) = IF name = "suite" THEN Elements(namespace.suite) \ {pod}
                             ELSE Elements(namespace.suite)
        /\ Elements(iperf) = IF name = "iperf" THEN Elements(namespace.iperf) \ {pod}
                             ELSE Elements(namespace.iperf)
        /\ ~HasDuplicates(suite) /\ ~HasDuplicates(iperf)
  <2>1. CASE name = "suite"
    <3>1. namespace' = [suite |-> Without(namespace.suite, pod), iperf |-> namespace.iperf]
      BY <1>1, <1>2, <2>1
    <3> QED
      BY <1>2, <2>1, <3>1, WithoutFacts
  <2>2. CASE name = "iperf"
    <3>1. namespace' = [suite |-> namespace.suite, iperf |-> Without(namespace.iperf, pod)]
      BY <1>1, <1>2, <2>2
    <3> QED
      BY <1>2, <2>2, <3>1, WithoutFacts
  <2> QED
    BY <2>1, <2>2
<1>4. /\ Elements(suite) = Elements(namespace.suite) \ {pod}
      /\ Elements(iperf) = Elements(namespace.iperf) \ {pod}
  <2>1. CASE name = "suite"
    BY <1>2, <1>3, <2>1
  <2>2. CASE name = "iperf"
    BY <1>2, <1>3, <2>2
  <2> QED
    BY <2>1, <2>2
<1>5. /\ ~HasDuplicates(Listed')
      /\ Elements(Listed') = Elements(Listed) \ {pod}
  <2>1. Elements(suite) \intersect Elements(iperf) = {}
    BY <1>2, <1>4
  <2>2. Listed' = suite \o iperf
    BY <1>3 DEF Listed
  <2>3. /\ ~HasDuplicates(suite \o iperf)
        /\ Elements(suite \o iperf) = Elements(suite) \union Elements(iperf)
    BY <1>3, <2>1, ConcatFacts
  <2> QED
    BY <1>2, <1>4, <2>2, <2>3
<1>6. /\ array' \in Seq(S) /\ Len(array') = Len(array)
      /\ size' \in 0 .. Len(array') /\ size' # Nil
      /\ Elements(Cached') = Elements(Cached) \ {pod} /\ ~HasDuplicates(Cached')
  BY RemoveFromCache
<1>7. Elements(Cached) = Elements(Listed)
  BY <1>1 DEF ModelInv, CacheAgrees
<1>8. ModelInv(S)'
  <2>1. CacheAgrees'
    BY <1>5, <1>6, <1>7 DEF CacheAgrees
  <2>2. namespace' \in [suite : Seq(S), iperf : Seq(S)]
    BY <1>3
  <2>3. slice' \in [shared : BOOLEAN, length : 0 .. Len(array'), copy : Seq(S)]
    BY <1>1, <1>6 DEF ModelInv, ModelType
  <2> QED
    BY <1>6, <2>1, <2>2, <2>3 DEF ModelInv, ModelType
<1>9. namespace'.suite = suite /\ namespace'.iperf = iperf
  BY <1>3
<1>10. Elements(namespace'.suite) =
         IF name = "suite" THEN Elements(namespace.suite) \ {pod} ELSE Elements(namespace.suite)
  BY <1>3, <1>9
<1>11. Elements(namespace'.iperf) =
         IF name = "iperf" THEN Elements(namespace.iperf) \ {pod} ELSE Elements(namespace.iperf)
  BY <1>3, <1>9
<1> QED
  BY <1>1, <1>6, <1>8, <1>10, <1>11
=============================================================================
