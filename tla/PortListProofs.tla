---------------------------- MODULE PortListProofs ----------------------------
(***************************************************************************)
(* The list of ports.  What PortWatcher keeps for any set of ports:        *)
(* refresh() excludes itself, and a list that was published too late is    *)
(* not followed by another one.  And what the scanners keep that refresh() *)
(* calls, for any set of devices.                                          *)
(***************************************************************************)
EXTENDS PortWatcher, PlatformSerialPortScanner, FiniteSetTheorems, FunctionTheorems,
        SequenceTheorems, TLAPS

Busy == {"scan", "publish"}   \* in refresh(), with a list of its own

PcInv ==
    /\ pc \in [Threads -> {"stopped", "idle", "join", "off", "loop", "pause",
                           "refresh", "scan", "publish"}]
    /\ old \in [Lists -> BOOLEAN]

\* m_scannerMutex is held by the thread that enumerates, and by no other.
LockInv ==
    /\ lock \in Threads \cup {Nobody}
    /\ \A t \in Threads : lock = t <=> pc[t] = "scan"

\* While the session is stopped the watcher does not run.
StoppedInv == pc["gui"] = "stopped" => pc["watcher"] = "off"

\* Of the lists that both threads have found, only one can have been replaced by a
\* newer one.
PairInv ==
    (\A t \in Threads : pc[t] \in Busy) => \E t \in Threads : ~old[t]

RefreshInv == PcInv /\ LockInv /\ StoppedInv /\ PairInv /\ OldListIsNext

-----------------------------------------------------------------------------
\* A step that only moves one thread, outside of refresh() and not into it.
Outside ==
    /\ \/ WatcherLoop \/ Pause \/ Start \/ RefreshButton \/ StopWatcher \/ JoinWatcher
       \/ DeviceChanges \/ SystemChanges \/ UNCHANGED vars

\* Such a step leaves the lock alone, and no thread enters or leaves the locked part.
LEMMA OutsideStep ==
    ASSUME RefreshInv, Outside
    PROVE  /\ PcInv' /\ lock' = lock /\ old' = old
           /\ \A t \in Threads : pc'[t] = pc[t] \/ (pc[t] \notin Busy /\ pc'[t] \notin Busy)
           /\ StoppedInv'
<1> USE DEF RefreshInv, PcInv, StoppedInv, Threads, Busy, Move, stopRequested
<1>1. CASE WatcherLoop
  BY <1>1 DEF WatcherLoop
<1>2. CASE Pause
  BY <1>2 DEF Pause
<1>3. CASE Start
  BY <1>3 DEF Start, LockInv
<1>4. CASE RefreshButton
  BY <1>4 DEF RefreshButton
<1>5. CASE StopWatcher
  BY <1>5 DEF StopWatcher
<1>6. CASE JoinWatcher
  BY <1>6 DEF JoinWatcher
<1>7. CASE DeviceChanges
  BY <1>7 DEF DeviceChanges
<1>8. CASE SystemChanges
  BY <1>8 DEF SystemChanges
<1>9. CASE UNCHANGED vars
  BY <1>9 DEF vars
<1> QED
  BY <1>1, <1>2, <1>3, <1>4, <1>5, <1>6, <1>7, <1>8, <1>9 DEF Outside

\* So it keeps the invariant.
LEMMA OutsideKeeps == ASSUME RefreshInv, Outside PROVE RefreshInv'
<1>1. /\ PcInv' /\ lock' = lock /\ old' = old /\ StoppedInv'
      /\ \A t \in Threads : pc'[t] = pc[t] \/ (pc[t] \notin Busy /\ pc'[t] \notin Busy)
  BY OutsideStep
<1>2. LockInv'
  BY <1>1 DEF RefreshInv, LockInv, Busy
<1>3. PairInv' /\ OldListIsNext'
  BY <1>1 DEF RefreshInv, PairInv, OldListIsNext, Busy
<1> QED
  BY <1>1, <1>2, <1>3 DEF RefreshInv

\* A scan begins by taking the lock, and its list is not old.
LEMMA BeginScanKeeps ==
    ASSUME RefreshInv, NEW t \in Threads, BeginScan(t) PROVE RefreshInv'
<1> USE DEF RefreshInv, Threads, Lists, Busy, Nobody
<1>1. /\ pc[t] = "refresh" /\ pc' = [pc EXCEPT ![t] = "scan"]
      /\ lock = Nobody /\ lock' = t /\ old' = [old EXCEPT ![t] = FALSE]
  BY DEF BeginScan, Move
<1>2. PcInv' /\ StoppedInv'
  BY <1>1 DEF PcInv, StoppedInv
<1>3. LockInv'
  BY <1>1 DEF PcInv, LockInv
<1>4. PairInv' /\ OldListIsNext'
  BY <1>1 DEF PcInv, PairInv, OldListIsNext
<1> QED
  BY <1>2, <1>3, <1>4

\* A scan ends by giving back the lock; its list is still to be published.
LEMMA EndScanKeeps ==
    ASSUME RefreshInv, NEW t \in Threads, EndScan(t) PROVE RefreshInv'
<1> USE DEF RefreshInv, Threads, Busy, Nobody
<1>1. /\ pc[t] = "scan" /\ pc' = [pc EXCEPT ![t] = "publish"]
      /\ lock' = Nobody /\ old' = old
  BY DEF EndScan, Move
<1>2. PcInv' /\ StoppedInv'
  BY <1>1 DEF PcInv, StoppedInv
<1>3. LockInv'
  BY <1>1 DEF PcInv, LockInv
<1>4. PairInv' /\ OldListIsNext'
  BY <1>1 DEF PcInv, PairInv, OldListIsNext
<1> QED
  BY <1>2, <1>3, <1>4

\* The thread that publishes leaves refresh(): if its list is old, that of the other
\* is not; and if it is not, the list that becomes old is not the one published.
LEMMA PublishKeeps ==
    ASSUME RefreshInv, NEW t \in Threads, Publish(t) PROVE RefreshInv'
<1> USE DEF RefreshInv, Threads, Lists, Busy
<1>1. /\ pc[t] = "publish" /\ pc' = [pc EXCEPT ![t] = AfterRefresh(t)]
      /\ AfterRefresh(t) \in {"idle", "pause"} /\ lock' = lock
  BY DEF Publish, Move, AfterRefresh
<1>2. /\ old' \in [Lists -> BOOLEAN] /\ old'["listed"] = old[t]
      /\ old[t] => \A u \in Threads : old'[u] = old[u]
  BY DEF Publish, PcInv
<1>3. PcInv' /\ StoppedInv'
  BY <1>1, <1>2 DEF PcInv, StoppedInv, Publish, AfterRefresh
<1>4. LockInv'
  BY <1>1 DEF PcInv, LockInv
<1>5. PairInv'
  BY <1>1 DEF PcInv, PairInv
<1>6. OldListIsNext'
  BY <1>1, <1>2 DEF PcInv, PairInv, OldListIsNext
<1> QED
  BY <1>3, <1>4, <1>5, <1>6

\* For any set of ports, RefreshInv is inductive.
THEOREM Refresh == Spec => []RefreshInv
<1>1. Init => RefreshInv
  BY DEF Init, RefreshInv, PcInv, LockInv, StoppedInv, PairInv, OldListIsNext, Threads,
         Lists, Busy, Nobody
<1>2. RefreshInv /\ [Next]_vars => RefreshInv'
  BY OutsideKeeps, BeginScanKeeps, EndScanKeeps, PublishKeeps
     DEF Next, Watcher, refresh, Outside, Threads
<1> QED
  BY <1>1, <1>2, PTL DEF Spec

\* For any set of ports, the scanner never runs in both threads at once, and not at
\* all when the session is stopped.
THEOREM ScansExclude == Spec => []ScannerExclusive
<1>1. RefreshInv => ScannerExclusive
  BY DEF RefreshInv, PcInv, LockInv, StoppedInv, ScannerExclusive, Threads, Nobody
<1> QED
  BY <1>1, Refresh, PTL

\* For any set of ports, a list published over a newer one lasts until the next
\* publication.
THEOREM NextListIsNew == Spec => []OldListIsNext
<1>1. RefreshInv => OldListIsNext
  BY DEF RefreshInv
<1> QED
  BY <1>1, Refresh, PTL

-----------------------------------------------------------------------------
(* The order of the nodes, which is that of std::string.                    *)

\* A set of numbers that is not empty has a least one.
LEMMA LeastNumber ==
    ASSUME NEW N \in SUBSET Nat, N # {}
    PROVE  \E m \in N : \A k \in N : m <= k
<1> DEFINE R == {ss \in Nat \X Nat : ss[1] < ss[2]}
<1>1. IsWellFoundedOn(R, Nat)
  BY NatLessThanWellFounded DEF OpToRel
<1> HIDE DEF R
<1>2. PICK m \in N : \A k \in N : <<k, m>> \notin R
  BY <1>1, WFMin
<1>3. \A k \in N : ~(k < m)
  BY <1>2 DEF R
<1> QED BY <1>3

\* No node comes before itself, ...
LEMMA BeforeIrreflexive == ASSUME NEW a \in Seq(Nat) PROVE ~Linux!Before(a, a)
<1>1. Len(a) \in Nat /\ \A i \in 1..Len(a) : a[i] \in Nat
  BY LenProperties, ElementOfSeq
<1> QED BY <1>1 DEF Linux!Before

\* ... the order is transitive, ...
LEMMA BeforeTransitive ==
    ASSUME NEW a \in Seq(Nat), NEW b \in Seq(Nat), NEW c \in Seq(Nat),
           Linux!Before(a, b), Linux!Before(b, c)
    PROVE  Linux!Before(a, c)
<1>1. /\ Len(a) \in Nat /\ \A i \in 1..Len(a) : a[i] \in Nat
      /\ Len(b) \in Nat /\ \A i \in 1..Len(b) : b[i] \in Nat
      /\ Len(c) \in Nat /\ \A i \in 1..Len(c) : c[i] \in Nat
  BY LenProperties, ElementOfSeq
<1>2. PICK m \in 0..Len(a) :
         /\ m <= Len(b) /\ \A i \in 1..m : a[i] = b[i]
         /\ IF m = Len(a) THEN m < Len(b) ELSE m < Len(b) /\ a[m + 1] < b[m + 1]
  BY DEF Linux!Before
<1>3. PICK n \in 0..Len(b) :
         /\ n <= Len(c) /\ \A i \in 1..n : b[i] = c[i]
         /\ IF n = Len(b) THEN n < Len(c) ELSE n < Len(c) /\ b[n + 1] < c[n + 1]
  BY DEF Linux!Before
<1>4. CASE m < n
  <2>1. m \in 0..Len(a) /\ m <= Len(c) /\ m < Len(c) /\ \A i \in 1..m : a[i] = c[i]
    BY <1>1, <1>2, <1>3, <1>4
  <2>2. m # Len(a) => a[m + 1] < c[m + 1]
    <3>1. m + 1 \in 1..n
      BY <1>1, <1>2, <1>3, <1>4
    <3> QED BY <1>2, <1>3, <3>1
  <2> QED BY <2>1, <2>2 DEF Linux!Before
<1>5. CASE n <= m
  <2>1. /\ n \in 0..Len(a) /\ n < Len(c) /\ \A i \in 1..n : a[i] = c[i]
        /\ n < Len(b)
    <3>1. n \in Nat /\ m \in Nat /\ n <= m /\ m <= Len(a) /\ m <= Len(b) /\ n <= Len(c)
      BY <1>1, <1>2, <1>3, <1>5
    <3>2. n < Len(b)
      BY <1>1, <1>2, <1>3, <1>5, <3>1
    <3>3. n < Len(c)
      BY <1>1, <1>3, <3>1, <3>2
    <3>4. \A i \in 1..n : i \in 1..m
      BY <3>1
    <3>5. \A i \in 1..n : a[i] = c[i]
      BY <1>2, <1>3, <3>4
    <3> QED BY <1>1, <3>1, <3>2, <3>3, <3>5
  <2>2. n # Len(a) => a[n + 1] < c[n + 1]
    <3>1. CASE n < m
      <4>1. n + 1 \in 1..m
        BY <1>1, <1>2, <3>1
      <4> QED BY <1>2, <1>3, <2>1, <4>1
    <3>2. CASE n = m
      <4>1. n # Len(a) => n + 1 \in 1..Len(a) /\ n + 1 \in 1..Len(b) /\ n + 1 \in 1..Len(c)
        BY <1>1, <2>1
      <4>2. n # Len(a) => a[n + 1] < b[n + 1]
        BY <1>2, <3>2
      <4>3. b[n + 1] < c[n + 1]
        BY <1>3, <2>1
      <4>4. n # Len(a) => a[n + 1] \in Nat /\ b[n + 1] \in Nat /\ c[n + 1] \in Nat
        BY <1>1, <4>1
      <4> QED BY <4>2, <4>3, <4>4
    <3> QED BY <1>1, <1>2, <1>5, <3>1, <3>2
  <2>3. IF n = Len(a) THEN n < Len(c) ELSE n < Len(c) /\ a[n + 1] < c[n + 1]
    BY <2>1, <2>2
  <2>4. n <= Len(c)
    BY <1>1, <2>1
  <2> QED BY <2>1, <2>3, <2>4 DEF Linux!Before
<1> QED BY <1>1, <1>2, <1>3, <1>4, <1>5

\* ... and of two nodes one comes before the other.
LEMMA BeforeTotal ==
    ASSUME NEW a \in Seq(Nat), NEW b \in Seq(Nat), a # b
    PROVE  Linux!Before(a, b) \/ Linux!Before(b, a)
<1>1. /\ Len(a) \in Nat /\ \A i \in 1..Len(a) : a[i] \in Nat
      /\ Len(b) \in Nat /\ \A i \in 1..Len(b) : b[i] \in Nat
  BY LenProperties, ElementOfSeq
<1> DEFINE differ == {n \in Nat : n >= Len(a) \/ n >= Len(b) \/ a[n + 1] # b[n + 1]}
<1>2. PICK n \in differ : \A k \in differ : n <= k
  <2>1. Len(a) \in differ
    BY <1>1
  <2> HIDE DEF differ
  <2>2. differ \in SUBSET Nat
    BY DEF differ
  <2> QED BY <2>1, <2>2, LeastNumber
<1>3. n \in 0..Len(a) /\ n <= Len(b)
  <2>1. Len(a) \in differ /\ Len(b) \in differ
    BY <1>1
  <2> QED BY <1>1, <1>2, <2>1
<1>4. \A i \in 1..n : a[i] = b[i]
  <2> TAKE i \in 1..n
  <2>1. i - 1 \in Nat /\ i - 1 \notin differ
    <3>1. n \in Nat
      BY <1>2
    <3>2. i - 1 \in Nat /\ ~(n <= i - 1)
      BY <3>1
    <3> HIDE DEF differ
    <3> QED BY <1>2, <3>2
  <2>2. i - 1 + 1 = i
    OBVIOUS
  <2> QED BY <1>1, <2>1, <2>2
<1>5. ~(n = Len(a) /\ n = Len(b))
  BY <1>1, <1>4, SeqEqual
<1>6. CASE n = Len(a)
  <2>1. n < Len(b)
    BY <1>1, <1>3, <1>5, <1>6
  <2> QED BY <1>3, <1>4, <1>6, <2>1 DEF Linux!Before
<1>7. CASE n = Len(b)
  <2>1. n < Len(a) /\ n <= Len(a) /\ n \in 0..Len(b)
    BY <1>1, <1>3, <1>5, <1>7
  <2>2. \A i \in 1..n : b[i] = a[i]
    BY <1>4
  <2> QED BY <1>7, <2>1, <2>2 DEF Linux!Before
<1>8. CASE n < Len(a) /\ n < Len(b)
  <2>1. a[n + 1] # b[n + 1] /\ n + 1 \in 1..Len(a) /\ n + 1 \in 1..Len(b)
    BY <1>1, <1>2, <1>8
  <2>2. a[n + 1] < b[n + 1] \/ b[n + 1] < a[n + 1]
    BY <1>1, <2>1
  <2> QED BY <1>1, <1>3, <1>4, <1>8, <2>2 DEF Linux!Before
<1> QED BY <1>1, <1>3, <1>6, <1>7, <1>8

\* The place of each element of K in the order R: one more than the number of elements
\* before it.
Place(K, R) == [x \in K |-> Cardinality({y \in K : <<y, x>> \in R}) + 1]

StrictOrder(K, R) ==
    /\ \A x \in K : <<x, x>> \notin R
    /\ \A x, y, z \in K : <<x, y>> \in R /\ <<y, z>> \in R => <<x, z>> \in R
    /\ \A x, y \in K : x = y \/ <<x, y>> \in R \/ <<y, x>> \in R

\* In a finite set with a strict total order, no two elements have one place, and none
\* of the places 1, 2, ... is left out.
LEMMA PlacesInOrder ==
    ASSUME NEW K, IsFiniteSet(K), NEW R, StrictOrder(K, R)
    PROVE  /\ Cardinality(K) \in Nat
           /\ Place(K, R) \in Bijection(K, 1..Cardinality(K))
           /\ \A x, y \in K : <<x, y>> \in R => Place(K, R)[x] < Place(K, R)[y]
<1> DEFINE n == Cardinality(K)
           prior(x) == {y \in K : <<y, x>> \in R}
           place == Place(K, R)
<1>1. n \in Nat
  BY FS_CardinalityType
<1>2. \A x \in K : IsFiniteSet(prior(x)) /\ Cardinality(prior(x)) \in Nat
                   /\ Cardinality(prior(x)) + 1 \in 1..n
  <2> TAKE x \in K
  <2>1. prior(x) \in SUBSET (K \ {x})
    BY DEF StrictOrder
  <2>2. IsFiniteSet(K \ {x}) /\ Cardinality(K \ {x}) = n - 1
    BY FS_RemoveElement
  <2> HIDE DEF prior, n
  <2>3. IsFiniteSet(prior(x)) /\ Cardinality(prior(x)) <= n - 1
    BY <2>1, <2>2, FS_Subset
  <2>4. Cardinality(prior(x)) \in Nat
    BY <2>3, FS_CardinalityType
  <2> QED BY <1>1, <2>3, <2>4
<1>3. \A x, y \in K : <<x, y>> \in R => Cardinality(prior(x)) < Cardinality(prior(y))
  <2> SUFFICES ASSUME NEW x \in K, NEW y \in K, <<x, y>> \in R
               PROVE  Cardinality(prior(x)) < Cardinality(prior(y))
    OBVIOUS
  <2>1. prior(x) \in SUBSET prior(y)
    BY DEF StrictOrder
  <2>2. x \in prior(y) /\ x \notin prior(x)
    BY DEF StrictOrder
  <2> HIDE DEF prior
  <2>3. /\ Cardinality(prior(x)) <= Cardinality(prior(y))
        /\ Cardinality(prior(y)) = Cardinality(prior(x)) => prior(y) = prior(x)
    BY <1>2, <2>1, FS_Subset
  <2> QED BY <1>2, <2>2, <2>3
<1>4. place \in [K -> 1..n] /\ \A x \in K : place[x] = Cardinality(prior(x)) + 1
  BY <1>2 DEF Place
<1> HIDE DEF place, prior
<1>5. \A x, y \in K : <<x, y>> \in R => place[x] < place[y]
  BY <1>2, <1>3, <1>4
<1>6. \A x, y \in K : place[x] = place[y] => x = y
  <2> SUFFICES ASSUME NEW x \in K, NEW y \in K, place[x] = place[y], x # y PROVE FALSE
    OBVIOUS
  <2>1. <<x, y>> \in R \/ <<y, x>> \in R
    BY DEF StrictOrder
  <2>2. place[x] \in Int /\ place[y] \in Int
    BY <1>1, <1>4
  <2> QED BY <1>5, <2>1, <2>2
<1>7. place \in Injection(K, 1..n)
  BY <1>4, <1>6, Fun_IsInj
<1>8. place \in Surjection(K, 1..n)
  <2>1. IsFiniteSet(1..n) /\ Cardinality(1..n) = n
    BY <1>1, FS_Interval
  <2> HIDE DEF n
  <2>2. Cardinality(K) = Cardinality(1..n)
    BY <2>1 DEF n
  <2> QED BY <1>7, <2>1, <2>2, FS_Injection
<1> QED BY <1>1, <1>5, <1>7, <1>8 DEF Bijection, place, n

\* So the elements can be listed in the order.
LEMMA ListInOrder ==
    ASSUME NEW K, IsFiniteSet(K), NEW R, StrictOrder(K, R)
    PROVE  \E p \in Bijection(1..Cardinality(K), K) :
              /\ \A i \in 1..Cardinality(K) : Place(K, R)[p[i]] = i
              /\ \A i, j \in 1..Cardinality(K) : i < j => <<p[i], p[j]>> \in R
<1> DEFINE n == Cardinality(K)
           place == Place(K, R)
           p == [i \in 1..n |-> CHOOSE x \in K : place[x] = i]
<1>1. /\ n \in Nat /\ place \in Bijection(K, 1..n)
      /\ \A x, y \in K : <<x, y>> \in R => place[x] < place[y]
  BY PlacesInOrder
<1> HIDE DEF place, n
<1>2. /\ place \in [K -> 1..n] /\ \A x, y \in K : place[x] = place[y] => x = y
      /\ \A i \in 1..n : \E x \in K : place[x] = i
  BY <1>1 DEF Bijection, Injection, Surjection, IsInjective
<1>3. p \in [1..n -> K] /\ \A i \in 1..n : p[i] \in K /\ place[p[i]] = i
  BY <1>2
<1> HIDE DEF p
<1>4. p \in Bijection(1..n, K)
  <2>1. \A i, j \in 1..n : p[i] = p[j] => i = j
    BY <1>3
  <2>2. \A x \in K : place[x] \in 1..n /\ p[place[x]] = x
    BY <1>2, <1>3
  <2> QED BY <1>3, <2>1, <2>2 DEF Bijection, Injection, Surjection, IsInjective
<1>5. \A i, j \in 1..n : i < j => <<p[i], p[j]>> \in R
  <2> SUFFICES ASSUME NEW i \in 1..n, NEW j \in 1..n, i < j PROVE <<p[i], p[j]>> \in R
    OBVIOUS
  <2>1. p[i] \in K /\ p[j] \in K /\ place[p[i]] = i /\ place[p[j]] = j /\ i \in Int /\ j \in Int
    BY <1>1, <1>3
  <2>2. p[i] # p[j] /\ <<p[j], p[i]>> \notin R
    BY <1>1, <2>1
  <2> QED BY <2>1, <2>2 DEF StrictOrder
<1> QED BY <1>3, <1>4, <1>5 DEF place, n

\* std::sort: a list of nodes with the same elements, none of them before an earlier one.
LEMMA SortProperties ==
    ASSUME NEW T \in SUBSET Seq(Nat), NEW list \in Seq(T)
    PROVE  /\ Linux!Sort(list) \in Seq(T) /\ Len(Linux!Sort(list)) = Len(list)
           /\ Range(Linux!Sort(list)) = Range(list)
           /\ \A i, j \in 1..Len(list) :
                 i < j => ~Linux!Before(Linux!Sort(list)[j], Linux!Sort(list)[i])
<1> DEFINE n == Len(list)
           K == 1..n
           R == {r \in K \X K : \/ Linux!Before(list[r[1]], list[r[2]])
                                \/ (list[r[1]] = list[r[2]] /\ r[1] < r[2])}
<1>1. /\ n \in Nat /\ DOMAIN list = K
      /\ \A i \in K : list[i] \in T /\ list[i] \in Seq(Nat)
  BY LenProperties, ElementOfSeq
<1> HIDE DEF n
<1>0. \A x, y \in K : <<x, y>> \in R <=> \/ Linux!Before(list[x], list[y])
                                         \/ (list[x] = list[y] /\ x < y)
  OBVIOUS
<1> HIDE DEF R
<1>2. StrictOrder(K, R)
  <2>2. \A x \in K : <<x, x>> \notin R
    BY <1>1, <1>0, BeforeIrreflexive
  <2>3. ASSUME NEW x \in K, NEW y \in K, NEW z \in K, <<x, y>> \in R, <<y, z>> \in R
        PROVE  <<x, z>> \in R
    <3>1. x \in Nat /\ y \in Nat /\ z \in Nat
      BY <1>1
    <3>2. Linux!Before(list[x], list[y]) \/ (list[x] = list[y] /\ x < y)
      BY <1>0, <2>3
    <3>3. Linux!Before(list[y], list[z]) \/ (list[y] = list[z] /\ y < z)
      BY <1>0, <2>3
    <3>4. CASE Linux!Before(list[x], list[y]) /\ Linux!Before(list[y], list[z])
      <4>1. Linux!Before(list[x], list[z])
        BY <1>1, <3>4, BeforeTransitive
      <4> QED BY <1>0, <4>1
    <3>5. CASE list[x] = list[y] /\ x < y /\ list[y] = list[z] /\ y < z
      <4>1. x < z
        BY <3>1, <3>5
      <4> QED BY <1>0, <3>5, <4>1
    <3> HIDE DEF K
    <3> QED BY <1>0, <3>2, <3>3, <3>4, <3>5
  <2>4. ASSUME NEW x \in K, NEW y \in K, x # y
        PROVE  <<x, y>> \in R \/ <<y, x>> \in R
    <3>1. x < y \/ y < x
      BY <1>1, <2>4
    <3>2. list[x] = list[y] \/ Linux!Before(list[x], list[y]) \/ Linux!Before(list[y], list[x])
      BY <1>1, BeforeTotal
    <3> QED BY <1>0, <3>1, <3>2
  <2> QED BY <2>2, <2>3, <2>4 DEF StrictOrder
<1>3. IsFiniteSet(K) /\ Cardinality(K) = n
  BY <1>1, FS_Interval
<1>4. \E p \in Bijection(K, K) : \A i, j \in K : i < j => <<p[i], p[j]>> \in R
  BY <1>2, <1>3, ListInOrder
<1>5. \E p \in Linux!Bijection(K, K) :
         \A i, j \in K : i < j => ~Linux!Before(list[p[j]], list[p[i]])
  <2>1. PICK p \in Bijection(K, K) : \A i, j \in K : i < j => <<p[i], p[j]>> \in R
    BY <1>4
  <2>2. \A i \in K : p[i] \in K
    BY DEF Bijection, Injection
  <2>3. ASSUME NEW i \in K, NEW j \in K, i < j, Linux!Before(list[p[j]], list[p[i]])
        PROVE  FALSE
    <3>1. \/ Linux!Before(list[p[i]], list[p[j]])
          \/ list[p[i]] = list[p[j]]
      BY <1>0, <2>1, <2>2, <2>3
    <3>2. list[p[i]] \in Seq(Nat) /\ list[p[j]] \in Seq(Nat)
      BY <1>1, <2>2
    <3>3. Linux!Before(list[p[i]], list[p[i]])
      BY <2>3, <3>1, <3>2, BeforeTransitive
    <3> QED BY <3>2, <3>3, BeforeIrreflexive
  <2>4. p \in Linux!Bijection(K, K)
    BY DEF Linux!Bijection, Linux!Injection, Linux!Surjection, Linux!IsInjective,
           Bijection, Injection, Surjection, IsInjective
  <2> QED BY <2>3, <2>4
<1> DEFINE place == CHOOSE p \in Linux!Bijection(K, K) :
                       \A i, j \in K : i < j => ~Linux!Before(list[p[j]], list[p[i]])
<1>6. /\ place \in Linux!Bijection(K, K)
      /\ \A i, j \in K : i < j => ~Linux!Before(list[place[j]], list[place[i]])
  BY <1>5
<1>7. Linux!Sort(list) = [i \in K |-> list[place[i]]]
  BY DEF Linux!Sort, n
<1> HIDE DEF place, K
<1> DEFINE s == Linux!Sort(list)
<1>8. \A i \in K : place[i] \in K /\ s[i] = list[place[i]]
  BY <1>6, <1>7 DEF Linux!Bijection, Linux!Injection
<1>9. DOMAIN s = K /\ s \in [K -> T]
  BY <1>1, <1>7, <1>8
<1>10. s \in Seq(T) /\ Len(s) = n
  <2>1. s \in Seq(T)
    BY <1>1, <1>9, SeqDef DEF K
  <2> HIDE DEF s
  <2> QED BY <1>1, <1>9, <2>1, LenProperties DEF K
<1>11. \A x \in K : \E i \in K : place[i] = x
  BY <1>6 DEF Linux!Bijection, Linux!Surjection
<1> HIDE DEF s
<1>12. Range(s) = Range(list)
  <2>1. Range(s) = {s[i] : i \in K} /\ Range(list) = {list[i] : i \in K}
    BY <1>1, <1>9 DEF Range
  <2>2. \A i \in K : s[i] \in {list[x] : x \in K}
    BY <1>8
  <2>3. \A x \in K : list[x] \in {s[i] : i \in K}
    <3> TAKE x \in K
    <3>1. PICK i \in K : place[i] = x
      BY <1>11
    <3> QED BY <1>8, <3>1
  <2> QED BY <2>1, <2>2, <2>3
<1>13. \A i, j \in K : i < j => ~Linux!Before(s[j], s[i])
  BY <1>6, <1>8
<1> QED BY <1>10, <1>12, <1>13 DEF s, n, K

\* std::unique and erase: of a list in which no node comes before an earlier one, each
\* node is kept once, and in the order.
LEMMA UniqueProperties ==
    ASSUME NEW T \in SUBSET Seq(Nat), NEW s \in Seq(T),
           \A i, j \in 1..Len(s) : i < j => ~Linux!Before(s[j], s[i])
    PROVE  /\ Linux!Unique(s) \in Seq(T)
           /\ Range(Linux!Unique(s)) = Range(s)
           /\ \A i, j \in 1..Len(Linux!Unique(s)) :
                 i < j => Linux!Before(Linux!Unique(s)[i], Linux!Unique(s)[j])
<1> DEFINE n == Len(s)
           kept == {i \in 1..n : i = 1 \/ s[i] # s[i - 1]}
           R == {r \in kept \X kept : r[1] < r[2]}
           m == Cardinality(kept)
<1>1. /\ n \in Nat /\ DOMAIN s = 1..n
      /\ \A i \in 1..n : s[i] \in T /\ s[i] \in Seq(Nat)
  BY LenProperties, ElementOfSeq
<1> HIDE DEF n
<1>2. /\ kept \in SUBSET (1..n) /\ IsFiniteSet(kept) /\ m \in Nat
      /\ \A i \in kept : i \in Nat
  <2>1. kept \in SUBSET (1..n) /\ \A i \in kept : i \in Nat
    BY <1>1
  <2> HIDE DEF kept
  <2>2. IsFiniteSet(1..n)
    BY <1>1, FS_Interval
  <2> QED BY <2>1, <2>2, FS_Subset, FS_CardinalityType
<1>3. \A i \in kept : i = 1 \/ s[i] # s[i - 1]
  OBVIOUS
<1>4. \A x \in 1..n : \E i \in kept : s[i] = s[x]
  <2> TAKE x \in 1..n
  <2> DEFINE N == {i \in 1..n : s[i] = s[x]}
  <2>1. N \in SUBSET Nat /\ N # {}
    <3>1. x \in N
      OBVIOUS
    <3>2. \A i \in 1..n : i \in Nat
      BY <1>1
    <3> QED BY <3>1, <3>2
  <2> HIDE DEF N
  <2>2. PICK i \in N : \A k \in N : i <= k
    BY <2>1, LeastNumber
  <2>3. i \in 1..n /\ s[i] = s[x]
    BY DEF N
  <2>4. i # 1 => s[i] # s[i - 1]
    <3> SUFFICES ASSUME i # 1, s[i] = s[i - 1] PROVE FALSE
      OBVIOUS
    <3>1. i - 1 \in 1..n
      BY <1>1, <2>3
    <3>2. i - 1 \in N
      BY <2>3, <3>1 DEF N
    <3>3. i <= i - 1
      BY <2>2, <3>2
    <3> QED BY <1>1, <2>3, <3>3
  <2> QED BY <2>3, <2>4
<1> HIDE DEF kept, m
<1>5. \A x, y \in kept : <<x, y>> \in R <=> x < y
  BY DEF R
<1>6. \A x \in kept : {y \in kept : <<y, x>> \in R} = {j \in kept : j < x}
  BY <1>5
<1> HIDE DEF R
<1>7. StrictOrder(kept, R)
  BY <1>2, <1>5 DEF StrictOrder
<1>8. PICK p \in Bijection(1..m, kept) :
         /\ \A i \in 1..m : Place(kept, R)[p[i]] = i
         /\ \A i, j \in 1..m : i < j => <<p[i], p[j]>> \in R
  BY <1>2, <1>7, ListInOrder DEF m
<1>9. /\ \A i \in 1..m : p[i] \in kept
      /\ \A x \in kept : \E i \in 1..m : p[i] = x
  BY DEF Bijection, Injection, Surjection
<1>10. \A i, j \in 1..m : i < j => p[i] < p[j]
  BY <1>5, <1>8, <1>9
<1> DEFINE pick(k) == CHOOSE i \in kept : Linux!Cardinality({j \in kept : j < i}) = k - 1
<1>11. \A k \in 1..m : pick(k) = p[k]
  <2> TAKE k \in 1..m
  <2>1. \A x \in kept : Place(kept, R)[x] = Linux!Cardinality({j \in kept : j < x}) + 1
    <3>1. \A S : Linux!Cardinality(S) = Cardinality(S)
      BY DEF Linux!Cardinality, Cardinality
    <3> QED BY <1>6, <3>1 DEF Place
  <2>2. \A x \in kept : Linux!Cardinality({j \in kept : j < x}) \in Nat
    <3> TAKE x \in kept
    <3>1. IsFiniteSet({j \in kept : j < x})
      BY <1>2, FS_Subset
    <3>2. Cardinality({j \in kept : j < x}) \in Nat
      BY <3>1, FS_CardinalityType
    <3> QED BY <3>2 DEF Linux!Cardinality, Cardinality
  <2>3. Linux!Cardinality({j \in kept : j < p[k]}) = k - 1
    <3> DEFINE x == p[k]
               card == Linux!Cardinality({j \in kept : j < x})
    <3>1. x \in kept /\ Place(kept, R)[x] = k
      BY <1>8, <1>9
    <3> HIDE DEF x
    <3>2. card \in Nat /\ card + 1 = k
      BY <2>1, <2>2, <3>1
    <3> HIDE DEF card
    <3>3. card = k - 1
      BY <3>2
    <3> QED BY <3>3 DEF card, x
  <2>4. ASSUME NEW x \in kept, Linux!Cardinality({j \in kept : j < x}) = k - 1
        PROVE  x = p[k]
    <3>1. PICK i \in 1..m : p[i] = x
      BY <1>9
    <3>2. i = k - 1 + 1
      BY <1>8, <2>1, <2>4, <3>1
    <3>3. i = k
      BY <1>2, <3>2
    <3> QED BY <3>1, <3>3
  <2> QED BY <1>9, <2>3, <2>4
<1> DEFINE u == Linux!Unique(s)
<1>12. u = [k \in 1..m |-> s[p[k]]]
  <2>1. \A S : Linux!Cardinality(S) = Cardinality(S)
    BY DEF Linux!Cardinality, Cardinality
  <2>2. u = [k \in 1..m |-> s[pick(k)]]
    BY <2>1 DEF Linux!Unique, kept, m, n
  <2> HIDE DEF u, pick
  <2> QED BY <1>11, <2>2
<1> HIDE DEF u
<1>13. u \in Seq(T) /\ Len(u) = m
  <2>1. DOMAIN u = 1..m /\ u \in [1..m -> T]
    BY <1>1, <1>2, <1>9, <1>12
  <2>2. u \in Seq(T)
    BY <1>2, <2>1, SeqDef
  <2> QED BY <1>2, <2>1, <2>2, LenProperties
<1>14. Range(u) = Range(s)
  <2>1. Range(u) = {s[p[k]] : k \in 1..m} /\ Range(s) = {s[x] : x \in 1..n}
    BY <1>1, <1>12 DEF Range
  <2>2. \A k \in 1..m : s[p[k]] \in {s[x] : x \in 1..n}
    BY <1>2, <1>9
  <2>3. \A x \in 1..n : s[x] \in {s[p[k]] : k \in 1..m}
    <3> TAKE x \in 1..n
    <3>1. PICK i \in kept : s[i] = s[x]
      BY <1>4
    <3>2. PICK k \in 1..m : p[k] = i
      BY <1>9
    <3> QED BY <3>1, <3>2
  <2> QED BY <2>1, <2>2, <2>3
<1>15. \A i, j \in 1..m : i < j => Linux!Before(u[i], u[j])
  <2> SUFFICES ASSUME NEW i \in 1..m, NEW j \in 1..m, i < j
               PROVE  Linux!Before(s[p[i]], s[p[j]])
    BY <1>12
  <2> DEFINE x == p[i]
             y == p[j]
             z == y - 1
  <2>1. x \in kept /\ y \in kept /\ x < y
    BY <1>9, <1>10
  <2> HIDE DEF x, y
  <2>2. /\ x \in 1..n /\ y \in 1..n /\ y # 1
    BY <1>1, <1>2, <2>1
  <2>3. z \in 1..n /\ z < y /\ (x = z \/ x < z)
    BY <1>1, <2>1, <2>2
  <2>4. s[y] # s[z]
    BY <1>3, <2>1, <2>2
  <2> HIDE DEF z
  <2>5. /\ s[x] \in Seq(Nat) /\ s[y] \in Seq(Nat) /\ s[z] \in Seq(Nat)
        /\ ~Linux!Before(s[y], s[z])
    BY <1>1, <2>2, <2>3 DEF n
  <2>6. Linux!Before(s[z], s[y])
    BY <2>4, <2>5, BeforeTotal
  <2>7. s[x] = s[z] \/ Linux!Before(s[x], s[z])
    <3>1. CASE x < z
      <4>1. ~Linux!Before(s[z], s[x])
        BY <2>2, <2>3, <3>1 DEF n
      <4> QED BY <2>5, <4>1, BeforeTotal
    <3> QED BY <2>3, <3>1
  <2>8. Linux!Before(s[x], s[y])
    BY <2>5, <2>6, <2>7, BeforeTransitive
  <2> QED BY <2>8 DEF x, y
<1> QED BY <1>13, <1>14, <1>15 DEF u

-----------------------------------------------------------------------------
\* The elements of a list to which one is appended.
LEMMA AppendRange ==
    ASSUME NEW T, NEW list \in Seq(T), NEW e \in T
    PROVE  Append(list, e) \in Seq(T) /\ Range(Append(list, e)) = Range(list) \cup {e}
<1> DEFINE n == Len(list)
           longer == Append(list, e)
<1>1. /\ longer \in Seq(T) /\ Len(longer) = n + 1
      /\ \A i \in 1..n : longer[i] = list[i]
      /\ longer[n + 1] = e
  BY AppendProperties
<1>2. n \in Nat /\ DOMAIN list = 1..n /\ DOMAIN longer = 1..n + 1
  BY <1>1, LenProperties
<1> HIDE DEF n, longer
<1>3. \A i : i \in 1..n + 1 <=> i \in 1..n \/ i = n + 1
  BY <1>2
<1> QED BY <1>1, <1>2, <1>3 DEF Range, longer

-----------------------------------------------------------------------------
(* The Linux scanner.                                                       *)

\* The devices that a call has still to list.
pending == entries \cup (IF at \in {"parent", "devnode"} THEN {current} ELSE {})

UdevTypes ==
    /\ at \in {"idle", "enumerate", "lookup", "parent", "devnode"}
    /\ attached \in SUBSET UdevDevices /\ entries \in SUBSET UdevDevices
    /\ at \in {"parent", "devnode"} => current \in UdevDevices
    /\ before \in SUBSET UdevDevices /\ altered \in SUBSET UdevDevices
    /\ ports \in Seq(Linux!Nodes) /\ result \in Seq(Linux!Nodes)
    /\ failed \in BOOLEAN

\* What an enumeration has found so far: a device that was there all the time, and for
\* which libudev did answer, is listed or is still to be; and whatever is listed was
\* there at some time.
UdevCount ==
    /\ pending \subseteq before \cup altered
    /\ Range(ports) \subseteq Linux!SerialPorts(before \cup altered)
    /\ Linux!SerialPorts((before \ altered) \ pending) \subseteq Range(ports)

UdevInv ==
    /\ UdevTypes /\ Linux!SortedUnique
    /\ at = "idle" => ports = <<>> /\ before = {} /\ altered = {}
    /\ at = "enumerate" => ports = <<>>
    /\ at # "idle" => ~failed
    /\ at = "devnode" => current \in Usb
    /\ at \in {"lookup", "parent", "devnode"} => UdevCount
    /\ \A d \in attached \cap HotPlug : \A e \in attached \ {d} :
          Node[d] = NoNode \/ Node[e] # Node[d]

\* The test of a node in the code is that of SerialPort.
LEMMA SerialTest ==
    ASSUME NEW d \in UdevDevices
    PROVE  Node[d] \in Linux!SerialPort
              <=> Node[d] # NoNode /\ Linux!isSerialDeviceNode(Node[d])
<1>1. CASE Node[d] = NoNode
  BY <1>1 DEF Linux!SerialPort, Linux!Nodes
<1>2. CASE Node[d] # NoNode
  <2> DEFINE node == Node[d]
  <2>1. node \in Seq(Nat) /\ node \in Linux!Nodes
    BY <1>2, UdevAssumption DEF Linux!Nodes
  <2> HIDE DEF node
  <2>2. CASE node = <<>>
    BY <2>2 DEF Linux!SerialPort, Linux!isSerialDeviceNode, node
  <2>3. CASE node # <<>>
    <3>1. /\ Len(node) \in Nat /\ Head(node) = node[1]
          /\ Tail(node) \in Seq(Nat) /\ Len(Tail(node)) = Len(node) - 1
          /\ \A i \in 1..Len(Tail(node)) : Tail(node)[i] = node[i + 1]
      BY <2>1, <2>3, LenProperties, HeadTailProperties
    <3>2. DOMAIN Tail(node) = 1..Len(Tail(node))
      BY <3>1, LenProperties
    <3>3. Linux!Range(Tail(node)) \ Linux!Digit # {}
             <=> \E i \in 1..Len(node) - 1 : node[i + 1] \notin Linux!Digit
      BY <3>1, <3>2 DEF Linux!Range
    <3>4. (\E i \in 1..Len(node) - 1 : node[i + 1] \notin Linux!Digit)
             <=> \E i \in 2..Len(node) : node[i] \notin Linux!Digit
      <4>1. ASSUME NEW i \in 1..Len(node) - 1 PROVE i + 1 \in 2..Len(node)
        BY <3>1
      <4>2. ASSUME NEW i \in 2..Len(node)
            PROVE  i - 1 \in 1..Len(node) - 1 /\ (i - 1) + 1 = i
        BY <3>1
      <4> QED BY <4>1, <4>2
    <3>5. node = <<Linux!tty>> => ~ \E i \in 2..Len(node) : node[i] \notin Linux!Digit
      <4>1. node = <<Linux!tty>> => Len(node) = 1
        OBVIOUS
      <4>2. Len(node) = 1 => 2..Len(node) = {}
        OBVIOUS
      <4> QED BY <4>1, <4>2
    <3> QED BY <1>2, <2>1, <2>3, <3>1, <3>3, <3>4, <3>5
            DEF Linux!SerialPort, Linux!isSerialDeviceNode, node
  <2> QED BY <2>2, <2>3
<1> QED BY <1>1, <1>2

\* What SerialPorts() is of a union, and of a single device.
LEMMA SerialUnion ==
    /\ \A D, E : Linux!SerialPorts(D \cup E) = Linux!SerialPorts(D) \cup Linux!SerialPorts(E)
    /\ \A D, E : D \subseteq E => Linux!SerialPorts(D) \subseteq Linux!SerialPorts(E)
    /\ \A d : Linux!SerialPorts({d}) = IF d \in Usb /\ Node[d] \in Linux!SerialPort
                                       THEN {Node[d]} ELSE {}
    /\ Linux!SerialPorts({}) = {}
  BY DEF Linux!SerialPorts

\* The count stays right if the devices that are no longer pending have changed, or are
\* those whose nodes were added to the list.
LEMMA CountKept ==
    ASSUME UdevCount, before' = before, altered \subseteq altered', pending' \subseteq pending,
           NEW N, Range(ports') = Range(ports) \cup N,
           N \subseteq Linux!SerialPorts(pending),
           Linux!SerialPorts((pending \ pending') \ altered') \subseteq N
    PROVE  UdevCount'
<1> DEFINE SP(D) == Linux!SerialPorts(D)
           P == pending
           Q == pending'
<1>0. /\ P \subseteq before \cup altered /\ Q \subseteq P
      /\ Range(ports) \subseteq SP(before \cup altered)
      /\ SP((before \ altered) \ P) \subseteq Range(ports)
      /\ N \subseteq SP(P) /\ SP((P \ Q) \ altered') \subseteq N
  BY DEF UdevCount
<1> HIDE DEF P, Q
<1>1. Q \subseteq before \cup altered'
  BY <1>0
<1>2. Range(ports') \subseteq SP(before \cup altered')
  <2>1. P \subseteq before \cup altered' /\ before \cup altered \subseteq before \cup altered'
    BY <1>0
  <2>2. SP(P) \subseteq SP(before \cup altered')
        /\ SP(before \cup altered) \subseteq SP(before \cup altered')
    BY <2>1, SerialUnion
  <2> HIDE DEF SP
  <2> QED BY <1>0, <2>2
<1>3. SP((before \ altered') \ Q) \subseteq Range(ports')
  <2>1. (before \ altered') \ Q \subseteq ((before \ altered) \ P) \cup ((P \ Q) \ altered')
    OBVIOUS
  <2>2. SP((before \ altered') \ Q)
           \subseteq SP((before \ altered) \ P) \cup SP((P \ Q) \ altered')
    BY <2>1 DEF Linux!SerialPorts
  <2> HIDE DEF SP
  <2> QED BY <1>0, <2>2
<1> QED BY <1>1, <1>2, <1>3 DEF UdevCount, Q

\* The list that a call returns is sorted, and its set is that of the local `ports'.
LEMMA UdevSorted ==
    ASSUME UdevTypes
    PROVE  LET list == Linux!Unique(Linux!Sort(ports)) IN
           /\ list \in Seq(Linux!Nodes) /\ Range(list) = Range(ports)
           /\ \A i, j \in 1..Len(list) : i < j => Linux!Before(list[i], list[j])
<1> DEFINE T == Linux!Nodes
           s == Linux!Sort(ports)
<1>1. T \in SUBSET Seq(Nat)
  BY UdevAssumption DEF Linux!Nodes
<1>2. ports \in Seq(T)
  BY DEF UdevTypes
<1>3. /\ s \in Seq(T) /\ Len(s) = Len(ports) /\ Range(s) = Range(ports)
      /\ \A i, j \in 1..Len(ports) : i < j => ~Linux!Before(s[j], s[i])
  BY <1>1, <1>2, SortProperties
<1> HIDE DEF s, T
<1>4. /\ Linux!Unique(s) \in Seq(T) /\ Range(Linux!Unique(s)) = Range(s)
      /\ \A i, j \in 1..Len(Linux!Unique(s)) :
            i < j => Linux!Before(Linux!Unique(s)[i], Linux!Unique(s)[j])
  BY <1>1, <1>3, UniqueProperties
<1> QED BY <1>3, <1>4 DEF s, T

\* A device is opened, or there is no answer.
LEMMA UdevOpen == ASSUME UdevInv, Linux!OpenDevice PROVE UdevInv'
<1>1. PICK device \in entries :
         /\ entries' = entries \ {device}
         /\ \/ at' = "parent" /\ current' = device /\ altered' = altered
            \/ altered' = altered \cup {device} /\ UNCHANGED <<at, current>>
  BY DEF Linux!OpenDevice
<1>2. /\ at = "lookup" /\ device \in UdevDevices /\ UdevCount
      /\ UNCHANGED <<attached, ports, result, before, failed>>
  BY DEF Linux!OpenDevice, UdevInv, UdevTypes
<1>3. UdevTypes' /\ Linux!SortedUnique' /\ at' \in {"lookup", "parent"}
  BY <1>1, <1>2 DEF UdevInv, UdevTypes, Linux!SortedUnique
<1>4. UdevCount'
  <2>1. /\ altered \subseteq altered' /\ pending' \subseteq pending
        /\ (pending \ pending') \ altered' = {}
    BY <1>1, <1>2 DEF pending
  <2>2. Linux!SerialPorts((pending \ pending') \ altered') \subseteq {}
    BY <2>1, SerialUnion
  <2> QED BY <1>2, <2>1, <2>2, CountKept
<1> QED BY <1>2, <1>3, <1>4 DEF UdevInv

\* Its parent is looked for.
LEMMA UdevParent == ASSUME UdevInv, Linux!isUsbSerialDevice PROVE UdevInv'
<1>1. /\ at = "parent" /\ UdevCount /\ ports' = ports
      /\ UNCHANGED <<attached, entries, result, before, failed>>
  BY DEF Linux!isUsbSerialDevice, Linux!NoAnswer, UdevInv
<1>2. \/ current \in Usb /\ at' = "devnode" /\ UNCHANGED <<current, altered>>
      \/ current \notin Usb /\ at' = "lookup" /\ altered' = altered
      \/ at' = "lookup" /\ altered' = altered \cup {current}
  BY DEF Linux!isUsbSerialDevice, Linux!NoAnswer, Linux!NextEntry
<1>3. UdevTypes' /\ Linux!SortedUnique' /\ at' \in {"lookup", "devnode"}
  BY <1>1, <1>2 DEF UdevInv, UdevTypes, Linux!SortedUnique
<1>4. UdevCount'
  <2>1. /\ altered \subseteq altered' /\ pending' \subseteq pending
        /\ (pending \ pending') \ altered' \subseteq {current} \ Usb
    BY <1>1, <1>2 DEF pending
  <2>2. Linux!SerialPorts((pending \ pending') \ altered') \subseteq {}
    BY <2>1 DEF Linux!SerialPorts
  <2> QED BY <1>1, <2>1, <2>2, CountKept
<1> QED BY <1>1, <1>2, <1>3, <1>4 DEF UdevInv

\* Its node is asked for, and listed if it is that of a serial port.
LEMMA UdevNode == ASSUME UdevInv, Linux!GetDevnode PROVE UdevInv'
<1>1. /\ at = "devnode" /\ at' = "lookup" /\ UdevCount
      /\ current \in Usb /\ current \in UdevDevices /\ ports \in Seq(Linux!Nodes)
      /\ UNCHANGED <<attached, entries, result, before, failed>>
  BY DEF Linux!GetDevnode, Linux!NoAnswer, Linux!NextEntry, UdevInv, UdevTypes
<1>2. \/ /\ altered' = altered
         /\ ports' = IF Node[current] # NoNode /\ Linux!isSerialDeviceNode(Node[current])
                     THEN Append(ports, Node[current]) ELSE ports
      \/ altered' = altered \cup {current} /\ ports' = ports
  BY DEF Linux!GetDevnode, Linux!NoAnswer
<1>3. /\ pending = entries \cup {current} /\ pending' = entries
      /\ altered \subseteq altered'
  BY <1>1, <1>2 DEF pending
<1>4. Linux!SerialPorts({current}) \subseteq Linux!SerialPorts(pending)
  BY <1>3, SerialUnion
<1>5. CASE altered' = altered \cup {current} /\ ports' = ports
  <2>1. Linux!SerialPorts((pending \ pending') \ altered') \subseteq {}
    <3>1. (pending \ pending') \ altered' = {}
      BY <1>3, <1>5
    <3> QED BY <3>1, SerialUnion
  <2>2. UdevCount'
    BY <1>1, <1>3, <1>5, <2>1, CountKept
  <2>3. UdevTypes' /\ Linux!SortedUnique'
    BY <1>1, <1>5 DEF UdevInv, UdevTypes, Linux!SortedUnique
  <2> QED BY <1>1, <2>2, <2>3 DEF UdevInv
<1>6. CASE /\ altered' = altered
           /\ ports' = IF Node[current] # NoNode /\ Linux!isSerialDeviceNode(Node[current])
                       THEN Append(ports, Node[current]) ELSE ports
  <2>1. /\ ports' \in Seq(Linux!Nodes)
        /\ Range(ports') = Range(ports) \cup Linux!SerialPorts({current})
    <3>1. CASE Node[current] # NoNode /\ Linux!isSerialDeviceNode(Node[current])
      <4>1. ports' = Append(ports, Node[current]) /\ Node[current] \in Linux!Nodes
        BY <1>1, <1>6, <3>1 DEF Linux!Nodes
      <4>2. ports' \in Seq(Linux!Nodes) /\ Range(ports') = Range(ports) \cup {Node[current]}
        BY <1>1, <4>1, AppendRange
      <4>3. Linux!SerialPorts({current}) = {Node[current]}
        <5>1. Node[current] \in Linux!SerialPort
          BY <1>1, <3>1, SerialTest
        <5> QED BY <1>1, <5>1, SerialUnion
      <4> QED BY <4>2, <4>3
    <3>2. CASE ~(Node[current] # NoNode /\ Linux!isSerialDeviceNode(Node[current]))
      <4>1. Linux!SerialPorts({current}) = {}
        BY <1>1, <3>2, SerialTest, SerialUnion
      <4> QED BY <1>1, <1>6, <3>2, <4>1
    <3> QED BY <3>1, <3>2
  <2>2. Linux!SerialPorts((pending \ pending') \ altered')
           \subseteq Linux!SerialPorts({current})
    <3>1. (pending \ pending') \ altered' \subseteq {current}
      BY <1>3
    <3> QED BY <3>1, SerialUnion
  <2>3. UdevCount'
    BY <1>1, <1>3, <1>4, <2>1, <2>2, CountKept
  <2>4. UdevTypes' /\ Linux!SortedUnique'
    BY <1>1, <1>6, <2>1 DEF UdevInv, UdevTypes, Linux!SortedUnique
  <2> QED BY <1>1, <2>3, <2>4 DEF UdevInv
<1> QED BY <1>2, <1>5, <1>6

\* A device that comes or goes keeps it, too: no node is taken twice.
LEMMA UdevDeviceChanges == ASSUME UdevInv, Linux!DeviceChanges PROVE UdevInv'
<1>1. PICK device \in HotPlug :
         /\ \/ device \in attached /\ attached' = attached \ {device}
            \/ /\ \A other \in attached : \/ Node[other] = NoNode
                                          \/ Node[other] # Node[device]
               /\ attached' = attached \cup {device}
         /\ altered' = IF at = "idle" THEN altered ELSE altered \cup {device}
  BY DEF Linux!DeviceChanges
<1>2. UNCHANGED <<at, entries, current, ports, result, before, failed>>
  BY DEF Linux!DeviceChanges
<1>3. UdevTypes' /\ Linux!SortedUnique'
  BY <1>1, <1>2, UdevAssumption DEF UdevInv, UdevTypes, Linux!SortedUnique
<1>4. \A d \in attached' \cap HotPlug : \A e \in attached' \ {d} :
         Node[d] = NoNode \/ Node[e] # Node[d]
  BY <1>1 DEF UdevInv
<1>5. at \in {"lookup", "parent", "devnode"} => UdevCount'
  <2> SUFFICES ASSUME at \in {"lookup", "parent", "devnode"} PROVE UdevCount'
    OBVIOUS
  <2>1. UdevCount /\ altered \subseteq altered' /\ pending' = pending
    BY <1>1, <1>2 DEF UdevInv, pending
  <2>2. Linux!SerialPorts((pending \ pending') \ altered') \subseteq {}
    <3>1. (pending \ pending') \ altered' = {}
      BY <2>1
    <3> QED BY <3>1, SerialUnion
  <2> QED BY <1>2, <2>1, <2>2, CountKept
<1> QED BY <1>1, <1>2, <1>3, <1>4, <1>5 DEF UdevInv

\* So does every step of the Linux scanner.
LEMMA UdevStep == ASSUME UdevInv, Linux!Next PROVE UdevInv'
<1>1. CASE Linux!Call
  <2>1. UdevTypes' /\ Linux!SortedUnique'
    <3>1. result' \in Seq(Linux!Nodes) /\ 1..Len(result') = {}
      BY <1>1, EmptySeq DEF Linux!Call
    <3> QED BY <1>1, <3>1 DEF UdevInv, UdevTypes, Linux!SortedUnique, Linux!Call
  <2> QED BY <1>1, <2>1 DEF UdevInv, Linux!Call
<1>2. CASE Linux!EnumerationFails
  <2>1. UdevTypes' /\ Linux!SortedUnique'
    <3>1. /\ ports' = <<>> /\ result' = <<>> /\ at' = "idle"
          /\ before' = {} /\ altered' = {} /\ failed' = TRUE
          /\ UNCHANGED <<attached, entries>>
      BY <1>2 DEF Linux!EnumerationFails, Linux!ReturnList, UdevInv
    <3>2. result' \in Seq(Linux!Nodes) /\ Len(result') = 0 /\ ports' \in Seq(Linux!Nodes)
      BY <3>1, EmptySeq
    <3> QED BY <3>1, <3>2 DEF UdevInv, UdevTypes, Linux!SortedUnique
  <2> QED BY <1>2, <2>1 DEF UdevInv, Linux!EnumerationFails, Linux!ReturnList
<1>3. CASE Linux!Enumerate
  <2>1. PICK unsure \in SUBSET altered : entries' = (before \ altered) \cup unsure
    BY <1>3 DEF Linux!Enumerate
  <2>2. /\ at = "enumerate" /\ at' = "lookup"
        /\ UNCHANGED <<attached, ports, result, before, altered, failed>>
    BY <1>3 DEF Linux!Enumerate
  <2>3. UdevTypes' /\ Linux!SortedUnique'
    BY <2>1, <2>2 DEF UdevInv, UdevTypes, Linux!SortedUnique
  <2>4. Range(ports') = {} /\ pending' = entries' /\ (before' \ altered') \ entries' = {}
    BY <2>1, <2>2 DEF UdevInv, Range, pending
  <2>5. Linux!SerialPorts((before' \ altered') \ entries') = {}
    BY <2>4, SerialUnion
  <2>6. UdevCount'
    BY <2>1, <2>2, <2>4, <2>5 DEF UdevCount
  <2> QED BY <2>2, <2>3, <2>6 DEF UdevInv
<1>4. CASE Linux!Return
  <2>1. /\ at' = "idle" /\ result' = Linux!Unique(Linux!Sort(ports))
        /\ ports' = <<>> /\ before' = {} /\ altered' = {}
        /\ UNCHANGED <<attached, entries, failed>>
    BY <1>4 DEF Linux!Return, Linux!ReturnList
  <2>2. UdevTypes' /\ Linux!SortedUnique'
    <3>1. ports' \in Seq(Linux!Nodes)
      BY <2>1, EmptySeq
    <3>2. result' \in Seq(Linux!Nodes) /\ Linux!SortedUnique'
      BY <2>1, UdevSorted DEF UdevInv, Linux!SortedUnique
    <3> QED BY <2>1, <3>1, <3>2 DEF UdevInv, UdevTypes
  <2> QED BY <2>1, <2>2 DEF UdevInv
<1> QED BY <1>1, <1>2, <1>3, <1>4, UdevOpen, UdevParent, UdevNode, UdevDeviceChanges
        DEF Linux!Next

\* The invariant of a Linux build.
LEMMA LinuxInvariant == ScanSpec => [](linux => UdevInv)
<1>1. ScanInit => (linux => UdevInv)
  <2> SUFFICES ASSUME linux, Linux!Init PROVE UdevInv
    BY DEF ScanInit, linux, windows
  <2>1. result \in Seq(Linux!Nodes) /\ ports \in Seq(Linux!Nodes) /\ 1..Len(result) = {}
    BY EmptySeq DEF Linux!Init
  <2>2. UdevTypes /\ Linux!SortedUnique
    BY <2>1 DEF Linux!Init, UdevTypes, Linux!SortedUnique
  <2> QED BY <2>2 DEF Linux!Init, UdevInv
<1>2. (linux => UdevInv) /\ [ScanNext]_scanVars => (linux => UdevInv)'
  <2> SUFFICES ASSUME linux => UdevInv, [ScanNext]_scanVars, linux' PROVE UdevInv'
    OBVIOUS
  <2>1. CASE linux /\ Linux!Next
    BY <2>1, UdevStep
  <2>2. CASE UNCHANGED scanVars
    BY <2>2 DEF scanVars, linux, UdevInv, UdevTypes, UdevCount, pending, Linux!SortedUnique
  <2> QED BY <2>1, <2>2 DEF ScanNext, linux, windows
<1> QED BY <1>1, <1>2, PTL DEF ScanSpec

\* The Linux scanner returns a list in strictly increasing order, whatever comes and
\* goes while it enumerates, so that no node is listed twice.
THEOREM ListIsSorted == ScanSpec => []SortedUnique
<1>1. (linux => UdevInv) => SortedUnique
  BY DEF SortedUnique, UdevInv
<1> QED BY <1>1, LinuxInvariant, PTL

\* Plugging a device in or out changes the serial ports by its own node, or not at all:
\* no other device that is there has that node.
LEMMA ChangeOfNode ==
    ASSUME UdevInv, Linux!DeviceChanges
    PROVE  Linux!ScannerStep
<1> DEFINE SP(D) == Linux!SerialPorts(D)
<1>1. PICK device \in HotPlug :
         /\ \/ device \in attached /\ attached' = attached \ {device}
            \/ /\ \A other \in attached : \/ Node[other] = NoNode
                                          \/ Node[other] # Node[device]
               /\ attached' = attached \cup {device}
         /\ altered' = IF at = "idle" THEN altered ELSE altered \cup {device}
  BY DEF Linux!DeviceChanges
<1>2. UNCHANGED <<at, entries, ports, result, before, failed>>
  BY DEF Linux!DeviceChanges
<1>3. /\ SP(altered \cup {device}) = SP(altered) \cup SP({device})
      /\ SP(attached \cup {device}) = SP(attached) \cup SP({device})
      /\ SP(attached) = SP(attached \ {device}) \cup SP(attached \cap {device})
  BY DEF Linux!SerialPorts
<1>4. CASE SP({device}) = {}
  <2>1. SP(attached') = SP(attached) /\ SP(altered') = SP(altered)
    <3>1. SP(attached \cap {device}) = {}
      BY <1>4 DEF Linux!SerialPorts
    <3> HIDE DEF SP
    <3> QED BY <1>1, <1>3, <1>4, <3>1
  <2> QED BY <1>2, <2>1 DEF Linux!ScannerStep, Linux!Scanner!vars
<1>5. CASE SP({device}) # {}
  <2>1. /\ SP({device}) = {Node[device]} /\ Node[device] \in Linux!SerialPort
        /\ Node[device] # NoNode
    BY <1>5, SerialUnion DEF Linux!SerialPort, Linux!Nodes
  <2>2. Node[device] \in SP(UdevDevices)
    <3>1. device \in UdevDevices
      BY UdevAssumption
    <3> QED BY <2>1, <3>1, SerialUnion
  <2>3. CASE device \in attached /\ attached' = attached \ {device}
    <3>1. Node[device] \notin SP(attached \ {device})
      <4>1. \A e \in attached \ {device} : Node[e] # Node[device]
        BY <2>1, <2>3 DEF UdevInv
      <4> QED BY <4>1 DEF Linux!SerialPorts
    <3>2. attached \cap {device} = {device}
      BY <2>3
    <3> HIDE DEF SP
    <3>3. /\ SP(attached') = (SP(attached) \cup {Node[device]})
                                \ (SP(attached) \cap {Node[device]})
          /\ SP(altered') = IF at = "idle" THEN SP(altered)
                            ELSE SP(altered) \cup {Node[device]}
      BY <1>1, <1>3, <2>1, <2>3, <3>1, <3>2
    <3> QED BY <1>2, <2>2, <3>3
            DEF SP, Linux!ScannerStep, Linux!Scanner!Next, Linux!Scanner!Change
  <2>4. CASE /\ \A other \in attached : \/ Node[other] = NoNode
                                        \/ Node[other] # Node[device]
             /\ attached' = attached \cup {device}
    <3>1. Node[device] \notin SP(attached)
      BY <2>1, <2>4 DEF Linux!SerialPorts
    <3> HIDE DEF SP
    <3>2. /\ SP(attached') = (SP(attached) \cup {Node[device]})
                                \ (SP(attached) \cap {Node[device]})
          /\ SP(altered') = IF at = "idle" THEN SP(altered)
                            ELSE SP(altered) \cup {Node[device]}
      BY <1>1, <1>3, <2>1, <2>4, <3>1
    <3> QED BY <1>2, <2>2, <3>2
            DEF SP, Linux!ScannerStep, Linux!Scanner!Next, Linux!Scanner!Change
  <2> QED BY <1>1, <2>3, <2>4
<1> QED BY <1>4, <1>5

\* If libudev has no answer for a device, then the node that may be missing is its own.
LEMMA NodeRefused ==
    ASSUME UdevInv, at # "idle", at' # "idle", UdevCount,
           NEW device \in pending, altered' = altered \cup {device},
           UNCHANGED <<attached, result, before, failed>>
    PROVE  Linux!ScannerStep
<1> DEFINE SP(D) == Linux!SerialPorts(D)
<1>1. SP(altered') = SP(altered) \cup SP({device})
  BY SerialUnion
<1>2. CASE SP({device}) \subseteq SP(altered)
  <2>1. SP(altered') = SP(altered)
    BY <1>1, <1>2
  <2> QED BY <2>1 DEF Linux!ScannerStep, Linux!Scanner!vars
<1>3. CASE ~(SP({device}) \subseteq SP(altered))
  <2>1. device \in before
    <3>1. device \in altered => SP({device}) \subseteq SP(altered)
      BY DEF Linux!SerialPorts
    <3> QED BY <1>3, <3>1 DEF UdevCount
  <2>2. SP({device}) = {Node[device]}
    BY <1>3, SerialUnion
  <2>3. Node[device] \in SP(before)
    BY <2>1, <2>2 DEF Linux!SerialPorts
  <2> HIDE DEF SP
  <2>4. SP(altered') = SP(altered) \cup {Node[device]}
    BY <1>1, <2>2
  <2> QED BY <2>3, <2>4 DEF SP, Linux!ScannerStep, Linux!Scanner!Next, Linux!Scanner!Refuse
<1> QED BY <1>2, <1>3

\* Every other step of the Linux scanner is one that PortScanner allows, too.
LEMMA LinuxKeepsPromise ==
    ASSUME UdevInv, Linux!Next
    PROVE  Linux!ScannerStep
<1> DEFINE SP(D) == Linux!SerialPorts(D)
<1>1. Linux!Range(<<>>) = {} /\ SP({}) = {}
  BY SerialUnion DEF Linux!Range
<1>2. CASE Linux!Call
  BY <1>1, <1>2 DEF Linux!Call, UdevInv, Linux!ScannerStep, Linux!Scanner!Next,
                    Linux!Scanner!Begin
<1>3. CASE Linux!EnumerationFails
  BY <1>1, <1>3 DEF Linux!EnumerationFails, Linux!ReturnList, UdevInv, Linux!ScannerStep,
                    Linux!Scanner!Next, Linux!Scanner!Return
<1>4. CASE Linux!Enumerate
  BY <1>4 DEF Linux!Enumerate, Linux!ScannerStep, Linux!Scanner!vars
<1>5. CASE Linux!OpenDevice
  <2>1. PICK device \in entries :
           altered' = altered \/ altered' = altered \cup {device}
    BY <1>5 DEF Linux!OpenDevice
  <2>2. /\ at = "lookup" /\ at' # "idle" /\ UNCHANGED <<attached, result, before, failed>>
        /\ device \in pending /\ UdevCount
    BY <1>5 DEF Linux!OpenDevice, UdevInv, pending
  <2>3. CASE altered' = altered
    BY <2>2, <2>3 DEF Linux!ScannerStep, Linux!Scanner!vars
  <2> QED BY <2>1, <2>2, <2>3, NodeRefused
<1>6. CASE Linux!isUsbSerialDevice \/ Linux!GetDevnode
  <2>1. altered' = altered \/ altered' = altered \cup {current}
    BY <1>6 DEF Linux!isUsbSerialDevice, Linux!GetDevnode, Linux!NoAnswer
  <2>2. /\ at # "idle" /\ at' # "idle" /\ UNCHANGED <<attached, result, before, failed>>
        /\ current \in pending /\ UdevCount
    BY <1>6 DEF Linux!isUsbSerialDevice, Linux!GetDevnode, Linux!NoAnswer,
                Linux!NextEntry, UdevInv, pending
  <2>3. CASE altered' = altered
    BY <2>2, <2>3 DEF Linux!ScannerStep, Linux!Scanner!vars
  <2> QED BY <2>1, <2>2, <2>3, NodeRefused
<1>7. CASE Linux!Return
  <2>1. /\ at = "lookup" /\ entries = {} /\ at' = "idle"
        /\ result' = Linux!Unique(Linux!Sort(ports))
        /\ before' = {} /\ altered' = {} /\ UNCHANGED <<attached, failed>>
    BY <1>7 DEF Linux!Return, Linux!ReturnList
  <2>2. Linux!Range(result') = Range(ports)
    <3>1. Linux!Range(result') = Range(result')
      BY DEF Linux!Range, Range
    <3> QED BY <2>1, <3>1, UdevSorted DEF UdevInv
  <2>3. Range(ports) \in Linux!Scanner!Found
    <3>1. /\ Range(ports) \subseteq SP(before) \cup SP(altered)
          /\ SP(before) \ SP(altered) \subseteq Range(ports)
      <4>1. (before \ altered) \ pending = before \ altered
        BY <2>1 DEF pending
      <4>2. SP(before \cup altered) = SP(before) \cup SP(altered)
        BY SerialUnion
      <4>3. SP(before) \ SP(altered) \subseteq SP(before \ altered)
        BY DEF Linux!SerialPorts
      <4> QED BY <2>1, <4>1, <4>2, <4>3 DEF UdevInv, UdevCount
    <3> HIDE DEF SP
    <3>2. Range(ports) = (SP(before) \ SP(altered)) \cup (Range(ports) \cap SP(altered))
      BY <3>1
    <3> QED BY <3>2 DEF SP, Linux!Scanner!Found
  <2>4. ~failed /\ failed \in BOOLEAN
    BY <2>1 DEF UdevInv, UdevTypes
  <2> QED BY <1>1, <2>1, <2>2, <2>3, <2>4
          DEF Linux!ScannerStep, Linux!Scanner!Next, Linux!Scanner!Return
<1>8. CASE Linux!DeviceChanges
  BY <1>8, ChangeOfNode
<1> QED BY <1>2, <1>3, <1>4, <1>5, <1>6, <1>7, <1>8 DEF Linux!Next

-----------------------------------------------------------------------------
(* The Windows scanner.                                                     *)

\* The name of a device without a "COM" of its own has one "COM" only, that of its port,
\* and the first parenthesis behind it closes it: this is the port that is cut out.
LEMMA ExtractsPort ==
    ASSUME NEW d \in Windows!Plain
    PROVE  Windows!Extract(Windows!FriendlyName(d)) = Windows!Identifier(d)
<1> DEFINE T == STRING \cup {"COM", "(", ")"}
           D == Description[d]
           x == Number[d]
           name == Windows!FriendlyName(d)
           n == Len(D)
<1>1. /\ D \in Seq(T) /\ "COM" \notin Windows!Range(D)
      /\ x \in T /\ x # "COM" /\ x # ")"
      /\ "COM" \in T /\ "(" \in T /\ ")" \in T
  <2>1. D \in Seq(STRING) /\ "COM" \notin Windows!Range(D)
    BY ComAssumption DEF Windows!Plain
  <2>2. x \in T /\ x # "COM" /\ x # ")"
    BY ComAssumption DEF Windows!Plain
  <2>3. "COM" \in T /\ "(" \in T /\ ")" \in T
    OBVIOUS
  <2>4. D \in Seq(T)
    <3>1. Len(D) \in Nat /\ D \in [1..Len(D) -> STRING]
      BY <2>1, LenProperties
    <3>2. D \in [1..Len(D) -> T]
      BY <3>1
    <3> QED BY <3>1, <3>2, SeqDef
  <2> QED BY <2>1, <2>2, <2>3, <2>4
<1>2. name = ((D \o <<"(">>) \o <<"COM", x>>) \o <<")">>
  BY DEF Windows!FriendlyName, Windows!Identifier
<1> HIDE DEF D, x, name, T
<1>3. /\ n \in Nat /\ DOMAIN D = 1..n
      /\ \A i \in 1..n : D[i] \in T /\ D[i] # "COM"
  BY <1>1, LenProperties, ElementOfSeq DEF Windows!Range
<1> HIDE DEF n
<1>4. /\ name \in Seq(T) /\ Len(name) = n + 4
      /\ \A i \in 1..n : name[i] = D[i]
      /\ name[n + 1] = "(" /\ name[n + 2] = "COM" /\ name[n + 3] = x /\ name[n + 4] = ")"
  <2> DEFINE a == D \o <<"(">>
             b == a \o <<"COM", x>>
  <2>1. <<"(">> \in Seq(T) /\ <<"COM", x>> \in Seq(T) /\ <<")">> \in Seq(T)
    BY <1>1
  <2>2. /\ a \in Seq(T) /\ Len(a) = n + 1
        /\ (\A i \in 1..n : a[i] = D[i]) /\ a[n + 1] = "("
    BY <1>1, <1>3, <2>1, ConcatProperties DEF n
  <2> HIDE DEF a
  <2>3. /\ b \in Seq(T) /\ Len(b) = n + 3
        /\ (\A i \in 1..n + 1 : b[i] = a[i]) /\ b[n + 2] = "COM" /\ b[n + 3] = x
    BY <1>3, <2>1, <2>2, ConcatProperties
  <2> HIDE DEF b
  <2>4. name = b \o <<")">>
    BY <1>2 DEF a, b
  <2>5. /\ name \in Seq(T) /\ Len(name) = n + 4
        /\ (\A i \in 1..n + 3 : name[i] = b[i]) /\ name[n + 4] = ")"
    BY <1>3, <2>1, <2>3, <2>4, ConcatProperties
  <2>6. \A i \in 1..n : i \in 1..n + 1 /\ i \in 1..n + 3
    BY <1>3
  <2>7. n + 1 \in 1..n + 1 /\ n + 1 \in 1..n + 3 /\ n + 2 \in 1..n + 3 /\ n + 3 \in 1..n + 3
    BY <1>3
  <2> QED BY <2>2, <2>3, <2>5, <2>6, <2>7
<1> DEFINE com == {i \in 1..Len(name) : name[i] = "COM"}
           paren == {j \in 1..Len(name) : name[j] = ")" /\ \E i \in com : i < j}
<1>5. com = {n + 2}
  <2>1. \A i \in 1..n + 4 : \/ i \in 1..n \/ i = n + 1 \/ i = n + 2 \/ i = n + 3 \/ i = n + 4
    BY <1>3
  <2>2. n + 2 \in 1..n + 4
    BY <1>3
  <2>3. \A i \in 1..n + 4 : name[i] = "COM" <=> i = n + 2
    BY <1>1, <1>3, <1>4, <2>1
  <2> QED BY <1>4, <2>2, <2>3
<1> HIDE DEF com
<1>6. paren = {n + 4}
  <2>1. \A j \in 1..n + 4 : n + 2 < j => j = n + 3 \/ j = n + 4
    BY <1>3
  <2>2. n + 4 \in 1..n + 4 /\ n + 2 < n + 4
    BY <1>3
  <2>3. \A j \in 1..n + 4 : name[j] = ")" /\ n + 2 < j <=> j = n + 4
    BY <1>1, <1>4, <2>1, <2>2
  <2> QED BY <1>4, <1>5, <2>2, <2>3
<1> HIDE DEF paren
<1>7. Windows!Min(com) = n + 2 /\ Windows!Min(paren) = n + 4
  <2>1. \A k \in Nat : Windows!Min({k}) = k
    BY DEF Windows!Min
  <2> QED BY <1>3, <1>5, <1>6, <2>1
<1>8. Windows!Extract(name) = SubSeq(name, n + 2, n + 3)
  <2> DEFINE from == Windows!Min(com)
             to == Windows!Min(paren) - 1
  <2>1. Windows!Extract(name) = SubSeq(name, from, to)
    BY <1>6 DEF Windows!Extract, com, paren
  <2>2. from = n + 2 /\ to = n + 3
    BY <1>3, <1>7
  <2> HIDE DEF from, to
  <2> QED BY <2>1, <2>2
<1>9. SubSeq(name, n + 2, n + 3) = <<"COM", x>>
  <2> DEFINE cut == SubSeq(name, n + 2, n + 3)
  <2>1. /\ n + 2 \in Int /\ n + 3 \in Int /\ n + 2 <= n + 3 /\ (n + 3) - (n + 2) + 1 = 2
        /\ (n + 2) + 1 - 1 = n + 2 /\ (n + 2) + 2 - 1 = n + 3
        /\ \A i \in n + 2 .. n + 3 : i = n + 2 \/ i = n + 3
    BY <1>3
  <2>2. \A i \in n + 2 .. n + 3 : name[i] \in T
    <3>1. name[n + 2] \in T /\ name[n + 3] \in T
      BY <1>1, <1>4
    <3> QED BY <2>1, <3>1
  <2>3. /\ cut \in Seq(T) /\ Len(cut) = 2
        /\ \A i \in 1..2 : cut[i] = name[(n + 2) + i - 1]
    BY <2>1, <2>2, SubSeqProperties
  <2> HIDE DEF cut
  <2>4. cut[1] = "COM" /\ cut[2] = x
    BY <1>4, <2>1, <2>3
  <2>5. <<"COM", x>> \in Seq(T) /\ Len(<<"COM", x>>) = 2
    BY <1>1
  <2>6. \A i \in 1..2 : cut[i] = <<"COM", x>>[i]
    BY <2>4
  <2>7. cut = <<"COM", x>>
    BY <2>3, <2>5, <2>6, SeqEqual
  <2> QED BY <2>7 DEF cut
<1> QED BY <1>8, <1>9 DEF name, x, Windows!Identifier

\* What is cut out of the name of each device.
Cut(d) == Windows!Extract(Windows!FriendlyName(d))
Cuts == {Cut(d) : d \in ComDevices}

\* m_scannerMutex is held over a call, and the variables have their types.
CallsInv ==
    /\ at \in [Callers -> {"out", "classDevs", "next", "extract"}]
    /\ \A c \in Callers : at[c] # "out" <=> holder = c
    /\ attached \in SUBSET ComDevices
    /\ entries \in [Callers -> SUBSET ComDevices]
    /\ current \in [Callers -> ComDevices \cup {Windows!NoDevice}]
    /\ ports \in [Callers -> Seq(Cuts)]
    /\ before \in [Callers -> SUBSET ComDevices]
    /\ altered \in [Callers -> SUBSET ComDevices]
    /\ failed \in [Callers -> BOOLEAN]

\* The devices whose names a call has still to list.
left(c) == entries[c] \cup (IF at[c] = "extract" THEN {current[c]} ELSE {})

\* The buffer holds the name that the call has asked for; a port is listed once, and
\* none is listed whose device is left.
NamesInv ==
    \A c \in Callers :
        /\ at[c] = "classDevs" => ports[c] = <<>>
        /\ at[c] = "extract" => /\ current[c] \in ComDevices \ entries[c]
                                /\ portName = Windows!FriendlyName(current[c])
        /\ \A i, j \in 1..Len(ports[c]) :
              ports[c][i] = ports[c][j] /\ ports[c][i] \notin Windows!Mistaken => i = j
        /\ at[c] \in {"next", "extract"} =>
              \A d \in left(c) \cap Windows!Plain, i \in 1..Len(ports[c]) :
                 ports[c][i] = Windows!Identifier(d) => ports[c][i] \in Windows!Mistaken

\* What is cut out is the device's own port, or one that it is mistaken for.
LEMMA CutProperties ==
    /\ \A d \in Windows!Plain : Cut(d) = Windows!Identifier(d) /\ Cut(d) # <<>>
    /\ \A d \in ComDevices \ Windows!Plain : Cut(d) \in Windows!Mistaken
    /\ Windows!Plain \subseteq ComDevices
    /\ \A d, e \in ComDevices : Windows!Identifier(d) = Windows!Identifier(e) => d = e
<1>1. \A d \in Windows!Plain : Cut(d) = Windows!Identifier(d) /\ Cut(d) # <<>>
  BY ExtractsPort DEF Cut, Windows!Identifier
<1>2. \A d \in ComDevices \ Windows!Plain : Cut(d) \in Windows!Mistaken
  BY DEF Cut, Windows!Mistaken
<1>3. Windows!Plain \subseteq ComDevices
  BY DEF Windows!Plain
<1>4. \A d, e \in ComDevices : Windows!Identifier(d) = Windows!Identifier(e) => d = e
  BY ComAssumption DEF Windows!Identifier
<1> QED BY <1>1, <1>2, <1>3, <1>4

\* Only the caller that holds the mutex takes a step in a call.
LEMMA CallTakesLock ==
    ASSUME CallsInv, NEW c \in Callers, Windows!getAvailableSerialPorts(c)
    PROVE  \A b \in Callers \ {c} : at[b] = "out" /\ at'[b] = "out"
<1> USE ComAssumption
    DEF CallsInv, Windows!Call, Windows!GetClassDevs, Windows!ClassDevsFail,
        Windows!Query, Windows!ExtractPort, Windows!Return, Windows!End, Windows!Move,
        Windows!LockScanner
<1> QED BY DEF Windows!getAvailableSerialPorts

\* What a call cuts out of the buffer is of the device in hand; a port is listed unless
\* there is none.
LEMMA ExtractAppends ==
    ASSUME NamesInv, NEW c \in Callers, Windows!ExtractPort(c)
    PROVE  /\ at[c] = "extract" /\ at' = [at EXCEPT ![c] = "next"] /\ entries' = entries
           /\ current[c] \in ComDevices \ entries[c]
           /\ \/ ports' = [ports EXCEPT ![c] = Append(ports[c], Cut(current[c]))]
              \/ ports' = ports /\ current[c] \notin Windows!Plain
<1> DEFINE device == current[c]
<1>1. at[c] = "extract" /\ at' = [at EXCEPT ![c] = "next"] /\ entries' = entries
  BY DEF Windows!ExtractPort, Windows!Move
<1>2. device \in ComDevices \ entries[c] /\ portName = Windows!FriendlyName(device)
  BY <1>1 DEF NamesInv
<1>3. Windows!Extract(portName) = Cut(device)
  BY <1>2 DEF Cut
<1> HIDE DEF device
<1>4. ports' = IF Cut(device) = <<>> THEN ports
               ELSE [ports EXCEPT ![c] = Append(ports[c], Cut(device))]
  BY <1>3 DEF Windows!ExtractPort
<1>5. device \in Windows!Plain => Cut(device) # <<>>
  BY CutProperties
<1> QED BY <1>1, <1>2, <1>4, <1>5 DEF device

\* A query takes a device, which then is in hand, or is one that may be missing.
LEMMA QueryTakes ==
    ASSUME CallsInv, NEW c \in Callers, Windows!Query(c)
    PROVE  /\ at[c] = "next" /\ UNCHANGED <<attached, holder, ports, before, failed>>
           /\ \E device \in entries[c] :
                 /\ entries' = [entries EXCEPT ![c] = entries[c] \ {device}]
                 /\ \/ /\ at' = [at EXCEPT ![c] = "extract"] /\ altered' = altered
                       /\ current' = [current EXCEPT ![c] = device]
                       /\ portName' = Windows!FriendlyName(device)
                    \/ /\ altered' = [altered EXCEPT ![c] = altered[c] \cup {device}]
                       /\ UNCHANGED <<at, current, portName>>
  BY DEF Windows!Query, Windows!Move

\* A call keeps the types and the mutex.
LEMMA CallKeepsTypes ==
    ASSUME CallsInv, NamesInv, NEW c \in Callers, Windows!getAvailableSerialPorts(c)
    PROVE  CallsInv'
<1> USE ComAssumption DEF CallsInv, Windows!Move, Windows!history
<1>1. CASE Windows!Call(c)
  <2>1. <<>> \in Seq(Cuts)
    BY EmptySeq
  <2> QED BY <1>1, <2>1 DEF Windows!Call, Windows!LockScanner
<1>2. CASE Windows!GetClassDevs(c)
  BY <1>2 DEF Windows!GetClassDevs
<1>3. ASSUME NEW from, NEW failure \in BOOLEAN, Windows!End(c, from, failure)
      PROVE  CallsInv'
  BY <1>3 DEF Windows!End, Windows!UnlockScanner
<1>4. CASE Windows!Query(c)
  <2>1. PICK device \in entries[c] :
           /\ entries' = [entries EXCEPT ![c] = entries[c] \ {device}]
           /\ \/ /\ at' = [at EXCEPT ![c] = "extract"] /\ altered' = altered
                 /\ current' = [current EXCEPT ![c] = device]
              \/ /\ altered' = [altered EXCEPT ![c] = altered[c] \cup {device}]
                 /\ UNCHANGED <<at, current>>
    BY <1>4, QueryTakes
  <2>2. at[c] = "next" /\ UNCHANGED <<attached, holder, ports, before, failed>>
    BY <1>4, QueryTakes
  <2>3. /\ entries[c] \ {device} \in SUBSET ComDevices /\ device \in ComDevices
        /\ altered[c] \cup {device} \in SUBSET ComDevices
    OBVIOUS
  <2>4. entries' \in [Callers -> SUBSET ComDevices]
    BY <2>1, <2>3
  <2>5. current' \in [Callers -> ComDevices \cup {Windows!NoDevice}]
    BY <2>1, <2>3
  <2>6. altered' \in [Callers -> SUBSET ComDevices]
    BY <2>1, <2>3
  <2>7. /\ at' \in [Callers -> {"out", "classDevs", "next", "extract"}]
        /\ \A b \in Callers : at'[b] # "out" <=> at[b] # "out"
    BY <2>1, <2>2
  <2> QED BY <2>2, <2>4, <2>5, <2>6, <2>7
<1>5. CASE Windows!ExtractPort(c)
  <2>1. /\ at[c] = "extract" /\ current[c] \in ComDevices
        /\ \/ ports' = [ports EXCEPT ![c] = Append(ports[c], Cut(current[c]))]
           \/ ports' = ports
    BY <1>5, ExtractAppends
  <2>2. Append(ports[c], Cut(current[c])) \in Seq(Cuts)
    <3>1. Cut(current[c]) \in Cuts
      BY <2>1 DEF Cuts
    <3> QED BY <3>1, AppendProperties
  <2>3. ports' \in [Callers -> Seq(Cuts)]
    BY <2>1, <2>2
  <2> QED BY <1>5, <2>3 DEF Windows!ExtractPort
<1> QED BY <1>1, <1>2, <1>3, <1>4, <1>5
        DEF Windows!getAvailableSerialPorts, Windows!ClassDevsFail, Windows!Return

\* A call lists each port once, with the buffer to itself.
LEMMA CallKeepsNames ==
    ASSUME CallsInv, NamesInv, NEW c \in Callers, Windows!getAvailableSerialPorts(c)
    PROVE  NamesInv'
<1> USE ComAssumption DEF Windows!Move, Windows!history
<1>0. \A b \in Callers \ {c} : at[b] = "out" /\ at'[b] = "out"
  BY CallTakesLock
<1>1. CASE Windows!Call(c)
  BY <1>0, <1>1 DEF Windows!Call, CallsInv, NamesInv, left
<1>2. CASE Windows!GetClassDevs(c)
  BY <1>0, <1>2 DEF Windows!GetClassDevs, CallsInv, NamesInv, left
<1>3. ASSUME NEW from, NEW failure \in BOOLEAN, Windows!End(c, from, failure)
      PROVE  NamesInv'
  BY <1>0, <1>3 DEF Windows!End, CallsInv, NamesInv, left
<1>4. CASE Windows!Query(c)
  <2>1. PICK device \in entries[c] :
           /\ entries' = [entries EXCEPT ![c] = entries[c] \ {device}]
           /\ \/ /\ at' = [at EXCEPT ![c] = "extract"]
                 /\ current' = [current EXCEPT ![c] = device]
                 /\ portName' = Windows!FriendlyName(device)
              \/ UNCHANGED <<at, current, portName>>
    BY <1>4, QueryTakes
  <2>2. at[c] = "next" /\ ports' = ports
    BY <1>4, QueryTakes
  <2>3. left(c)' \subseteq left(c)
    BY <2>1, <2>2 DEF CallsInv, left
  <2>4. at'[c] = "extract" => /\ current'[c] \in ComDevices \ entries'[c]
                              /\ portName' = Windows!FriendlyName(current'[c])
    BY <2>1, <2>2 DEF CallsInv
  <2>5. at'[c] \in {"next", "extract"}
    BY <2>1, <2>2 DEF CallsInv
  <2> QED BY <1>0, <2>2, <2>3, <2>4, <2>5 DEF NamesInv
<1>5. CASE Windows!ExtractPort(c)
  <2> DEFINE device == current[c]
             n == Len(ports[c])
             e == Cut(device)
  <2>1. /\ at[c] = "extract" /\ at' = [at EXCEPT ![c] = "next"] /\ entries' = entries
        /\ device \in ComDevices \ entries[c]
        /\ \/ ports' = [ports EXCEPT ![c] = Append(ports[c], e)]
           \/ ports' = ports
    BY <1>5, ExtractAppends
  <2>2. n \in Nat /\ ports[c] \in Seq(Cuts) /\ e \in Cuts
    BY <2>1, LenProperties DEF CallsInv, Cuts
  <2>3. at'[c] = "next" /\ left(c)' = entries[c] /\ left(c) = entries[c] \cup {device}
    BY <2>1 DEF CallsInv, left
  <2>4. /\ \A i, j \in 1..n :
              ports[c][i] = ports[c][j] /\ ports[c][i] \notin Windows!Mistaken => i = j
        /\ \A d \in left(c) \cap Windows!Plain, i \in 1..n :
              ports[c][i] = Windows!Identifier(d) => ports[c][i] \in Windows!Mistaken
    BY <2>1 DEF NamesInv
  <2>5. e \notin Windows!Mistaken => device \in Windows!Plain /\ e = Windows!Identifier(device)
    BY <2>1, CutProperties
  <2> HIDE DEF n, e, device
  <2>6. CASE ports' = ports
    BY <1>0, <2>1, <2>3, <2>4, <2>6 DEF NamesInv, n
  <2>7. CASE ports' = [ports EXCEPT ![c] = Append(ports[c], e)]
    <3>1. /\ Len(ports'[c]) = n + 1 /\ ports'[c][n + 1] = e
          /\ \A i \in 1..n : ports'[c][i] = ports[c][i]
      <4>1. ports'[c] = Append(ports[c], e)
        BY <2>7 DEF CallsInv
      <4> QED BY <2>2, <4>1, AppendProperties DEF n
    <3>2. \A i \in 1..n + 1 : i \in 1..n \/ i = n + 1
      BY <2>2
    <3>3. \A i \in 1..n : ports[c][i] = e => e \in Windows!Mistaken
      BY <2>3, <2>4, <2>5
    <3>4. \A i, j \in 1..n + 1 :
             ports'[c][i] = ports'[c][j] /\ ports'[c][i] \notin Windows!Mistaken => i = j
      BY <2>4, <3>1, <3>2, <3>3
    <3>5. \A d \in entries[c] \cap Windows!Plain :
             e = Windows!Identifier(d) => e \in Windows!Mistaken
      <4>1. entries[c] \subseteq ComDevices
        BY DEF CallsInv
      <4> QED BY <2>1, <2>5, <4>1, CutProperties
    <3>6. \A d \in entries[c] \cap Windows!Plain, i \in 1..n + 1 :
             ports'[c][i] = Windows!Identifier(d) => ports'[c][i] \in Windows!Mistaken
      BY <2>3, <2>4, <3>1, <3>2, <3>5
    <3>7. \A b \in Callers \ {c} : ports'[b] = ports[b]
      BY <2>7 DEF CallsInv
    <3> QED BY <1>0, <2>3, <3>1, <3>4, <3>6, <3>7 DEF NamesInv
  <2> QED BY <2>1, <2>6, <2>7
<1> QED BY <1>1, <1>2, <1>3, <1>4, <1>5
        DEF Windows!getAvailableSerialPorts, Windows!ClassDevsFail, Windows!Return

\* A device that comes or goes only changes the history of the calls.
LEMMA DevicesKeepNames ==
    ASSUME CallsInv, NamesInv, Windows!DeviceChanges PROVE CallsInv' /\ NamesInv'
<1>1. UNCHANGED <<at, holder, portName, entries, current, ports, before, failed>>
  BY DEF Windows!DeviceChanges
<1>2. attached' \in SUBSET ComDevices /\ altered' \in [Callers -> SUBSET ComDevices]
  BY DEF CallsInv, Windows!DeviceChanges
<1> QED BY <1>1, <1>2 DEF CallsInv, NamesInv, left

\* So the two hold of every build for Windows.
LEMMA WindowsInvariant == ScanSpec => [](windows => CallsInv /\ NamesInv)
<1>1. ScanInit => (windows => CallsInv /\ NamesInv)
  <2> SUFFICES ASSUME Windows!Init PROVE CallsInv /\ NamesInv
    BY DEF ScanInit, windows, linux
  <2>1. <<>> \in Seq(Cuts) /\ 1..Len(<<>>) = {}
    BY EmptySeq
  <2> QED BY <2>1, ComAssumption DEF Windows!Init, CallsInv, NamesInv, left
<1>2. (windows => CallsInv /\ NamesInv) /\ [ScanNext]_scanVars
         => (windows => CallsInv /\ NamesInv)'
  <2> SUFFICES ASSUME windows, CallsInv, NamesInv, [ScanNext]_scanVars
               PROVE  CallsInv' /\ NamesInv'
    BY DEF ScanNext, scanVars, windows
  <2>1. CASE UNCHANGED scanVars
    BY <2>1 DEF scanVars, CallsInv, NamesInv, left
  <2>2. CASE Windows!Next
    BY <2>2, CallKeepsTypes, CallKeepsNames, DevicesKeepNames DEF Windows!Next
  <2> QED BY <2>1, <2>2 DEF ScanNext, windows, linux
<1> QED BY <1>1, <1>2, PTL DEF ScanSpec

\* On Windows, for any number of callers and devices, a call finds in the scanner's one
\* buffer the name that it has asked for, and lists no port twice.
THEOREM BufferIsOwn == ScanSpec => []OwnNames
<1>1. (windows => CallsInv /\ NamesInv) => OwnNames
  BY DEF OwnNames, NamesInv, Windows!OwnNames
<1> QED BY <1>1, WindowsInvariant, PTL

-----------------------------------------------------------------------------
(* The promise of the Windows scanner.                                      *)

\* What a call has found so far, as in UdevCount.
ComCount(c) ==
    /\ left(c) \subseteq before[c] \cup altered[c]
    /\ Range(ports[c]) \ Windows!Mistaken \subseteq Windows!PortsOf(before[c] \cup altered[c])
    /\ Windows!PortsOf((before[c] \ altered[c]) \ left(c)) \subseteq Range(ports[c])

CensusInv ==
    \A c \in Callers :
        /\ at[c] = "out" => before[c] = {} /\ altered[c] = {}
        /\ at[c] \in {"next", "extract"} => ComCount(c)

ComInv == CallsInv /\ NamesInv /\ CensusInv

\* What PortsOf() is of a union, and of a single device.
LEMMA PortsUnion ==
    /\ \A D, E : Windows!PortsOf(D \cup E) = Windows!PortsOf(D) \cup Windows!PortsOf(E)
    /\ \A D, E : D \subseteq E => Windows!PortsOf(D) \subseteq Windows!PortsOf(E)
    /\ \A d : Windows!PortsOf({d})
                 = IF d \in Windows!Plain /\ Windows!Identifier(d) \notin Windows!Mistaken
                   THEN {Windows!Identifier(d)} ELSE {}
    /\ Windows!PortsOf({}) = {}
  BY DEF Windows!PortsOf

\* The count of a call stays right if the devices that are no longer left have changed,
\* or are those whose ports were added to the list.
LEMMA CensusKept ==
    ASSUME NEW c \in Callers, ComCount(c), before'[c] = before[c],
           altered[c] \subseteq altered'[c], left(c)' \subseteq left(c),
           NEW N, Range(ports'[c]) = Range(ports[c]) \cup N,
           N \ Windows!Mistaken \subseteq Windows!PortsOf(left(c)),
           Windows!PortsOf((left(c) \ left(c)') \ altered'[c]) \subseteq N
    PROVE  ComCount(c)'
<1> DEFINE PO(D) == Windows!PortsOf(D)
           M == Windows!Mistaken
           A == before[c] \cup altered[c]
           B == before[c] \cup altered'[c]
           P == left(c)
           Q == left(c)'
<1>0. /\ P \subseteq A /\ A \subseteq B /\ Q \subseteq P
      /\ Range(ports[c]) \ M \subseteq PO(A)
      /\ PO((before[c] \ altered[c]) \ P) \subseteq Range(ports[c])
      /\ N \ M \subseteq PO(P) /\ PO((P \ Q) \ altered'[c]) \subseteq N
  BY DEF ComCount
<1>1. (before[c] \ altered'[c]) \ Q
         \subseteq ((before[c] \ altered[c]) \ P) \cup ((P \ Q) \ altered'[c])
  OBVIOUS
<1>2. PO(P) \subseteq PO(B) /\ PO(A) \subseteq PO(B)
  <2> HIDE DEF P, Q, A, B
  <2> QED BY <1>0, PortsUnion
<1>3. PO((before[c] \ altered'[c]) \ Q)
         \subseteq PO((before[c] \ altered[c]) \ P) \cup PO((P \ Q) \ altered'[c])
  BY <1>1 DEF Windows!PortsOf
<1> HIDE DEF PO, M, A, B, P, Q
<1>4. Q \subseteq B /\ Range(ports'[c]) \ M \subseteq PO(B)
  BY <1>0, <1>2
<1>5. PO((before[c] \ altered'[c]) \ Q) \subseteq Range(ports'[c])
  BY <1>0, <1>3
<1> QED BY <1>4, <1>5 DEF ComCount, PO, M, B, Q

\* A call counts the devices right.
LEMMA CallKeepsCensus ==
    ASSUME ComInv, NEW c \in Callers, Windows!getAvailableSerialPorts(c)
    PROVE  CensusInv'
<1> USE DEF Windows!Move, Windows!history
<1>0. /\ CallsInv /\ NamesInv /\ CensusInv
      /\ \A b \in Callers \ {c} : at[b] = "out" /\ at'[b] = "out"
  BY CallTakesLock DEF ComInv
<1>1. CASE Windows!Call(c)
  BY <1>0, <1>1 DEF Windows!Call, CallsInv, CensusInv
<1>2. CASE Windows!GetClassDevs(c)
  <2>1. /\ at[c] = "classDevs" /\ at' = [at EXCEPT ![c] = "next"] /\ ports[c] = <<>>
        /\ UNCHANGED <<attached, current, ports, before, altered>>
    BY <1>0, <1>2 DEF Windows!GetClassDevs, NamesInv
  <2>2. PICK unsure \in SUBSET altered[c] :
           entries' = [entries EXCEPT ![c] = (before[c] \ altered[c]) \cup unsure]
    BY <1>2 DEF Windows!GetClassDevs
  <2>3. left(c)' = (before[c] \ altered[c]) \cup unsure
    BY <1>0, <2>1, <2>2 DEF CallsInv, left
  <2>4. Range(ports[c]) = {}
    BY <2>1 DEF Range
  <2>5. (before[c] \ altered[c]) \ left(c)' = {}
    BY <2>3
  <2>6. ComCount(c)'
    BY <2>1, <2>3, <2>4, <2>5, PortsUnion DEF ComCount
  <2> QED BY <1>0, <2>1, <2>6 DEF CallsInv, CensusInv
<1>3. ASSUME NEW from, NEW failure, Windows!End(c, from, failure)
      PROVE  CensusInv'
  BY <1>0, <1>3 DEF Windows!End, CallsInv, CensusInv
<1>4. CASE Windows!Query(c)
  <2>1. at[c] = "next" /\ UNCHANGED <<attached, ports, before>>
    BY <1>4, QueryTakes, <1>0
  <2>2. PICK device \in entries[c] :
           /\ entries' = [entries EXCEPT ![c] = entries[c] \ {device}]
           /\ \/ /\ at' = [at EXCEPT ![c] = "extract"] /\ altered' = altered
                 /\ current' = [current EXCEPT ![c] = device]
              \/ /\ altered' = [altered EXCEPT ![c] = altered[c] \cup {device}]
                 /\ UNCHANGED <<at, current>>
    BY <1>4, QueryTakes, <1>0
  <2>3. left(c) = entries[c] /\ ComCount(c)
    BY <1>0, <2>1 DEF CensusInv, left
  <2>4. /\ altered[c] \subseteq altered'[c] /\ left(c)' \subseteq left(c)
        /\ (left(c) \ left(c)') \ altered'[c] = {}
    <3>1. CASE /\ at' = [at EXCEPT ![c] = "extract"] /\ altered' = altered
               /\ current' = [current EXCEPT ![c] = device]
      <4>1. left(c)' = left(c)
        BY <1>0, <2>2, <2>3, <3>1 DEF CallsInv, left
      <4> QED BY <3>1, <4>1
    <3>2. CASE /\ altered' = [altered EXCEPT ![c] = altered[c] \cup {device}]
               /\ UNCHANGED <<at, current>>
      <4>1. left(c)' = left(c) \ {device} /\ altered'[c] = altered[c] \cup {device}
        BY <1>0, <2>1, <2>2, <2>3, <3>2 DEF CallsInv, left
      <4> QED BY <4>1
    <3> QED BY <2>2, <3>1, <3>2
  <2>5. ComCount(c)'
    <3>1. Windows!PortsOf((left(c) \ left(c)') \ altered'[c]) \subseteq {}
      BY <2>4, PortsUnion
    <3> QED BY <2>1, <2>3, <2>4, <3>1, CensusKept
  <2>6. at'[c] \in {"next", "extract"}
    BY <1>0, <2>1, <2>2 DEF CallsInv
  <2>7. \A b \in Callers \ {c} : altered'[b] = altered[b]
    BY <1>0, <2>2 DEF CallsInv
  <2> QED BY <1>0, <2>1, <2>5, <2>6, <2>7 DEF CensusInv
<1>5. CASE Windows!ExtractPort(c)
  <2> DEFINE device == current[c]
             e == Cut(device)
  <2>1. /\ at[c] = "extract" /\ at' = [at EXCEPT ![c] = "next"] /\ entries' = entries
        /\ device \in ComDevices
        /\ \/ ports' = [ports EXCEPT ![c] = Append(ports[c], e)]
           \/ ports' = ports /\ device \notin Windows!Plain
    BY <1>0, <1>5, ExtractAppends
  <2>2. UNCHANGED <<attached, before, altered>>
    BY <1>5 DEF Windows!ExtractPort
  <2>3. left(c) = left(c)' \cup {device} /\ at'[c] = "next" /\ ComCount(c)
    BY <1>0, <2>1 DEF CallsInv, CensusInv, left
  <2> HIDE DEF device, e
  <2>4. PICK L : /\ Range(ports'[c]) = Range(ports[c]) \cup L
                 /\ L = {e} \/ (L = {} /\ device \notin Windows!Plain)
    <3>1. CASE ports' = [ports EXCEPT ![c] = Append(ports[c], e)]
      <4>1. ports[c] \in Seq(Cuts) /\ e \in Cuts /\ ports'[c] = Append(ports[c], e)
        BY <1>0, <2>1, <3>1 DEF CallsInv, Cuts, e
      <4>2. Range(ports'[c]) = Range(ports[c]) \cup {e}
        BY <4>1, AppendRange
      <4> QED BY <4>2
    <3>2. CASE ports' = ports /\ device \notin Windows!Plain
      BY <3>2
    <3> QED BY <2>1, <3>1, <3>2
  <2>5. /\ L \ Windows!Mistaken \subseteq Windows!PortsOf({device})
        /\ Windows!PortsOf({device}) \subseteq L
    <3>1. CASE device \in Windows!Plain
      <4>1. L = {Windows!Identifier(device)}
        BY <2>4, <3>1, CutProperties DEF e
      <4> QED BY <3>1, <4>1, PortsUnion
    <3>2. CASE device \notin Windows!Plain
      <4>1. e \in Windows!Mistaken
        BY <2>1, <3>2, CutProperties DEF e
      <4> QED BY <2>4, <3>2, <4>1, PortsUnion
    <3> QED BY <3>1, <3>2
  <2>6. ComCount(c)'
    <3>1. Windows!PortsOf({device}) \subseteq Windows!PortsOf(left(c))
      BY <2>3, PortsUnion
    <3>2. Windows!PortsOf((left(c) \ left(c)') \ altered'[c])
             \subseteq Windows!PortsOf({device})
      <4>1. (left(c) \ left(c)') \ altered'[c] \subseteq {device}
        BY <2>3
      <4> QED BY <4>1, PortsUnion
    <3>3. altered[c] \subseteq altered'[c] /\ left(c)' \subseteq left(c)
      BY <2>2, <2>3
    <3> QED BY <2>2, <2>3, <2>4, <2>5, <3>1, <3>2, <3>3, CensusKept
  <2> QED BY <1>0, <2>2, <2>3, <2>6 DEF CensusInv
<1> QED BY <1>1, <1>2, <1>3, <1>4, <1>5
        DEF Windows!getAvailableSerialPorts, Windows!ClassDevsFail, Windows!Return

\* A device that comes or goes is one that a call may miss or find.
LEMMA DevicesKeepCensus == ASSUME ComInv, Windows!DeviceChanges PROVE CensusInv'
<1>1. PICK device \in ComDevices :
         altered' = [c \in Callers |->
                        IF at[c] = "out" THEN {} ELSE altered[c] \cup {device}]
  BY DEF Windows!DeviceChanges
<1>2. UNCHANGED <<at, entries, current, ports, before>>
  BY DEF Windows!DeviceChanges
<1> SUFFICES ASSUME NEW c \in Callers
             PROVE /\ at[c] = "out" => before[c] = {} /\ altered'[c] = {}
                   /\ at[c] \in {"next", "extract"} => ComCount(c)'
  BY <1>2 DEF CensusInv
<1>3. at[c] = "out" => before[c] = {} /\ altered'[c] = {}
  BY <1>1 DEF ComInv, CensusInv
<1>4. CASE at[c] \in {"next", "extract"}
  <2>1. ComCount(c) /\ altered[c] \subseteq altered'[c] /\ left(c)' = left(c)
    BY <1>1, <1>2, <1>4 DEF ComInv, CensusInv, left
  <2>2. Windows!PortsOf((left(c) \ left(c)') \ altered'[c]) \subseteq {}
    <3>1. (left(c) \ left(c)') \ altered'[c] = {}
      BY <2>1
    <3> QED BY <3>1, PortsUnion
  <2>3. ComCount(c)'
    BY <1>2, <2>1, <2>2, CensusKept
  <2> QED BY <1>4, <2>3
<1> QED BY <1>3, <1>4

\* So it counts right in every build for Windows.
LEMMA ComInvariant == ScanSpec => [](windows => ComInv)
<1>1. ScanInit => (windows => CensusInv)
  BY DEF ScanInit, windows, linux, Windows!Init, CensusInv
<1>2. (windows => CallsInv /\ NamesInv) /\ (windows => CensusInv) /\ [ScanNext]_scanVars
         => (windows => CensusInv)'
  <2> SUFFICES ASSUME windows, ComInv, [ScanNext]_scanVars PROVE CensusInv'
    BY DEF ScanNext, scanVars, windows, ComInv
  <2>1. CASE UNCHANGED scanVars
    BY <2>1 DEF scanVars, ComInv, CensusInv, ComCount, left
  <2>2. CASE \E c \in Callers : Windows!getAvailableSerialPorts(c)
    BY <2>2, CallKeepsCensus
  <2>3. CASE Windows!DeviceChanges
    BY <2>3, DevicesKeepCensus
  <2> QED BY <2>1, <2>2, <2>3 DEF ScanNext, windows, linux, Windows!Next
<1>3. (windows => CallsInv /\ NamesInv) /\ (windows => CensusInv) => (windows => ComInv)
  BY DEF ComInv
<1> QED BY <1>1, <1>2, <1>3, WindowsInvariant, PTL DEF ScanSpec

\* If Windows has no answer for a device, then the port that may be missing is its own.
LEMMA PortRefused ==
    ASSUME NEW c \in Callers, at[c] # "out", at'[c] # "out",
           left(c) \subseteq before[c] \cup altered[c],
           NEW device \in left(c), altered'[c] = altered[c] \cup {device},
           attached' = attached, before'[c] = before[c], failed'[c] = failed[c]
    PROVE  [Windows!Scanner(c)!Next]_(Windows!Scanner(c)!vars)
<1> DEFINE PO(D) == Windows!PortsOf(D)
           x == Windows!Identifier(device)
<1>1. PO(altered'[c]) = PO(altered[c]) \cup PO({device})
  BY PortsUnion
<1>2. Windows!Returned(c) = {} /\ Windows!Returned(c)' = {}
  BY DEF Windows!Returned
<1>3. CASE PO({device}) \subseteq PO(altered[c])
  <2>1. PO(altered'[c]) = PO(altered[c])
    BY <1>1, <1>3
  <2> QED BY <1>2, <2>1 DEF Windows!Scanner!vars
<1>4. CASE ~(PO({device}) \subseteq PO(altered[c]))
  <2>1. device \in before[c]
    <3>1. device \in altered[c] => PO({device}) \subseteq PO(altered[c])
      BY DEF Windows!PortsOf
    <3> QED BY <1>4, <3>1
  <2>2. PO({device}) = {x}
    BY <1>4, PortsUnion
  <2>3. x \in PO(before[c])
    <3>1. PO({device}) \subseteq PO(before[c])
      BY <2>1 DEF Windows!PortsOf
    <3> QED BY <2>2, <3>1
  <2> HIDE DEF PO, x
  <2>4. PO(altered'[c]) = PO(altered[c]) \cup {x}
    BY <1>1, <2>2
  <2> QED BY <1>2, <2>3, <2>4 DEF PO, Windows!Scanner!Next, Windows!Scanner!Refuse
<1> QED BY <1>3, <1>4

\* A step of one caller is one that PortScanner allows it, and is none to the others.
LEMMA CallKeepsPromise ==
    ASSUME ComInv, NEW c \in Callers, Windows!getAvailableSerialPorts(c)
    PROVE  Windows!ScannerStep
<1> USE DEF Windows!Move, Windows!history
<1>0. /\ CallsInv /\ NamesInv /\ CensusInv
      /\ \A b \in Callers \ {c} : at[b] = "out" /\ at'[b] = "out"
  BY CallTakesLock DEF ComInv
<1>1. \A b \in Callers \ {c} : UNCHANGED Windows!Scanner(b)!vars
  <2> SUFFICES ASSUME NEW b \in Callers \ {c}
               PROVE  UNCHANGED Windows!Scanner(b)!vars
    OBVIOUS
  <2>1. /\ ports'[b] = ports[b] /\ before'[b] = before[b] /\ altered'[b] = altered[b]
        /\ failed'[b] = failed[b] /\ attached' = attached
    BY <1>0 DEF CallsInv, Windows!getAvailableSerialPorts, Windows!Call,
                Windows!GetClassDevs, Windows!ClassDevsFail, Windows!Query,
                Windows!ExtractPort, Windows!Return, Windows!End
  <2> QED BY <1>0, <2>1 DEF Windows!Scanner!vars, Windows!Returned
<1>2. [Windows!Scanner(c)!Next]_(Windows!Scanner(c)!vars)
  <2>1. Windows!Range(<<>>) = {} /\ Windows!PortsOf({}) = {}
    BY PortsUnion DEF Windows!Range
  <2>2. CASE Windows!Call(c)
    <3>1. /\ at[c] = "out" /\ at'[c] = "classDevs" /\ ports'[c] = <<>>
          /\ before'[c] = attached /\ failed'[c] = FALSE /\ attached' = attached
          /\ altered'[c] = {}
      BY <1>0, <2>2 DEF Windows!Call, CallsInv, CensusInv
    <3> QED BY <2>1, <3>1 DEF Windows!Scanner!Next, Windows!Scanner!Begin,
                              Windows!Returned
  <2>3. CASE Windows!ClassDevsFail(c)
    <3>1. /\ at[c] = "classDevs" /\ at'[c] = "out" /\ ports[c] = <<>> /\ ports' = ports
          /\ before'[c] = {} /\ altered'[c] = {} /\ failed'[c] = TRUE
          /\ attached' = attached
      BY <1>0, <2>3 DEF Windows!ClassDevsFail, Windows!End, CallsInv, NamesInv
    <3> QED BY <2>1, <3>1 DEF Windows!Scanner!Next, Windows!Scanner!Return,
                              Windows!Returned
  <2>4. CASE Windows!Return(c)
    <3>1. /\ at[c] = "next" /\ entries[c] = {} /\ at'[c] = "out" /\ ports' = ports
          /\ before'[c] = {} /\ altered'[c] = {} /\ failed'[c] = FALSE
          /\ attached' = attached
      BY <1>0, <2>4 DEF Windows!Return, Windows!End, CallsInv
    <3> DEFINE M == Windows!Mistaken
               F == Range(ports[c]) \ M
               A == Windows!PortsOf(before[c])
               B == Windows!PortsOf(altered[c])
    <3>2. F \in Windows!Scanner(c)!Found
      <4>1. (before[c] \ altered[c]) \ left(c) = before[c] \ altered[c]
        BY <3>1 DEF left
      <4>2. /\ A \ B \subseteq Windows!PortsOf(before[c] \ altered[c])
            /\ Windows!PortsOf(before[c] \cup altered[c]) = A \cup B
            /\ A \cap M = {}
        BY DEF Windows!PortsOf
      <4>3. /\ F \subseteq Windows!PortsOf(before[c] \cup altered[c])
            /\ Windows!PortsOf(before[c] \ altered[c]) \subseteq Range(ports[c])
        BY <1>0, <3>1, <4>1 DEF CensusInv, ComCount
      <4> HIDE DEF A, B, M
      <4>4. F \subseteq A \cup B /\ A \ B \subseteq F
        BY <4>2, <4>3
      <4> HIDE DEF F
      <4>5. F = (A \ B) \cup (F \cap B)
        BY <4>4
      <4> QED BY <4>5 DEF Windows!Scanner!Found, A, B
    <3>3. Windows!Returned(c)' = F /\ Windows!Returned(c) = {}
      <4>1. Windows!Range(ports[c]) = Range(ports[c])
        BY DEF Windows!Range, Range
      <4> QED BY <3>1, <4>1 DEF Windows!Returned
    <3> HIDE DEF F
    <3> QED BY <2>1, <3>1, <3>2, <3>3
            DEF Windows!Scanner!Next, Windows!Scanner!Return
  <2>5. CASE Windows!GetClassDevs(c) \/ Windows!ExtractPort(c)
    <3>1. at[c] # "out" /\ at'[c] # "out"
      BY <1>0, <2>5 DEF Windows!GetClassDevs, Windows!ExtractPort, CallsInv
    <3>2. UNCHANGED <<attached, before, altered, failed>>
      BY <2>5 DEF Windows!GetClassDevs, Windows!ExtractPort
    <3> QED BY <3>1, <3>2 DEF Windows!Scanner!vars, Windows!Returned
  <2>6. CASE Windows!Query(c)
    <3>1. at[c] = "next" /\ UNCHANGED <<attached, before, failed>>
      BY <1>0, <2>6, QueryTakes
    <3>2. PICK device \in entries[c] :
             \/ at' = [at EXCEPT ![c] = "extract"] /\ altered' = altered
             \/ altered' = [altered EXCEPT ![c] = altered[c] \cup {device}] /\ at' = at
      BY <1>0, <2>6, QueryTakes
    <3>3. at'[c] # "out"
      BY <1>0, <3>1, <3>2 DEF CallsInv
    <3>4. CASE altered' = altered
      BY <3>1, <3>3, <3>4 DEF Windows!Scanner!vars, Windows!Returned
    <3>5. CASE altered' = [altered EXCEPT ![c] = altered[c] \cup {device}]
      <4>1. altered'[c] = altered[c] \cup {device}
        BY <1>0, <3>5 DEF CallsInv
      <4>2. device \in left(c) /\ left(c) \subseteq before[c] \cup altered[c]
        BY <1>0, <3>1 DEF left, CensusInv, ComCount
      <4> QED BY <3>1, <3>3, <4>1, <4>2, PortRefused
    <3> QED BY <3>2, <3>4, <3>5
  <2> QED BY <2>2, <2>3, <2>4, <2>5, <2>6 DEF Windows!getAvailableSerialPorts
<1> QED BY <1>1, <1>2 DEF Windows!ScannerStep

\* A device that comes or goes changes the ports by its own, and by no other.
LEMMA DevicesKeepPromise ==
    ASSUME ComInv, Windows!DeviceChanges PROVE Windows!ScannerStep
<1> SUFFICES ASSUME NEW c \in Callers
             PROVE  [Windows!Scanner(c)!Change]_(Windows!Scanner(c)!vars)
  BY DEF Windows!ScannerStep, Windows!Scanner!Next
<1> DEFINE PO(D) == Windows!PortsOf(D)
<1>1. PICK device \in ComDevices :
         /\ attached' = IF device \in attached THEN attached \ {device}
                        ELSE attached \cup {device}
         /\ altered' = [b \in Callers |->
                           IF at[b] = "out" THEN {} ELSE altered[b] \cup {device}]
  BY DEF Windows!DeviceChanges
<1>2. UNCHANGED <<at, ports, before, failed>>
  BY DEF Windows!DeviceChanges
<1>3. /\ attached \in SUBSET ComDevices
      /\ at[c] = "out" => altered[c] = {}
  BY DEF ComInv, CallsInv, CensusInv
<1>4. PO(altered'[c]) = IF at[c] # "out" THEN PO(altered[c]) \cup PO({device})
                        ELSE PO(altered[c])
  <2>1. altered'[c] = IF at[c] # "out" THEN altered[c] \cup {device} ELSE altered[c]
    BY <1>1, <1>3
  <2> QED BY <2>1, PortsUnion
<1>5. PO(attached') = (PO(attached) \cup PO({device})) \ (PO(attached) \cap PO({device}))
  <2>1. PO(attached \ {device}) \cap PO({device}) = {}
    BY <1>3, CutProperties DEF Windows!PortsOf
  <2>2. CASE device \in attached
    <3>1. attached = (attached \ {device}) \cup {device}
      BY <2>2
    <3>2. PO(attached) = PO(attached \ {device}) \cup PO({device})
      BY <3>1, PortsUnion
    <3> HIDE DEF PO
    <3> QED BY <1>1, <2>1, <2>2, <3>2
  <2>3. CASE device \notin attached
    <3>1. attached \ {device} = attached
      BY <2>3
    <3>2. PO(attached \cup {device}) = PO(attached) \cup PO({device})
      BY PortsUnion
    <3> HIDE DEF PO
    <3> QED BY <1>1, <2>1, <2>3, <3>1, <3>2
  <2> QED BY <2>2, <2>3
<1>6. Windows!Returned(c)' = Windows!Returned(c)
  BY <1>2 DEF Windows!Returned
<1>7. CASE PO({device}) = {}
  <2> HIDE DEF PO
  <2>1. PO(attached') = PO(attached) /\ PO(altered'[c]) = PO(altered[c])
    BY <1>4, <1>5, <1>7
  <2> QED BY <1>2, <1>6, <2>1 DEF PO, Windows!Scanner!vars
<1>8. CASE PO({device}) # {}
  <2> DEFINE x == Windows!Identifier(device)
  <2>1. PO({device}) = {x} /\ x \in Windows!Ports
    <3>1. PO({device}) = {x}
      BY <1>8, PortsUnion
    <3>2. PO({device}) \subseteq Windows!Ports
      BY PortsUnion DEF Windows!Ports
    <3> QED BY <3>1, <3>2
  <2> HIDE DEF x
  <2> QED BY <1>2, <1>4, <1>5, <1>6, <2>1 DEF Windows!Scanner!Change
<1> QED BY <1>7, <1>8

\* On either platform a call lists every port that is there throughout it and none that
\* is never there: for any devices and any number of callers, whatever comes and goes.
THEOREM ListsKeepPromise == ScanSpec => ImplementsPortScanner
<1>1. ScanInit => IF linux THEN Linux!ScannerInit ELSE Windows!ScannerInit
  <2>1. CASE linux /\ Linux!Init
    <3>1. attached \in SUBSET UdevDevices
      BY <2>1 DEF Linux!Init
    <3>2. Linux!SerialPorts(attached) \subseteq Linux!SerialPorts(UdevDevices)
      BY <3>1, SerialUnion
    <3>3. Linux!Range(<<>>) = {} /\ Linux!SerialPorts({}) = {}
      BY SerialUnion DEF Linux!Range
    <3> QED BY <2>1, <3>2, <3>3 DEF Linux!Init, Linux!ScannerInit, Linux!Scanner!Init
  <2>2. CASE ~linux /\ Windows!Init
    <3>1. Windows!PortsOf(attached) \subseteq Windows!Ports
      BY <2>2 DEF Windows!Init, Windows!PortsOf, Windows!Ports
    <3>2. Windows!Range(<<>>) = {} /\ Windows!PortsOf({}) = {}
      BY PortsUnion DEF Windows!Range
    <3> QED BY <2>2, <3>1, <3>2 DEF Windows!Init, Windows!ScannerInit,
                                    Windows!Scanner!Init, Windows!Returned
  <2> QED BY <2>1, <2>2 DEF ScanInit, linux, windows
<1>2. (linux => UdevInv) /\ (windows => ComInv) /\ [ScanNext]_scanVars
         => [IF linux THEN Linux!ScannerStep ELSE Windows!ScannerStep]_scanVars
  <2> SUFFICES ASSUME linux => UdevInv, windows => ComInv, ScanNext
               PROVE  IF linux THEN Linux!ScannerStep ELSE Windows!ScannerStep
    OBVIOUS
  <2>1. CASE linux /\ Linux!Next
    BY <2>1, LinuxKeepsPromise
  <2>2. CASE windows /\ Windows!Next
    <3>1. Windows!ScannerStep
      BY <2>2, CallKeepsPromise, DevicesKeepPromise DEF Windows!Next
    <3> QED BY <2>2, <3>1 DEF linux, windows
  <2> QED BY <2>1, <2>2 DEF ScanNext
<1> QED BY <1>1, <1>2, LinuxInvariant, ComInvariant, PTL
        DEF ScanSpec, ImplementsPortScanner
=============================================================================
