------------------------- MODULE OrchestratorProofs -------------------------
(***************************************************************************)
(* Proofs about Orchestrator for every set of files and contents, every    *)
(* number of chunk workers and permits, every batch size, and any number   *)
(* of edits, failures and crashes: the types, the back pressure, that no   *)
(* row of an earlier version of a file is left (FreshInv), and that every  *)
(* file of the tree can be found (CoveredInv).                             *)
(***************************************************************************)
EXTENDS Orchestrator, FiniteSetTheorems, TLAPS

-----------------------------------------------------------------------------
(* Sequences and sets.                                                     *)

\* Induction over the numbers, for a set in place of a predicate: adding one maps
\* the part of A that is closed downwards into itself, and a finite set has no
\* injection into a proper part of it.
LEMMA Induction ==
  ASSUME NEW A, A \subseteq Nat, 0 \in A, \A n \in A : n + 1 \in A
  PROVE  A = Nat
<1> DEFINE B == {n \in Nat : 0..n \subseteq A}
<1> SUFFICES ASSUME NEW N \in Nat, N \notin A PROVE FALSE
  OBVIOUS
<1>1. B \subseteq 0..N
  OBVIOUS
<1>2. IsFiniteSet(B)
  BY <1>1, FS_BoundedSetOfNaturals
<1>3. 0 \in B /\ \A n \in B : n + 1 \in B
  <2>1. 0 \in B
    BY 0..0 = {0}
  <2>2. ASSUME NEW n \in B PROVE n + 1 \in B
    <3>1. n \in A
      OBVIOUS
    <3>2. 0..(n+1) = (0..n) \cup {n + 1}
      OBVIOUS
    <3> QED BY <3>1, <3>2
  <2> QED BY ONLY <2>1, <2>2
<1> DEFINE f == [n \in B |-> n + 1]
<1>4. f \in [B -> B]
  BY <1>3
<1>5. \A a, b \in B : f[a] = f[b] => a = b
  OBVIOUS
<1>6. \E n \in B : f[n] = 0
  <2>1. f \in Injection(B, B)
    BY <1>4, <1>5 DEF Injection, IsInjective
  <2>2. f \in Surjection(B, B)
    BY <1>2, <2>1, FS_Injection
  <2> QED
    BY <1>3, <2>2 DEF Surjection
<1> QED
  BY <1>6

\* The empty queue.
LEMMA EmptySeq == ASSUME NEW X PROVE <<>> \in Seq(X)
OBVIOUS

\* The empty queue has no elements.
LEMMA EmptyRange == Range(<<>>) = {}
<1>1. DOMAIN <<>> = {}
  OBVIOUS
<1> QED
  BY <1>1 DEF Range

\* A set of numbers that is not empty has a least element.
LEMMA Least ==
  ASSUME NEW T, T \subseteq Nat, T # {}
  PROVE  \E m \in T : \A k \in T : m <= k
<1> SUFFICES ASSUME ~ \E m \in T : \A k \in T : m <= k PROVE FALSE
  OBVIOUS
<1> DEFINE A == {n \in Nat : \A k \in T : n < k}
<1>1. 0 \in A
  OBVIOUS
<1>2. ASSUME NEW n \in A PROVE n + 1 \in A
  <2>1. n + 1 \notin T
    OBVIOUS
  <2> QED
    BY <2>1
<1> HIDE DEF A
<1>3. A = Nat
  BY <1>1, <1>2, Induction DEF A
<1>4. PICK k \in T : TRUE
  OBVIOUS
<1>5. k \in A
  BY <1>3
<1> QED
  BY <1>5 DEF A

\* A sequence has the elements at its places and no others.
LEMMA RangeOf ==
  ASSUME NEW X, NEW s \in Seq(X)
  PROVE  /\ Len(s) \in Nat /\ DOMAIN s = 1..Len(s) /\ Range(s) \subseteq X
         /\ \A i \in 1..Len(s) : s[i] \in Range(s)
         /\ \A e \in Range(s) : \E i \in 1..Len(s) : s[i] = e
BY DEF Range

\* A sequence whose elements are all in Y.
LEMMA RangeWithin ==
  ASSUME NEW X, NEW s \in Seq(X), NEW Y, \A i \in 1..Len(s) : s[i] \in Y
  PROVE  Range(s) \subseteq Y
BY DEF Range

\* push adds one element.
LEMMA AppendRange ==
  ASSUME NEW X, NEW s \in Seq(X), NEW e \in X
  PROVE  /\ Append(s, e) \in Seq(X) /\ Append(s, e) # <<>>
         /\ Range(Append(s, e)) = Range(s) \cup {e}
<1>1. /\ Append(s, e) \in Seq(X) /\ Len(Append(s, e)) = Len(s) + 1
      /\ Append(s, e)[Len(s) + 1] = e
      /\ \A i \in 1..Len(s) : Append(s, e)[i] = s[i]
  OBVIOUS
<1> QED
  BY <1>1 DEF Range

\* shift takes the first element away.
LEMMA TailRange ==
  ASSUME NEW X, NEW s \in Seq(X), s # <<>>
  PROVE  /\ Head(s) \in X /\ Tail(s) \in Seq(X)
         /\ Range(s) = {Head(s)} \cup Range(Tail(s))
<1>1. /\ Head(s) = s[1] /\ Len(s) \in Nat \ {0} /\ Head(s) \in X
      /\ Tail(s) \in Seq(X) /\ Len(Tail(s)) = Len(s) - 1
      /\ \A i \in 1..(Len(s) - 1) : Tail(s)[i] = s[i + 1]
  OBVIOUS
<1>2. ASSUME NEW i \in 1..Len(s), i # 1
      PROVE  s[i] = Tail(s)[i - 1] /\ i - 1 \in 1..Len(Tail(s))
  BY <1>1, <1>2
<1>3. \A i \in 1..Len(Tail(s)) : Tail(s)[i] \in Range(s)
  <2>1. \A i \in 1..Len(Tail(s)) : i + 1 \in 1..Len(s)
    BY <1>1
  <2> QED
    BY <1>1, <2>1, RangeOf
<1>4. \A i \in 1..Len(s) : s[i] \in {Head(s)} \cup Range(Tail(s))
  BY <1>1, <1>2, RangeOf
<1>5. Head(s) \in Range(s)
  BY <1>1, RangeOf
<1>6. Range(Tail(s)) \subseteq Range(s)
  BY <1>1, <1>3, RangeWithin
<1>7. Range(s) \subseteq {Head(s)} \cup Range(Tail(s))
  BY <1>4, RangeWithin
<1> QED
  BY <1>1, <1>5, <1>6, <1>7

\* Queues are appended to each other.
LEMMA ConcatRange ==
  ASSUME NEW X, NEW s \in Seq(X), NEW t \in Seq(X)
  PROVE  s \o t \in Seq(X) /\ Range(s \o t) = Range(s) \cup Range(t)
<1>1. /\ s \o t \in Seq(X) /\ Len(s \o t) = Len(s) + Len(t)
      /\ Len(s) \in Nat /\ Len(t) \in Nat
      /\ \A i \in 1..Len(s) : (s \o t)[i] = s[i]
      /\ \A i \in 1..Len(t) : (s \o t)[Len(s) + i] = t[i]
  OBVIOUS
<1>2. ASSUME NEW i \in 1..Len(s \o t), i \notin 1..Len(s)
      PROVE  (s \o t)[i] = t[i - Len(s)] /\ i - Len(s) \in 1..Len(t)
  BY <1>1, <1>2
<1>3. \A i \in 1..Len(s) : s[i] \in Range(s \o t)
  <2>1. \A i \in 1..Len(s) : i \in 1..Len(s \o t)
    BY <1>1
  <2> QED
    BY <1>1, <2>1, RangeOf
<1>4. \A i \in 1..Len(t) : t[i] \in Range(s \o t)
  <2>1. \A i \in 1..Len(t) : Len(s) + i \in 1..Len(s \o t)
    BY <1>1
  <2> QED
    BY <1>1, <2>1, RangeOf
<1>5. \A i \in 1..Len(s \o t) : (s \o t)[i] \in Range(s) \cup Range(t)
  BY <1>1, <1>2, RangeOf
<1>6. Range(s) \subseteq Range(s \o t) /\ Range(t) \subseteq Range(s \o t)
  BY <1>3, <1>4, RangeWithin
<1>7. Range(s \o t) \subseteq Range(s) \cup Range(t)
  BY <1>1, <1>5, RangeWithin
<1> QED
  BY <1>1, <1>6, <1>7

\* splice(0, n) splits a queue in two.
LEMMA SplitRange ==
  ASSUME NEW X, NEW s \in Seq(X), NEW n \in 0..Len(s)
  PROVE  /\ SubSeq(s, 1, n) \in Seq(X) /\ SubSeq(s, n + 1, Len(s)) \in Seq(X)
         /\ Range(s) = Range(SubSeq(s, 1, n)) \cup Range(SubSeq(s, n + 1, Len(s)))
<1> DEFINE a == SubSeq(s, 1, n)
           b == SubSeq(s, n + 1, Len(s))
<1>1. /\ a \in Seq(X) /\ Len(a) = n /\ Len(s) \in Nat
      /\ \A i \in 1..n : a[i] = s[i]
  OBVIOUS
<1>2. /\ b \in Seq(X) /\ Len(b) = Len(s) - n
      /\ \A i \in 1..Len(b) : b[i] = s[n + i]
  OBVIOUS
<1> HIDE DEF a, b
<1>3. ASSUME NEW i \in 1..Len(s), i \notin 1..n
      PROVE  s[i] = b[i - n] /\ i - n \in 1..Len(b)
  BY <1>2, <1>3
<1>4. \A i \in 1..Len(a) : a[i] \in Range(s)
  BY <1>1, RangeOf
<1>5. \A i \in 1..Len(b) : b[i] \in Range(s)
  <2>1. \A i \in 1..Len(b) : n + i \in 1..Len(s)
    BY <1>2
  <2> QED
    BY <1>2, <2>1, RangeOf
<1>6. \A i \in 1..Len(s) : s[i] \in Range(a) \cup Range(b)
  BY <1>1, <1>2, <1>3, RangeOf
<1>7. Range(s) = Range(a) \cup Range(b)
  <2>1. Range(a) \subseteq Range(s) /\ Range(b) \subseteq Range(s)
    BY <1>1, <1>2, <1>4, <1>5, RangeWithin
  <2>2. Range(s) \subseteq Range(a) \cup Range(b)
    BY <1>6, RangeWithin
  <2> QED
    BY <2>1, <2>2
<1> QED
  BY <1>1, <1>2, <1>7 DEF a, b
\* How many of the first j elements of s are in S.
Count(s, S, j) == Cardinality({k \in 1..j : s[k] \in S})

\* Counting one place further.
LEMMA CountStep ==
  ASSUME NEW s, NEW S, NEW j \in Nat
  PROVE  /\ Count(s, S, j) \in Nat
         /\ Count(s, S, 0) = 0
         /\ s[j + 1] \in S => Count(s, S, j + 1) = Count(s, S, j) + 1
         /\ s[j + 1] \notin S => Count(s, S, j + 1) = Count(s, S, j)
<1> DEFINE C(n) == {k \in 1..n : s[k] \in S}
<1>1. \A n \in Nat : IsFiniteSet(C(n)) /\ Cardinality(C(n)) \in Nat
  <2> TAKE n \in Nat
  <2>1. IsFiniteSet(C(n))
    BY FS_BoundedSetOfNaturals, C(n) \in SUBSET Nat, \A k \in C(n) : k <= n
  <2> QED
    BY <2>1, FS_CardinalityType
<1>2. C(0) = {}
  OBVIOUS
<1>3. Cardinality({}) = 0
  BY FS_EmptySet
<1>4. ASSUME s[j + 1] \in S PROVE Cardinality(C(j + 1)) = Cardinality(C(j)) + 1
  <2>1. C(j + 1) = C(j) \cup {j + 1} /\ j + 1 \notin C(j)
    BY <1>4
  <2> QED
    BY <1>1, <2>1, FS_AddElement
<1>5. ASSUME s[j + 1] \notin S PROVE C(j + 1) = C(j)
  BY <1>5
<1> QED
  BY <1>1, <1>2, <1>3, <1>4, <1>5 DEF Count

\* Every number up to the count of a prefix is the count at one of its elements.
LEMMA CountReaches ==
  ASSUME NEW s, NEW S, NEW m \in Nat, NEW i \in 1..Count(s, S, m)
  PROVE  \E j \in 1..m : s[j] \in S /\ Count(s, S, j) = i
<1> DEFINE A == {n \in Nat : \A k \in 1..Count(s, S, n) :
                                \E j \in 1..n : s[j] \in S /\ Count(s, S, j) = k}
<1>1. 0 \in A
  BY CountStep
<1>2. ASSUME NEW n \in A PROVE n + 1 \in A
  <2> SUFFICES ASSUME NEW k \in 1..Count(s, S, n + 1)
               PROVE  \E j \in 1..(n + 1) : s[j] \in S /\ Count(s, S, j) = k
    OBVIOUS
  <2>1. CASE k \in 1..Count(s, S, n)
    BY <2>1, <1>2
  <2>2. CASE k \notin 1..Count(s, S, n)
    <3>1. Count(s, S, n) \in Nat /\ Count(s, S, n + 1) \in Nat
      BY CountStep
    <3>2. s[n + 1] \in S /\ Count(s, S, n + 1) = k
      BY <2>2, <3>1, CountStep
    <3> QED
      BY <3>2
  <2> QED
    BY <2>1, <2>2
<1>3. A = Nat
  BY <1>1, <1>2, Induction
<1> QED
  BY <1>3

\* The count does not shrink.
LEMMA CountMonotone ==
  ASSUME NEW s, NEW S, NEW j \in Nat, NEW n \in Nat, j <= n
  PROVE  Count(s, S, j) <= Count(s, S, n)
<1> DEFINE A == {m \in Nat : Count(s, S, j) <= Count(s, S, j + m)}
<1>1. 0 \in A
  BY CountStep
<1>2. ASSUME NEW m \in A PROVE m + 1 \in A
  <2>1. j + m \in Nat /\ j + (m + 1) = (j + m) + 1
    OBVIOUS
  <2>2. /\ Count(s, S, j) \in Nat
        /\ Count(s, S, j + m) \in Nat
        /\ Count(s, S, (j + m) + 1) \in Nat
        /\ Count(s, S, (j + m) + 1) >= Count(s, S, j + m)
    BY <2>1, CountStep
  <2> QED
    BY <2>1, <2>2
<1> HIDE DEF A
<1>3. A = Nat
  BY <1>1, <1>2, Induction DEF A
<1>4. n - j \in A /\ j + (n - j) = n
  BY <1>3
<1> QED
  BY <1>4 DEF A

\* The count grows at an element of S.
LEMMA CountGrows ==
  ASSUME NEW s, NEW S, NEW j \in Nat, NEW n \in Nat, j < n, s[n] \in S
  PROVE  Count(s, S, j) < Count(s, S, n)
<1>1. n - 1 \in Nat /\ (n - 1) + 1 = n /\ j <= n - 1
  OBVIOUS
<1>2. Count(s, S, n) = Count(s, S, n - 1) + 1
  BY <1>1, CountStep
<1> QED
  BY <1>1, <1>2, CountStep, CountMonotone

\* Array.filter keeps exactly the elements of S.
LEMMA InOrderProps ==
  ASSUME NEW X, NEW s \in Seq(X), NEW S
  PROVE  /\ InOrder(s, S) \in Seq(X \cap S)
         /\ Range(InOrder(s, S)) = Range(s) \cap S
<1> DEFINE n == Count(s, S, Len(s))
           at(i) == CHOOSE j \in DOMAIN s : s[j] \in S /\ Count(s, S, j) = i
<1>0. Len(s) \in Nat /\ DOMAIN s = 1..Len(s) /\ n \in Nat
  BY CountStep
<1>1. InOrder(s, S) = [i \in 1..n |-> s[at(i)]]
  BY <1>0 DEF InOrder, Count
<1>2. \A i \in 1..n : at(i) \in DOMAIN s /\ s[at(i)] \in S /\ Count(s, S, at(i)) = i
  <2> TAKE i \in 1..n
  <2>1. \E j \in DOMAIN s : s[j] \in S /\ Count(s, S, j) = i
    BY <1>0, CountReaches
  <2> QED
    BY <2>1
<1>3. ASSUME NEW k \in DOMAIN s, s[k] \in S
      PROVE  Count(s, S, k) \in 1..n /\ at(Count(s, S, k)) = k
  <2>1. Count(s, S, 0) = 0 /\ Count(s, S, k) \in Nat
    BY <1>0, CountStep
  <2>2. Count(s, S, k) > 0
    BY <1>0, <1>3, <2>1, CountGrows
  <2>3. Count(s, S, k) <= n
    BY <1>0, CountMonotone
  <2>4. \A j \in DOMAIN s : s[j] \in S /\ Count(s, S, j) = Count(s, S, k) => j = k
    BY <1>0, <1>3, <2>1, CountGrows, CountStep
  <2> QED
    BY <1>0, <1>3, <2>1, <2>2, <2>3, <2>4
<1> HIDE DEF at, n
<1>4. InOrder(s, S) \in Seq(X \cap S)
  <2>1. \A i \in 1..n : s[at(i)] \in X \cap S
    BY <1>0, <1>2
  <2> QED
    BY <1>0, <1>1, <2>1
<1>5. Range(InOrder(s, S)) = Range(s) \cap S
  <2>1. DOMAIN InOrder(s, S) = 1..n /\ \A i \in 1..n : InOrder(s, S)[i] = s[at(i)]
    BY <1>1
  <2>2. ASSUME NEW e \in Range(s), e \in S PROVE e \in Range(InOrder(s, S))
    <3>1. PICK k \in DOMAIN s : s[k] = e
      BY DEF Range
    <3> QED
      BY <1>3, <2>1, <2>2, <3>1 DEF Range
  <2>3. ASSUME NEW e \in Range(InOrder(s, S)) PROVE e \in Range(s) \cap S
    BY <2>1, <1>2 DEF Range
  <2> QED
    BY <2>2, <2>3
<1> QED
  BY <1>4, <1>5
\* Listing a finite set, as a query without ORDER BY does.
LEMMA SetToSeqRange ==
  ASSUME NEW S, IsFiniteSet(S)
  PROVE  SetToSeq(S) \in Seq(S) /\ Range(SetToSeq(S)) = S
<1> DEFINE n == Cardinality(S)
<1>1. n \in Nat /\ \E f \in Bijection(1..n, S) : TRUE
  BY FS_CardinalityType DEF ExistsBijection
<1>2. \E f \in [1..n -> S] : IsInjective(f)
  BY <1>1 DEF Bijection, Injection, IsInjective
<1>3. SetToSeq(S) \in [1..n -> S] /\ IsInjective(SetToSeq(S))
  BY <1>2 DEF SetToSeq
<1>4. SetToSeq(S) \in Surjection(1..n, S)
  <2>1. IsFiniteSet(1..n) /\ Cardinality(1..n) = n
    BY <1>1, FS_Interval
  <2>2. SetToSeq(S) \in Injection(1..n, S)
    BY <1>3 DEF Injection
  <2> QED
    BY <2>1, <2>2, FS_Injection
<1> HIDE DEF n
<1> QED
  BY <1>1, <1>3, <1>4 DEF Surjection, Range

-----------------------------------------------------------------------------
(* The semaphore.                                                          *)

\* A sequence whose elements do not matter.
IsSequence(s) == Len(s) \in Nat /\ DOMAIN s = 1..Len(s)

\* Permits are either free or held by a job of the chain, and somebody waits
\* only when none is free.
Permits ==
  /\ IsSequence(chain) /\ IsSequence(waiters)
  /\ permits \in Nat
  /\ permits + Len(chain) = MaxPendingFiles
  /\ waiters # <<>> => permits = 0

\* A job that is being worked on is still in the chain, and outside of the two
\* phases that embed no step is under way.
JobHeld ==
  /\ phase = "stream" /\ step # "idle" => chain # <<>>
  /\ phase \notin {"stream", "flush"} => step = "idle"

PoolInv == Permits /\ JobHeld

\* What Append and Tail, the chain's push and shift, do to a length.
LEMMA AppendLen ==
  ASSUME NEW s, NEW e, IsSequence(s)
  PROVE  /\ IsSequence(Append(s, e)) /\ Len(Append(s, e)) = Len(s) + 1
         /\ Append(s, e) # <<>>
BY DEF IsSequence

\* Shifting a queue that is not empty.
LEMMA TailLen ==
  ASSUME NEW s, IsSequence(s), s # <<>>
  PROVE  IsSequence(Tail(s)) /\ Len(Tail(s)) = Len(s) - 1 /\ Len(s) > 0
BY DEF IsSequence

\* A new run's queues.
LEMMA EmptySequence == IsSequence(<<>>) /\ Len(<<>>) = 0
BY DEF IsSequence

\* acquire() takes a free permit or joins the waiters.
LEMMA AcquireKeeps ==
  ASSUME Permits, NEW w, NEW job, Acquire(w, job)
  PROVE  Permits' /\ (chain # <<>> => chain' # <<>>)
<1>1. CASE permits > 0
  <2>1. chain' = Append(chain, job) /\ permits' = permits - 1 /\ waiters' = waiters
    BY <1>1 DEF Acquire
  <2> QED
    BY <1>1, <2>1, AppendLen DEF Permits
<1>2. CASE ~(permits > 0)
  <2>1. /\ waiters' = Append(waiters, [worker |-> w, job |-> job])
        /\ permits' = permits /\ chain' = chain
    BY <1>2 DEF Acquire
  <2>2. permits = 0
    BY <1>2 DEF Permits
  <2>3. IsSequence(waiters')
    BY <2>1, AppendLen DEF Permits
  <2> QED
    BY <2>1, <2>2, <2>3 DEF Permits, IsSequence
<1> QED
  BY <1>1, <1>2

\* release() hands the permit of the first job over, or frees it.
LEMMA ReleaseKeeps ==
  ASSUME Permits, chain # <<>>, Release
  PROVE  Permits'
<1>0. IsSequence(Tail(chain)) /\ Len(Tail(chain)) = Len(chain) - 1 /\ Len(chain) > 0
  BY TailLen DEF Permits
<1>1. CASE waiters # <<>>
  <2>1. /\ chain' = Append(Tail(chain), Head(waiters).job)
        /\ waiters' = Tail(waiters) /\ permits' = permits
    BY <1>1 DEF Release
  <2>2. IsSequence(chain') /\ Len(chain') = Len(chain)
    <3>1. Len(chain') = Len(Tail(chain)) + 1 /\ IsSequence(chain')
      BY <1>0, <2>1, AppendLen
    <3> QED
      BY <1>0, <3>1 DEF Permits, IsSequence
  <2>3. IsSequence(waiters')
    BY <1>1, <2>1, TailLen DEF Permits
  <2> QED
    BY <1>1, <2>1, <2>2, <2>3 DEF Permits, IsSequence
<1>2. CASE waiters = <<>>
  <2>1. chain' = Tail(chain) /\ permits' = permits + 1 /\ waiters' = waiters
    BY <1>2 DEF Release
  <2> QED
    BY <1>0, <1>2, <2>1 DEF Permits, IsSequence
<1> QED
  BY <1>1, <1>2

\* However a run ends, the next one starts with every permit free.
LEMMA EndRunKeeps ==
  ASSUME NEW how, EndRun(how)
  PROVE  PoolInv'
BY SizesAssumption, EmptySequence DEF EndRun, PoolInv, Permits, JobHeld

\* Before the first run every permit is free.
LEMMA InitPool == Init => PoolInv
BY SizesAssumption, EmptySequence DEF Init, PoolInv, Permits, JobHeld

\* No step of a run or of the world around it loses a permit.
LEMMA NextPool == PoolInv /\ [Next]_vars => PoolInv'
<1> SUFFICES ASSUME PoolInv, [Next]_vars PROVE PoolInv'
  OBVIOUS
<1> USE DEF PoolInv
<1>1. CASE UNCHANGED vars
  BY <1>1 DEF vars, pool, Permits, JobHeld, IsSequence
<1>2. ASSUME NEW f \in Files, NEW v, Edit(f, v) PROVE PoolInv'
  BY <1>2 DEF Edit, pool, Permits, JobHeld, IsSequence
<1>3. ASSUME NEW c \in Configs, Switch(c) PROVE PoolInv'
  BY <1>3 DEF Switch, pool, Permits, JobHeld, IsSequence
<1>4. ASSUME NEW m \in Modes, Begin(m) PROVE PoolInv'
  BY <1>4 DEF Begin, pool, Permits, JobHeld, IsSequence
<1>5. CASE Scan
  <2>1. \/ EndRun("ok") \/ EndRun("refused")
        \/ /\ phase' = "prepare"
           /\ UNCHANGED <<waiters, permits, chain, step>>
    BY <1>5, Zenon DEF Scan
  <2>2. phase = "scan"
    BY <1>5 DEF Scan
  <2>3. CASE /\ phase' = "prepare"
             /\ UNCHANGED <<waiters, permits, chain, step>>
    BY <2>2, <2>3 DEF Permits, JobHeld, IsSequence
  <2> QED
    BY <2>1, <2>3, EndRunKeeps
<1>6. CASE PrepareUpdate \/ PreWarm \/ \E f \in Files : ForgetFile(f)
  BY <1>6 DEF PrepareUpdate, PreWarm, ForgetFile, pool, Permits, JobHeld,
              IsSequence
<1>7. ASSUME NEW w \in Workers, TakeTask(w) PROVE PoolInv'
  BY <1>7 DEF TakeTask, Permits, JobHeld, IsSequence
<1>8. ASSUME NEW w \in Workers, ChunkFile(w) \/ ChunkerFails(w) PROVE PoolInv'
  <2>1. \E job : Acquire(w, job)
    BY <1>8, Zenon DEF ChunkFile, ChunkerFails
  <2>2. phase = "stream" /\ phase' = phase /\ step' = step
    BY <1>8 DEF ChunkFile, ChunkerFails
  <2>3. Permits' /\ (chain # <<>> => chain' # <<>>)
    BY <2>1, AcquireKeeps
  <2> QED
    BY <2>2, <2>3 DEF JobHeld
<1>9. CASE ReplaceChunks \/ QueueChunks
  BY <1>9 DEF ReplaceChunks, QueueChunks, pool, Permits, JobHeld, IsSequence
<1>10. CASE EmbedBatch \/ UploadBatch \/ UploadedEnough
  <2>1. /\ UNCHANGED <<phase, chain, waiters, permits>>
        /\ step # "idle"
    BY <1>10 DEF EmbedBatch, EmbedDue, UploadBatch, UploadedEnough, pool
  <2> QED
    BY <2>1 DEF Permits, JobHeld, IsSequence
<1>11. CASE JobDone \/ SkipJob \/ JobFails
  <2>1. phase = "stream" /\ chain # <<>> /\ Release
    BY <1>11 DEF JobDone, SkipJob, JobFails, EmbedDue, JobHeld
  <2>2. phase' = "stream" /\ step' = "idle"
    BY <1>11 DEF JobDone, SkipJob, JobFails
  <2> QED
    BY <2>1, <2>2, ReleaseKeeps DEF JobHeld
<1>12. CASE FlushRest \/ FlushUpload
  BY <1>12 DEF FlushRest, FlushUpload, pool, Permits, JobHeld, IsSequence
<1>13. ASSUME NEW f \in Files, DeleteOrphans(f) PROVE PoolInv'
  BY <1>13 DEF DeleteOrphans, pool, Permits, JobHeld, IsSequence
<1>14. CASE Throw \/ Finish \/ Crash \/ StoreFails \/ Killed
  <2>1. EndRun("failed") \/ EndRun("ok")
    BY <1>14, Zenon DEF Throw, Finish, Crash, StoreFails, Killed
  <2> QED
    BY <2>1, EndRunKeeps
<1> QED
  BY <1>1, <1>2, <1>3, <1>4, <1>5, <1>6, <1>7, <1>8, <1>9, <1>10, <1>11,
     <1>12, <1>13, <1>14 DEF Next, Running

\* At most maxPendingFiles files are queued ahead of the embedder and no permit
\* of the semaphore is ever lost or made up: errors in the chain, hand-overs to
\* waiting workers and runs that end early included (orchestrator.ts:409-515,
\* utils.ts:99-122).
THEOREM PermitsConserved == Spec => []BackPressure
<1>1. PoolInv => BackPressure
  BY DEF PoolInv, Permits, BackPressure
<1> QED
  BY InitPool, NextPool, <1>1, PTL DEF Spec

-----------------------------------------------------------------------------
(* Type correctness.                                                       *)

\* The files of the tree.
InTree == {f \in Files : tree[f] # Absent}

\* Jobs for files of the tree, with chunks of what the file contains.
Jobs ==
  {job \in [file : InTree, chunks : Seq(Hashes)] :
     Range(job.chunks) \subseteq Range(ChunksOf[tree[job.file]])}

WaitingJobs == [worker : Workers, job : Jobs]

\* The world and what is stored.
StoredTypes ==
  /\ tree \in [Files -> Contents \cup {Absent}] /\ cfg \in Configs
  /\ staged \in [Hashes -> StagedRows \cup {NoRow}]
  /\ revs \in [Files -> Contents \cup {NoRev}]
  /\ meta \in Configs \cup {NoMeta}
  /\ stores \in [StoreNames -> [Hashes -> StoreRows \cup {NoRow}]]

\* The state of a run.
RunTypes ==
  /\ phase \in {"idle", "scan", "prepare", "forget", "stream", "flush", "cleanup"}
  /\ step \in {"idle", "replaced", "embed", "upload"}
  /\ force \in BOOLEAN /\ failed \in BOOLEAN
  /\ pendingEmbed \in Seq(ToEmbed) /\ pendingUpload \in Seq(ToUpload)
  /\ dropped \subseteq Files

\* What the workers and the chain hold belongs to files of the tree.
PoolTypes ==
  /\ todo \in Seq(InTree)
  /\ toDelete \subseteq Files \ InTree
  /\ busy \in [Workers -> {<<>>} \cup {<<f>> : f \in InTree}]
  /\ chain \in Seq(Jobs)
  /\ waiters \in Seq(WaitingJobs)
  /\ DOMAIN newHashes \subseteq InTree
  /\ \A f \in DOMAIN newHashes : newHashes[f] \subseteq Range(ChunksOf[tree[f]])

\* What is empty in which phase: the world changes only while all of it is.
Quiet ==
  /\ phase \in {"idle", "scan"} => pendingEmbed = <<>> /\ pendingUpload = <<>>
  /\ phase # "idle" => outcome = "none"
  /\ phase \notin {"prepare", "forget"} => toDelete = {}
  /\ phase \notin {"prepare", "forget", "stream"} => todo = <<>>
  /\ phase # "stream" =>
       /\ chain = <<>> /\ waiters = <<>> /\ ~failed
       /\ \A w \in Workers : busy[w] = <<>>
  /\ phase \notin {"stream", "flush", "cleanup"} => DOMAIN newHashes = {}

\* A waiting job is the one its worker is busy with, and no worker waits twice.
Waits ==
  /\ \A i \in DOMAIN waiters : busy[waiters[i].worker] = <<waiters[i].job.file>>
  /\ \A i, j \in DOMAIN waiters : waiters[i].worker = waiters[j].worker => i = j

Types == StoredTypes /\ RunTypes /\ PoolTypes /\ Quiet /\ Waits

\* Contents, hashes and the names of a configuration.
LEMMA Names ==
  /\ \A v \in Contents : ChunksOf[v] \in Seq(Hashes) /\ Range(ChunksOf[v]) \subseteq Hashes
  /\ \A c \in Configs : c.store \in StoreNames /\ c.model \in ModelNames
<1>1. \A v \in Contents : ChunksOf[v] \in Seq(Hashes)
  BY ContentsAssumption
<1>2. \A v \in Contents : Range(ChunksOf[v]) \subseteq Hashes
  BY <1>1, RangeOf
<1> QED
  BY <1>1, <1>2 DEF StoreNames, ModelNames

\* The rows of the store in use.
LEMMA RowTypes ==
  ASSUME StoredTypes
  PROVE  /\ cfg.store \in StoreNames /\ cfg.model \in ModelNames
         /\ rows \in [Hashes -> StoreRows \cup {NoRow}]
         /\ \A c \in Hashes : rows[c] # NoRow => rows[c] \in StoreRows
         /\ \A c \in Hashes : staged[c] # NoRow => staged[c] \in StagedRows
BY Names DEF StoredTypes, rows

\* Rows written to the store in use.
LEMMA StoreWritten ==
  ASSUME StoredTypes, NEW r \in [Hashes -> StoreRows \cup {NoRow}],
         stores' = [stores EXCEPT ![cfg.store] = r]
  PROVE  /\ stores' \in [StoreNames -> [Hashes -> StoreRows \cup {NoRow}]]
         /\ cfg' = cfg => rows' = r
BY Names DEF StoredTypes, rows

\* deduplicateByHash and upsert write one chunk of the batch for every hash it
\* has and leave the other rows alone.
LEMMA UpsertedRows ==
  ASSUME StoredTypes, NEW batch \in Seq(ToUpload)
  PROVE  /\ Upserted(batch) \in [Hashes -> StoreRows \cup {NoRow}]
         /\ Ids(batch) \subseteq Hashes
         /\ \A c \in Hashes : c \notin Ids(batch) => Upserted(batch)[c] = rows[c]
         /\ \A c \in Ids(batch) : \E k \in Range(batch) :
              k.id = c /\ Upserted(batch)[c] = StoreRow(k.src, k.rev, k.model)
<1>1. ASSUME NEW c \in Ids(batch)
      PROVE  /\ c \in Hashes
             /\ \E k \in Range(batch) :
                  k.id = c /\ Upserted(batch)[c] = StoreRow(k.src, k.rev, k.model)
  <2> DEFINE T == {i \in DOMAIN batch : batch[i].id = c}
             first == CHOOSE i \in DOMAIN batch :
                        /\ batch[i].id = c
                        /\ \A j \in 1..(i - 1) : batch[j].id # c
  <2>1. DOMAIN batch = 1..Len(batch) /\ Len(batch) \in Nat
    OBVIOUS
  <2>2. T \subseteq Nat /\ T # {}
    BY <2>1 DEF Ids
  <2>3. PICK m \in T : \A k \in T : m <= k
    BY <2>2, Least
  <2>4. \A j \in 1..(m - 1) : batch[j].id # c
    <3>1. ASSUME NEW j \in 1..(m - 1), batch[j].id = c PROVE FALSE
      <4>1. j \in T
        BY <2>1, <2>3, <3>1
      <4> QED
        BY <2>1, <2>3, <4>1
    <3> QED
      BY <3>1
  <2>5. first \in DOMAIN batch /\ batch[first].id = c
    BY <2>3, <2>4
  <2>6. \E i \in DOMAIN batch : batch[i].id = c
    BY <2>5
  <2>7. c \in Hashes /\ batch[first] \in Range(batch)
    <3> HIDE DEF first
    <3>1. batch[first] \in Range(batch)
      BY <2>1, <2>5, RangeOf
    <3>2. batch[first] \in ToUpload
      BY <2>1, <2>5
    <3> QED
      BY <2>5, <3>1, <3>2 DEF ToUpload
  <2>8. Upserted(batch)[c] =
          StoreRow(batch[first].src, batch[first].rev, batch[first].model)
    BY <2>6, <2>7 DEF Upserted
  <2> QED
    BY <2>5, <2>7, <2>8
<1>2. ASSUME NEW c \in Hashes, c \notin Ids(batch)
      PROVE  Upserted(batch)[c] = rows[c]
  BY <1>2 DEF Upserted, Ids
<1>3. Upserted(batch) = [c \in Hashes |-> Upserted(batch)[c]]
  BY DEF Upserted
<1>4. ASSUME NEW c \in Hashes PROVE Upserted(batch)[c] \in StoreRows \cup {NoRow}
  <2>1. CASE c \in Ids(batch)
    <3>1. PICK k \in Range(batch) : Upserted(batch)[c] = StoreRow(k.src, k.rev, k.model)
      BY <1>1, <2>1
    <3>2. k \in ToUpload
      BY RangeOf
    <3> QED
      BY <3>1, <3>2 DEF StoreRow, StoreRows, ToUpload
  <2>2. CASE c \notin Ids(batch)
    BY <1>2, <2>2, RowTypes
  <2> QED
    BY <2>1, <2>2
<1> QED
  BY <1>1, <1>2, <1>3, <1>4

\* The tables that a statement writes.
LEMMA StagedWritten ==
  ASSUME StoredTypes
  PROVE  /\ EmptyTable \in [Hashes -> StagedRows \cup {NoRow}]
         /\ EmptyTable \in [Hashes -> StoreRows \cup {NoRow}]
         /\ \A gone : WithoutRows(gone) \in [Hashes -> StoreRows \cup {NoRow}]
         /\ \A f : WithoutStaged(f) \in [Hashes -> StagedRows \cup {NoRow}]
         /\ \A f \in Files, v \in Contents : \A hashes :
              Replaced(f, v, hashes) \in [Hashes -> StagedRows \cup {NoRow}]
         /\ \A batch : WithVectors(batch) \in [Hashes -> StagedRows \cup {NoRow}]
<1>1. \A gone : WithoutRows(gone) \in [Hashes -> StoreRows \cup {NoRow}]
  BY RowTypes DEF WithoutRows
<1>2. \A f : WithoutStaged(f) \in [Hashes -> StagedRows \cup {NoRow}]
  BY DEF WithoutStaged, StoredTypes
<1>3. ASSUME NEW f \in Files, NEW v \in Contents, NEW hashes
      PROVE  Replaced(f, v, hashes) \in [Hashes -> StagedRows \cup {NoRow}]
  <2>1. ASSUME NEW c \in Hashes
        PROVE  StagedRow(f, v, IF staged[c] = NoRow THEN NoVector ELSE staged[c].vec)
                 \in StagedRows
    BY RowTypes DEF StagedRow, StagedRows
  <2> QED
    BY <2>1 DEF Replaced, StoredTypes
<1>4. ASSUME NEW batch
      PROVE  WithVectors(batch) \in [Hashes -> StagedRows \cup {NoRow}]
  <2>1. ASSUME NEW c \in Hashes, staged[c] # NoRow
        PROVE  [staged[c] EXCEPT !.vec = cfg.model] \in StagedRows
    BY <2>1, RowTypes DEF StagedRows
  <2> QED
    BY <2>1 DEF WithVectors, StoredTypes
<1> QED
  BY <1>1, <1>2, <1>3, <1>4 DEF EmptyTable

\* A batch that the store took a part of.
LEMMA PartTypes ==
  ASSUME StoredTypes, NEW batch \in Seq(ToUpload), NEW taken
  PROVE  PartlyUpserted(batch, taken) \in [Hashes -> StoreRows \cup {NoRow}]
BY UpsertedRows, RowTypes DEF PartlyUpserted

\* A run's end leaves nothing in memory.
LEMMA EndRunTypes ==
  ASSUME Types, NEW how, EndRun(how), dropped' = dropped, StoredTypes'
  PROVE  Types'
<1>1. phase' = "idle" /\ force' = FALSE /\ failed' = FALSE /\ step' = "idle"
  BY DEF EndRun
<1>2. /\ todo' = <<>> /\ toDelete' = {} /\ busy' = [w \in Workers |-> <<>>]
      /\ waiters' = <<>> /\ chain' = <<>>
      /\ pendingEmbed' = <<>> /\ pendingUpload' = <<>>
      /\ newHashes' = [f \in {} |-> {}]
  BY DEF EndRun
<1>3. RunTypes'
  <2>1. dropped' \subseteq Files
    BY DEF RunTypes, Types
  <2>2. pendingEmbed' \in Seq(ToEmbed) /\ pendingUpload' \in Seq(ToUpload)
    BY <1>2, EmptySeq
  <2> QED
    BY <1>1, <2>1, <2>2 DEF RunTypes
<1>4. PoolTypes'
  BY <1>2 DEF PoolTypes
<1>5. Quiet'
  BY <1>1, <1>2 DEF Quiet
<1>6. Waits'
  BY <1>2 DEF Waits
<1> QED
  BY <1>3, <1>4, <1>5, <1>6 DEF Types

\* The tree decides which jobs there can be.
LEMMA SameTree ==
  ASSUME tree' = tree
  PROVE  InTree' = InTree /\ Jobs' = Jobs /\ WaitingJobs' = WaitingJobs
<1>1. InTree' = InTree
  BY DEF InTree
<1>2. Jobs' = Jobs
  BY <1>1 DEF Jobs
<1> QED
  BY <1>1, <1>2 DEF WaitingJobs

\* A file of the tree has contents.
LEMMA TreeContents ==
  ASSUME StoredTypes, NEW f \in InTree
  PROVE  /\ f \in Files /\ tree[f] \in Contents
         /\ ChunksOf[tree[f]] \in Seq(Hashes)
         /\ Range(ChunksOf[tree[f]]) \subseteq Hashes
BY Names DEF StoredTypes, InTree

\* A worker's job joins the chain, or the waiters with the worker still busy.
LEMMA AcquireTypes ==
  ASSUME Types, NEW w \in Workers, NEW job \in Jobs, busy[w] = <<job.file>>,
         ~Waiting(w), Acquire(w, job), UNCHANGED <<tree, todo, toDelete, newHashes>>
  PROVE  PoolTypes' /\ Waits'
<1> USE SameTree DEF Types
<1>1. CASE permits > 0
  <2>1. /\ chain' = Append(chain, job)
        /\ busy' = [busy EXCEPT ![w] = <<>>] /\ waiters' = waiters
    BY <1>1 DEF Acquire
  <2>2. chain' \in Seq(Jobs)
    BY <2>1, AppendRange DEF PoolTypes
  <2>3. busy' \in [Workers -> {<<>>} \cup {<<f>> : f \in InTree}]
    BY <2>1 DEF PoolTypes
  <2>4. PoolTypes'
    BY <2>1, <2>2, <2>3 DEF PoolTypes
  <2>5. \A i \in DOMAIN waiters : waiters[i].worker # w
    BY DEF Waiting
  <2>6. Waits'
    BY <2>1, <2>5 DEF Waits, PoolTypes, WaitingJobs
  <2> QED
    BY <2>4, <2>6
<1>2. CASE ~(permits > 0)
  <2> DEFINE new == [worker |-> w, job |-> job]
  <2>1. waiters' = Append(waiters, new) /\ chain' = chain /\ busy' = busy
    BY <1>2 DEF Acquire
  <2>2. new \in WaitingJobs
    BY DEF WaitingJobs
  <2>3. waiters' \in Seq(WaitingJobs)
    BY <2>1, <2>2, AppendRange DEF PoolTypes
  <2>4. PoolTypes'
    BY <2>1, <2>3 DEF PoolTypes
  <2>5. /\ Len(waiters) \in Nat /\ DOMAIN waiters = 1..Len(waiters)
        /\ DOMAIN waiters' = 1..(Len(waiters) + 1)
        /\ waiters'[Len(waiters) + 1] = new
        /\ \A i \in 1..Len(waiters) : waiters'[i] = waiters[i]
    BY <2>1, <2>2 DEF PoolTypes
  <2>6. \A i \in DOMAIN waiters : waiters[i].worker # w
    BY DEF Waiting
  <2>7. new.worker = w /\ new.job = job
    OBVIOUS
  <2> HIDE DEF new
  <2>8. ASSUME NEW i \in DOMAIN waiters'
        PROVE  i \in DOMAIN waiters \/ i = Len(waiters) + 1
    BY <2>5
  <2>9. \A i \in DOMAIN waiters' : busy'[waiters'[i].worker] = <<waiters'[i].job.file>>
    BY <2>1, <2>5, <2>7, <2>8 DEF Waits
  <2>10. \A i, j \in DOMAIN waiters' :
           waiters'[i].worker = waiters'[j].worker => i = j
    BY <2>5, <2>6, <2>7, <2>8 DEF Waits
  <2> QED
    BY <2>4, <2>9, <2>10 DEF Waits
<1> QED
  BY <1>1, <1>2

\* The first job leaves the chain; the first waiter's job joins it and its
\* worker is free.
LEMMA ReleaseTypes ==
  ASSUME Types, chain # <<>>, Release, UNCHANGED <<tree, todo, toDelete, newHashes>>
  PROVE  PoolTypes' /\ Waits'
<1> USE SameTree DEF Types
<1>0. Tail(chain) \in Seq(Jobs)
  BY TailRange DEF PoolTypes
<1>1. CASE waiters # <<>>
  <2> DEFINE first == Head(waiters)
  <2>1. /\ chain' = Append(Tail(chain), first.job)
        /\ busy' = [busy EXCEPT ![first.worker] = <<>>]
        /\ waiters' = Tail(waiters)
    BY <1>1 DEF Release
  <2>2. /\ first \in WaitingJobs /\ waiters' \in Seq(WaitingJobs)
        /\ Len(waiters) \in Nat \ {0} /\ first = waiters[1]
        /\ DOMAIN waiters = 1..Len(waiters) /\ DOMAIN waiters' = 1..(Len(waiters) - 1)
        /\ \A i \in DOMAIN waiters' : waiters'[i] = waiters[i + 1]
    BY <1>1, <2>1 DEF PoolTypes
  <2> HIDE DEF first
  <2>3. first.job \in Jobs /\ first.worker \in Workers
    BY <2>2 DEF WaitingJobs
  <2>4. chain' \in Seq(Jobs)
    BY <1>0, <2>1, <2>3, AppendRange
  <2>5. busy' \in [Workers -> {<<>>} \cup {<<f>> : f \in InTree}]
    BY <2>1 DEF PoolTypes
  <2>6. PoolTypes'
    BY <2>2, <2>4, <2>5 DEF PoolTypes
  <2>7. ASSUME NEW i \in DOMAIN waiters'
        PROVE  /\ i + 1 \in DOMAIN waiters /\ waiters'[i] = waiters[i + 1]
               /\ waiters'[i] \in WaitingJobs
               /\ waiters'[i].worker # first.worker
    <3>1. i + 1 \in DOMAIN waiters /\ 1 \in DOMAIN waiters /\ i + 1 # 1
      BY <2>2
    <3> QED
      BY <2>2, <3>1 DEF Waits
  <2>8. \A i \in DOMAIN waiters' : busy'[waiters'[i].worker] = <<waiters'[i].job.file>>
    BY <2>1, <2>7 DEF Waits, WaitingJobs, PoolTypes
  <2>9. \A i, j \in DOMAIN waiters' :
           waiters'[i].worker = waiters'[j].worker => i = j
    BY <2>2, <2>7 DEF Waits
  <2> QED
    BY <2>6, <2>8, <2>9 DEF Waits
<1>2. CASE waiters = <<>>
  <2>1. chain' = Tail(chain) /\ waiters' = waiters /\ busy' = busy
    BY <1>2 DEF Release
  <2> QED
    BY <1>0, <2>1 DEF PoolTypes, Waits
<1> QED
  BY <1>1, <1>2

\* getWithNoVector and getWithVector list the staged chunks of the files that
\* are not skipped, each with what its row says.
LEMMA ResumedChunks ==
  ASSUME StoredTypes, NEW skip, NEW vecs
  PROVE  /\ Resumed(skip, vecs) \in
              Seq([id : Hashes, src : Files, rev : Contents, model : vecs])
         /\ \A k \in Range(Resumed(skip, vecs)) :
              /\ k.id \in Hashes /\ staged[k.id] # NoRow
              /\ k.src = staged[k.id].src /\ k.rev = staged[k.id].rev
              /\ k.src \notin skip
         /\ \A c \in Hashes :
              staged[c] # NoRow /\ staged[c].src \notin skip /\ staged[c].vec \in vecs
                => Chunk(c, staged[c].src, staged[c].rev, staged[c].vec)
                     \in Range(Resumed(skip, vecs))
<1> DEFINE S == {c \in Hashes : /\ staged[c] # NoRow
                                /\ staged[c].src \notin skip
                                /\ staged[c].vec \in vecs}
           s == SetToSeq(S)
           chunk(c) == Chunk(c, staged[c].src, staged[c].rev, staged[c].vec)
           r == Resumed(skip, vecs)
<1>1. IsFiniteSet(S)
  BY ContentsAssumption, FS_Subset
<1>2. s \in Seq(S) /\ Range(s) = S
  BY <1>1, SetToSeqRange
<1>3. r = [i \in DOMAIN s |-> chunk(s[i])]
  BY DEF Resumed
<1>4. \A c \in S :
        /\ chunk(c) \in [id : Hashes, src : Files, rev : Contents, model : vecs]
        /\ c \in Hashes /\ staged[c] # NoRow
        /\ chunk(c).id = c /\ chunk(c).src = staged[c].src
        /\ chunk(c).rev = staged[c].rev /\ chunk(c).src \notin skip
  BY RowTypes DEF StagedRows, Chunk
<1>5. \A c \in Hashes :
        staged[c] # NoRow /\ staged[c].src \notin skip /\ staged[c].vec \in vecs
          => c \in S
  OBVIOUS
<1> HIDE DEF S, s, chunk, r
<1>6. DOMAIN s = 1..Len(s) /\ Len(s) \in Nat /\ \A i \in 1..Len(s) : s[i] \in S
  BY <1>2
<1>7. r \in Seq([id : Hashes, src : Files, rev : Contents, model : vecs])
  BY <1>3, <1>4, <1>6
<1>8. \A k \in Range(r) : \E c \in S : k = chunk(c)
  BY <1>3, <1>6 DEF Range
<1>9. \A c \in S : chunk(c) \in Range(r)
  <2> TAKE c \in S
  <2>1. PICK i \in 1..Len(s) : s[i] = c
    BY <1>2, RangeOf
  <2> QED
    BY <1>3, <1>6, <2>1 DEF Range
<1> QED
  BY <1>4, <1>5, <1>7, <1>8, <1>9 DEF r, chunk

\* Where a resumed chunk comes from.
LEMMA ResumedFrom ==
  ASSUME StoredTypes, NEW skip, NEW vecs, NEW k \in Range(Resumed(skip, vecs))
  PROVE  /\ k.id \in Hashes /\ staged[k.id] # NoRow
         /\ k.src = staged[k.id].src /\ k.rev = staged[k.id].rev
         /\ k.src \notin skip
BY ResumedChunks, Zenon

\* The batch that flushEmbed takes is what it says: between one chunk and all.
LEMMA EmbedBatchSize ==
  ASSUME Types, EmbedDue
  PROVE  EmbedLimit \in 1..Len(pendingEmbed)
BY SizesAssumption DEF EmbedDue, EmbedLimit, Types, RunTypes

\* flushEmbed moves a batch, now with the model's vectors, to the upload queue.
LEMMA EmbedBatchTypes ==
  ASSUME Types, EmbedBatch
  PROVE  /\ pendingEmbed' \in Seq(ToEmbed) /\ pendingUpload' \in Seq(ToUpload)
         /\ \A k \in Range(pendingUpload') :
              \/ k \in Range(pendingUpload)
              \/ \E e \in Range(pendingEmbed) :
                   e.id = k.id /\ e.src = k.src /\ e.rev = k.rev
         /\ Range(pendingEmbed') \subseteq Range(pendingEmbed)
         /\ Range(pendingUpload) \subseteq Range(pendingUpload')
         /\ \A e \in Range(pendingEmbed) :
              \/ e \in Range(pendingEmbed')
              \/ \E k \in Range(pendingUpload') : k.id = e.id
<1> DEFINE batch == SubSeq(pendingEmbed, 1, EmbedLimit)
           rest  == SubSeq(pendingEmbed, EmbedLimit + 1, Len(pendingEmbed))
           done  == [i \in DOMAIN batch |-> [batch[i] EXCEPT !.model = cfg.model]]
<1>1. EmbedLimit \in 0..Len(pendingEmbed)
  BY EmbedBatchSize DEF EmbedBatch, Types, RunTypes
<1>2. /\ batch \in Seq(ToEmbed) /\ rest \in Seq(ToEmbed)
      /\ Range(pendingEmbed) = Range(batch) \cup Range(rest)
  BY <1>1, SplitRange DEF Types, RunTypes
<1>3. pendingEmbed' = rest /\ pendingUpload' = pendingUpload \o done
  BY DEF EmbedBatch
<1> HIDE DEF batch, rest
<1>4. ASSUME NEW i \in 1..Len(batch)
      PROVE  /\ done[i] \in ToUpload /\ done[i].id = batch[i].id
             /\ done[i].src = batch[i].src /\ done[i].rev = batch[i].rev
             /\ batch[i] \in Range(batch)
  <2>1. batch[i] \in ToEmbed /\ batch[i] \in Range(batch) /\ i \in DOMAIN batch
    BY <1>2, RangeOf
  <2>2. done[i] = [batch[i] EXCEPT !.model = cfg.model]
    BY <2>1
  <2> QED
    BY <2>1, <2>2, RowTypes DEF ToEmbed, ToUpload, Types
<1>5. DOMAIN done = 1..Len(batch) /\ Len(batch) \in Nat
  BY <1>2
<1> HIDE DEF done
<1>6. done \in Seq(ToUpload) /\ Len(done) = Len(batch)
  <2>1. \A i \in 1..Len(batch) : done[i] \in ToUpload
    BY <1>4
  <2>2. done = [i \in 1..Len(batch) |-> done[i]]
    BY <1>5 DEF done
  <2> QED
    BY <1>5, <2>1, <2>2
<1>7. /\ pendingUpload' \in Seq(ToUpload)
      /\ Range(pendingUpload') = Range(pendingUpload) \cup Range(done)
  BY <1>3, <1>6, ConcatRange DEF Types, RunTypes
<1>8. \A k \in Range(done) : \E e \in Range(batch) :
        e.id = k.id /\ e.src = k.src /\ e.rev = k.rev
  BY <1>4, <1>6, RangeOf
<1>9. \A e \in Range(batch) : \E k \in Range(done) : k.id = e.id
  <2> TAKE e \in Range(batch)
  <2>1. PICK i \in 1..Len(batch) : batch[i] = e
    BY <1>2, RangeOf
  <2>2. done[i] \in Range(done)
    BY <1>6, RangeOf
  <2> QED
    BY <1>4, <2>1, <2>2
<1> QED
  BY <1>2, <1>3, <1>7, <1>8, <1>9

\* upsertBatch moves a batch of the upload queue to the store in use.
LEMMA UploadTypes ==
  ASSUME StoredTypes, pendingUpload \in Seq(ToUpload),
         NEW n \in 0..Len(pendingUpload), UpsertBatch(n), cfg' = cfg
  PROVE  /\ stores' \in [StoreNames -> [Hashes -> StoreRows \cup {NoRow}]]
         /\ staged' \in [Hashes -> StagedRows \cup {NoRow}]
         /\ pendingUpload' \in Seq(ToUpload)
         /\ SubSeq(pendingUpload, 1, n) \in Seq(ToUpload)
         /\ rows' = Upserted(SubSeq(pendingUpload, 1, n))
         /\ \A c \in Hashes :
              staged'[c] = IF c \in Ids(SubSeq(pendingUpload, 1, n))
                           THEN NoRow ELSE staged[c]
         /\ Range(pendingUpload) =
              Range(SubSeq(pendingUpload, 1, n)) \cup Range(pendingUpload')
<1> DEFINE batch == SubSeq(pendingUpload, 1, n)
<1>1. /\ batch \in Seq(ToUpload) /\ pendingUpload' \in Seq(ToUpload)
      /\ Range(pendingUpload) = Range(batch) \cup Range(pendingUpload')
  BY SplitRange DEF UpsertBatch
<1>2. /\ stores' = [stores EXCEPT ![cfg.store] = Upserted(batch)]
      /\ staged' = [c \in Hashes |-> IF c \in Ids(batch) THEN NoRow ELSE staged[c]]
  BY DEF UpsertBatch
<1> HIDE DEF batch
<1>3. /\ stores' \in [StoreNames -> [Hashes -> StoreRows \cup {NoRow}]]
      /\ rows' = Upserted(batch)
  BY <1>1, <1>2, UpsertedRows, StoreWritten
<1>4. /\ staged' \in [Hashes -> StagedRows \cup {NoRow}]
      /\ \A c \in Hashes :
           staged'[c] = IF c \in Ids(batch) THEN NoRow ELSE staged[c]
  BY <1>2 DEF StoredTypes
<1> QED
  BY <1>1, <1>3, <1>4 DEF batch

\* What an upsert is sending comes from the upload queue.
LEMMA InFlightTypes ==
  ASSUME Types
  PROVE  InFlight \in Seq(ToUpload) /\ Range(InFlight) \subseteq Range(pendingUpload)
<1>1. CASE step = "upload" /\ UploadDue
  <2>1. MinUploadBatch \in 0..Len(pendingUpload)
    BY <1>1, SizesAssumption DEF UploadDue, Types, RunTypes
  <2> QED
    BY <1>1, <2>1, SplitRange DEF InFlight, Types, RunTypes
<1>2. CASE ~(step = "upload" /\ UploadDue)
  BY <1>2, EmptySeq, EmptyRange DEF InFlight, Types, RunTypes
<1> QED
  BY <1>1, <1>2

\* Between two runs no worker and no job holds a file, so the tree may change.
LEMMA NothingHeld ==
  ASSUME Types, phase \in {"idle", "scan"},
         UNCHANGED <<todo, toDelete, busy, waiters, chain, newHashes>>
  PROVE  PoolTypes' /\ Waits'
<1>1. /\ todo' = <<>> /\ toDelete' = {} /\ waiters' = <<>> /\ chain' = <<>>
      /\ DOMAIN newHashes' = {} /\ busy' = [w \in Workers |-> <<>>]
  BY DEF Types, Quiet, PoolTypes
<1>2. PoolTypes'
  BY <1>1, EmptySeq DEF PoolTypes
<1> QED
  BY <1>1, <1>2 DEF Waits

\* A step that does not touch the tree and the pool.
LEMMA PoolSame ==
  ASSUME Types, UNCHANGED <<tree, todo, toDelete, busy, waiters, chain, newHashes>>
  PROVE  PoolTypes' /\ Waits'
BY SameTree DEF Types, PoolTypes, Waits

\* The tree changes while no run is under way.
LEMMA EditTypes ==
  ASSUME Types, NEW f \in Files, NEW v, Edit(f, v)
  PROVE  Types'
<1>1. v \in Contents \cup {Absent}
  BY ChoicesAssumption DEF Edit
<1>2. StoredTypes'
  BY <1>1 DEF Edit, sqlite, Types, StoredTypes
<1>3. PoolTypes' /\ Waits'
  BY NothingHeld DEF Edit, pool
<1>4. RunTypes' /\ Quiet'
  BY DEF Edit, queues, pool, Types, RunTypes, Quiet
<1> QED
  BY <1>2, <1>3, <1>4 DEF Types

\* Another configuration does not touch what is stored.
LEMMA SwitchTypes ==
  ASSUME Types, NEW c \in Configs, Switch(c)
  PROVE  Types'
<1>1. StoredTypes'
  BY DEF Switch, sqlite, Types, StoredTypes
<1>2. PoolTypes' /\ Waits'
  BY PoolSame DEF Switch, pool
<1>3. RunTypes' /\ Quiet'
  BY DEF Switch, queues, pool, Types, RunTypes, Quiet
<1> QED
  BY <1>1, <1>2, <1>3 DEF Types

\* A run starts with what is stored, or with an empty staging DB.
LEMMA BeginTypes ==
  ASSUME Types, NEW m \in Modes, Begin(m)
  PROVE  Types'
<1>1. /\ UNCHANGED <<tree, cfg, stores, pool, toDelete, step, queues, newHashes,
                     failed, dropped>>
      /\ phase = "idle" /\ phase' = "scan" /\ outcome' = "none"
      /\ force' \in BOOLEAN
      /\ \/ staged' = EmptyTable /\ revs' = NoRevs /\ meta' = NoMeta
         \/ staged' = staged /\ revs' = revs /\ meta' = meta
  BY DEF Begin, env, sqlite
<1>2. StoredTypes'
  BY <1>1, StagedWritten DEF Types, StoredTypes, NoRevs
<1>3. PoolTypes' /\ Waits'
  BY <1>1, PoolSame DEF pool
<1>4. RunTypes' /\ Quiet'
  BY <1>1 DEF queues, pool, Types, RunTypes, Quiet
<1> QED
  BY <1>2, <1>3, <1>4 DEF Types

\* getChangedFiles lists files of the tree, each once it differs from what is
\* known of it.
LEMMA ChangedFiles ==
  ASSUME StoredTypes, NEW previous
  PROVE  /\ Changed(previous) \in Seq(InTree)
         /\ Range(Changed(previous)) =
              {f \in Files : tree[f] # Absent /\ tree[f] # previous[f]}
<1> DEFINE S == {f \in Files : tree[f] # Absent /\ tree[f] # previous[f]}
<1>1. /\ InOrder(Order, S) \in Seq(Files \cap S)
      /\ Range(InOrder(Order, S)) = Range(Order) \cap S
  BY ContentsAssumption, InOrderProps
<1>2. S \subseteq InTree /\ S \subseteq Files
  BY DEF InTree
<1>3. Range(Order) \cap S = S
  BY <1>2 DEF Files
<1> HIDE DEF S
<1>4. InOrder(Order, S) \in Seq(InTree)
  BY <1>1, <1>2
<1>5. Changed(previous) = InOrder(Order, S)
  BY DEF Changed, S
<1> QED
  BY <1>1, <1>3, <1>4, <1>5 DEF S

\* The comparison of the tree with what is known starts or ends a run.
LEMMA ScanTypes ==
  ASSUME Types, Scan
  PROVE  Types'
<1>1. UNCHANGED <<sqlite, stores, dropped>> /\ phase = "scan"
  BY DEF Scan
<1>2. PICK storeState \in StoreStates :
        LET previous == PreviousState(storeState)
            skip     == Range(Changed(previous)) \cup Gone(previous)
        IN \/ EndRun("ok") \/ EndRun("refused")
           \/ /\ phase' = "prepare"
              /\ todo' = Changed(previous) /\ toDelete' = Gone(previous)
              /\ pendingEmbed' = Resumed(skip, {NoVector})
              /\ pendingUpload' = Resumed(skip, ModelNames)
              /\ UNCHANGED <<env, mode, force, busy, waiters, permits, chain,
                             step, newHashes, failed, outcome>>
  BY Zenon DEF Scan
<1> DEFINE previous == PreviousState(storeState)
           skip == Range(Changed(previous)) \cup Gone(previous)
<1>3. ASSUME NEW how, EndRun(how) PROVE Types'
  <2>1. StoredTypes'
    BY <1>1, <1>3 DEF EndRun, env, sqlite, Types, StoredTypes
  <2> QED
    BY <1>1, <1>3, <2>1, EndRunTypes
<1>4. CASE /\ phase' = "prepare"
           /\ todo' = Changed(previous) /\ toDelete' = Gone(previous)
           /\ pendingEmbed' = Resumed(skip, {NoVector})
           /\ pendingUpload' = Resumed(skip, ModelNames)
           /\ UNCHANGED <<env, mode, force, busy, waiters, permits, chain,
                          step, newHashes, failed, outcome>>
  <2> HIDE DEF previous, skip
  <2>1. StoredTypes'
    BY <1>1, <1>4 DEF env, sqlite, Types, StoredTypes
  <2>2. pendingEmbed' \in Seq(ToEmbed) /\ pendingUpload' \in Seq(ToUpload)
    BY <1>4, ResumedChunks DEF Types, ToEmbed, ToUpload
  <2>3. RunTypes'
    BY <1>1, <1>4, <2>2 DEF Types, RunTypes
  <2>4. todo' \in Seq(InTree)
    BY <1>4, ChangedFiles DEF Types
  <2>5. toDelete' \subseteq Files \ InTree
    BY <1>4 DEF Gone, InTree
  <2>6. PoolTypes'
    BY <1>4, <2>4, <2>5, SameTree DEF Types, PoolTypes, env
  <2>7. Quiet' /\ Waits'
    BY <1>1, <1>4 DEF Types, Quiet, Waits
  <2> QED
    BY <2>1, <2>3, <2>6, <2>7 DEF Types
<1> QED
  BY <1>2, <1>3, <1>4

\* Nothing of a run's memory changes its type before the stream.
LEMMA PrepareTypes ==
  ASSUME Types,
         PrepareUpdate \/ PreWarm \/ (\E f \in Files : ForgetFile(f))
  PROVE  Types'
<1>1. /\ UNCHANGED <<tree, cfg, meta, todo, busy, waiters, chain, step, queues,
                     newHashes, failed, force, outcome, dropped>>
      /\ phase \in {"prepare", "forget"} /\ phase' \in {"forget", "stream"}
      /\ toDelete' \subseteq toDelete
      /\ phase' = "stream" => toDelete' = {}
  BY DEF PrepareUpdate, PreWarm, ForgetFile, env, pool, history, sqlite
<1>2. stores' \in [StoreNames -> [Hashes -> StoreRows \cup {NoRow}]]
  <2>1. \/ stores' = stores
        \/ \E gone : stores' = [stores EXCEPT ![cfg.store] = WithoutRows(gone)]
    BY Zenon DEF PrepareUpdate, PreWarm, ForgetFile
  <2> QED
    BY <2>1, StagedWritten, StoreWritten DEF Types, StoredTypes
<1>3. staged' \in [Hashes -> StagedRows \cup {NoRow}]
  <2>1. \/ staged' = staged
        \/ \E f \in Files : staged' = WithoutStaged(f)
    BY DEF PrepareUpdate, PreWarm, ForgetFile, sqlite
  <2> QED
    BY <2>1, StagedWritten DEF Types, StoredTypes
<1>4. revs' \in [Files -> Contents \cup {NoRev}]
  BY DEF PrepareUpdate, PreWarm, ForgetFile, sqlite, Types, StoredTypes
<1>5. StoredTypes'
  BY <1>1, <1>2, <1>3, <1>4 DEF Types, StoredTypes
<1>6. RunTypes' /\ Quiet'
  BY <1>1 DEF queues, Types, RunTypes, Quiet
<1>7. PoolTypes' /\ Waits'
  BY <1>1, SameTree DEF Types, PoolTypes, Waits
<1> QED
  BY <1>5, <1>6, <1>7 DEF Types

\* Neither what is stored nor the queues change.
StoredAndQueuesSame ==
  UNCHANGED <<env, sqlite, stores, phase, force, toDelete, queues, failed, history>>

\* A worker takes a file, or a job joins the chain: only the pool changes.
LEMMA PoolStepTypes ==
  ASSUME Types, phase = "stream", StoredAndQueuesSame, newHashes' = newHashes,
         step' \in {"idle", "replaced", "embed", "upload"}, PoolTypes', Waits'
  PROVE  Types'
<1> USE DEF StoredAndQueuesSame, env, sqlite, queues, history
<1>1. StoredTypes'
  BY DEF Types, StoredTypes
<1>2. RunTypes' /\ Quiet'
  BY DEF Types, RunTypes, Quiet
<1> QED
  BY <1>1, <1>2 DEF Types

\* A worker takes the first task.
LEMMA TakeTypes ==
  ASSUME Types, NEW w \in Workers, TakeTask(w)
  PROVE  Types' /\ Head(todo) \in InTree /\ Range(todo) = {Head(todo)} \cup Range(todo')
<1>1. /\ Head(todo) \in InTree /\ Tail(todo) \in Seq(InTree)
      /\ Range(todo) = {Head(todo)} \cup Range(Tail(todo))
  BY TailRange DEF TakeTask, Types, PoolTypes
<1>2. PoolTypes'
  BY <1>1, SameTree DEF TakeTask, env, Types, PoolTypes
<1>3. Waits'
  <2>1. busy[w] = <<>> /\ waiters' = waiters
    BY DEF TakeTask
  <2>2. \A i \in DOMAIN waiters : waiters[i].worker \in Workers
    <3>1. \A i \in DOMAIN waiters : waiters[i] \in WaitingJobs
      BY DEF Types, PoolTypes
    <3> QED
      BY <3>1 DEF WaitingJobs
  <2>3. \A i \in DOMAIN waiters : waiters[i].worker # w
    BY <2>1, <2>2 DEF Types, Waits
  <2>4. \A i \in DOMAIN waiters : busy'[waiters[i].worker] = busy[waiters[i].worker]
    BY <2>2, <2>3 DEF TakeTask, Types, PoolTypes
  <2> QED
    BY <2>1, <2>4 DEF Types, Waits
<1>4. StoredAndQueuesSame /\ phase = "stream"
  BY DEF TakeTask, StoredAndQueuesSame
<1>5. step' = step /\ newHashes' = newHashes /\ todo' = Tail(todo)
  BY DEF TakeTask
<1> QED
  BY <1>1, <1>2, <1>3, <1>4, <1>5, PoolStepTypes DEF Types, RunTypes

\* The job that a worker makes of its file, with all chunks or some.
LEMMA ChunkJobs ==
  ASSUME Types, NEW w \in Workers, ChunkFile(w) \/ ChunkerFails(w)
  PROVE  \E job \in Jobs :
           /\ busy[w] = <<job.file>> /\ Acquire(w, job)
           /\ ChunkFile(w) => Range(job.chunks) = Range(ChunksOf[tree[job.file]])
<1> DEFINE f == busy[w][1]
           all == ChunksOf[tree[f]]
<1>1. f \in InTree /\ busy[w] = <<f>>
  BY DEF ChunkFile, ChunkerFails, Types, PoolTypes
<1>2. all \in Seq(Hashes)
  BY <1>1, TreeContents DEF Types
<1> HIDE DEF f
<1>3. ASSUME ChunkFile(w)
      PROVE  \E job \in Jobs :
               /\ busy[w] = <<job.file>> /\ Acquire(w, job)
               /\ Range(job.chunks) = Range(ChunksOf[tree[job.file]])
  <2> DEFINE job == [file |-> f, chunks |-> all]
  <2>1. job \in Jobs
    BY <1>1, <1>2 DEF Jobs
  <2>2. Acquire(w, job)
    BY <1>3 DEF ChunkFile, f
  <2>3. job.file = f /\ job.chunks = all
    OBVIOUS
  <2> QED
    BY <1>1, <2>1, <2>2, <2>3
<1>4. ASSUME ChunkerFails(w)
      PROVE  \E job \in Jobs : busy[w] = <<job.file>> /\ Acquire(w, job)
  <2>1. PICK kept \in SUBSET Range(all) :
          Acquire(w, [file |-> f, chunks |-> InOrder(all, kept)])
    BY <1>4 DEF ChunkerFails, f
  <2> DEFINE job == [file |-> f, chunks |-> InOrder(all, kept)]
  <2>2. /\ InOrder(all, kept) \in Seq(Hashes \cap kept)
        /\ Range(InOrder(all, kept)) = Range(all) \cap kept
    BY <1>2, InOrderProps
  <2>3. InOrder(all, kept) \in Seq(Hashes)
    BY <2>2
  <2>4. job \in Jobs
    BY <1>1, <2>2, <2>3 DEF Jobs
  <2>5. job.file = f
    OBVIOUS
  <2> QED
    BY <1>1, <2>1, <2>4, <2>5
<1>5. CASE ChunkFile(w)
  BY <1>3, <1>5
<1>6. CASE ChunkerFails(w) /\ ~ChunkFile(w)
  BY <1>4, <1>6
<1> QED
  BY <1>5, <1>6

\* A worker hands its file over to the chain.
LEMMA ChunkTypes ==
  ASSUME Types, NEW w \in Workers, ChunkFile(w) \/ ChunkerFails(w)
  PROVE  Types'
<1>1. /\ StoredAndQueuesSame /\ phase = "stream" /\ ~Waiting(w)
      /\ UNCHANGED <<todo, newHashes, step>>
  BY DEF ChunkFile, ChunkerFails, StoredAndQueuesSame
<1>2. PICK job \in Jobs : busy[w] = <<job.file>> /\ Acquire(w, job)
  BY ChunkJobs
<1>3. PoolTypes' /\ Waits'
  BY <1>1, <1>2, AcquireTypes DEF StoredAndQueuesSame, env
<1> QED
  BY <1>1, <1>3, PoolStepTypes DEF Types, RunTypes

\* The running job, of a file of the tree.
LEMMA RunningJob ==
  ASSUME Types, chain # <<>>
  PROVE  /\ Head(chain) \in Jobs
         /\ Head(chain).file \in InTree
         /\ Head(chain).chunks \in Seq(Hashes)
         /\ Range(Head(chain).chunks) \subseteq
              Range(ChunksOf[tree[Head(chain).file]])
<1>1. Head(chain) \in Jobs
  BY TailRange DEF Types, PoolTypes
<1> QED
  BY <1>1 DEF Jobs

\* Staging a file and queueing its chunks.
LEMMA StageTypes ==
  ASSUME PoolInv, Types, ReplaceChunks \/ QueueChunks
  PROVE  Types'
<1> DEFINE job == Head(chain)
<1>0. job.file \in InTree /\ job.chunks \in Seq(Hashes) /\ chain # <<>>
  BY RunningJob DEF PoolInv, JobHeld, ReplaceChunks, QueueChunks
<1>1. job.file \in Files /\ tree[job.file] \in Contents
  BY <1>0, TreeContents DEF Types
<1>2. CASE ReplaceChunks
  <2>1. staged' \in [Hashes -> StagedRows \cup {NoRow}]
    BY <1>1, <1>2, StagedWritten DEF ReplaceChunks, Types
  <2>2. StoredTypes'
    BY <1>2, <2>1 DEF ReplaceChunks, env, Types, StoredTypes
  <2>3. dropped' \subseteq Files
    BY <1>1, <1>2 DEF ReplaceChunks, Types, RunTypes
  <2>4. /\ UNCHANGED <<tree, phase, force, failed, pendingEmbed, pendingUpload,
                       outcome, todo, toDelete, busy, waiters, chain, newHashes>>
        /\ step' = "replaced"
    BY <1>2 DEF ReplaceChunks, env, queues, pool
  <2>5. RunTypes' /\ Quiet'
    BY <2>3, <2>4 DEF Types, RunTypes, Quiet
  <2> QED
    BY <2>2, <2>4, <2>5, PoolSame DEF Types
<1>3. CASE QueueChunks
  <2> DEFINE fresh == InOrder(job.chunks, Hashes \ Existing(job.file))
             new   == [i \in DOMAIN fresh |->
                         Chunk(fresh[i], job.file, tree[job.file], NoVector)]
  <2>1. /\ UNCHANGED <<tree, cfg, staged, meta, stores, phase, force, failed,
                       outcome, dropped, todo, toDelete, busy, waiters, chain,
                       pendingUpload>>
        /\ phase = "stream" /\ step' = "embed"
        /\ revs' = [revs EXCEPT ![job.file] = tree[job.file]]
        /\ pendingEmbed' = pendingEmbed \o new
    BY <1>3 DEF QueueChunks, env, pool, history
  <2>2. StoredTypes'
    BY <1>1, <2>1 DEF Types, StoredTypes
  <2>3. new \in Seq(ToEmbed)
    <3>1. fresh \in Seq(Hashes)
      <4>1. fresh \in Seq(Hashes \cap (Hashes \ Existing(job.file)))
        BY <1>0, InOrderProps
      <4> HIDE DEF fresh
      <4> QED
        BY <4>1
    <3> HIDE DEF fresh
    <3>2. \A i \in 1..Len(fresh) :
            Chunk(fresh[i], job.file, tree[job.file], NoVector) \in ToEmbed
      BY <1>1, <3>1 DEF Chunk, ToEmbed
    <3> QED
      BY <3>1, <3>2
  <2>4. pendingEmbed' \in Seq(ToEmbed)
    BY <2>1, <2>3, ConcatRange DEF Types, RunTypes
  <2>5. RunTypes' /\ Quiet'
    BY <2>1, <2>4 DEF Types, RunTypes, Quiet
  <2>6. /\ DOMAIN newHashes' \subseteq InTree
        /\ \A f \in DOMAIN newHashes' : newHashes'[f] \subseteq Range(ChunksOf[tree[f]])
    <3>1. \/ newHashes' = newHashes
          \/ newHashes' = [g \in DOMAIN newHashes \cup {job.file} |->
                             IF g = job.file THEN Range(job.chunks) ELSE newHashes[g]]
      BY <1>3 DEF QueueChunks
    <3>2. Range(job.chunks) \subseteq Range(ChunksOf[tree[job.file]])
      BY <1>0, RunningJob
    <3> QED
      BY <1>0, <3>1, <3>2 DEF Types, PoolTypes
  <2>7. PoolTypes' /\ Waits'
    BY <2>1, <2>6, SameTree DEF Types, PoolTypes, Waits
  <2> QED
    BY <2>2, <2>5, <2>7 DEF Types
<1> QED
  BY <1>2, <1>3

\* One round of flushEmbed.
LEMMA EmbedTypes ==
  ASSUME PoolInv, Types, EmbedBatch
  PROVE  Types'
<1>1. /\ UNCHANGED <<tree, cfg, revs, stores, phase, force, failed, outcome,
                     dropped, todo, toDelete, busy, waiters, chain, newHashes>>
      /\ meta' = cfg /\ step' = "upload" /\ step = "embed"
  BY DEF EmbedBatch, EmbedDue, env, pool, history
<1>2. staged' \in [Hashes -> StagedRows \cup {NoRow}]
  BY StagedWritten DEF EmbedBatch, Types
<1>3. StoredTypes'
  BY <1>1, <1>2 DEF Types, StoredTypes
<1>4. phase \notin {"idle", "scan"}
  BY <1>1 DEF PoolInv, JobHeld
<1>5. RunTypes' /\ Quiet'
  BY <1>1, <1>4, EmbedBatchTypes DEF Types, RunTypes, Quiet
<1> QED
  BY <1>1, <1>3, <1>5, PoolSame DEF Types

\* Uploads during the stream, of the rest, and none.
LEMMA UploadStepTypes ==
  ASSUME PoolInv, Types, UploadBatch \/ UploadedEnough \/ FlushUpload
  PROVE  Types'
<1>1. /\ UNCHANGED <<tree, cfg, revs, meta, force, failed, outcome,
                     dropped, todo, toDelete, busy, waiters, chain, newHashes,
                     pendingEmbed>>
      /\ \/ phase' = phase /\ step = "upload"
         \/ phase = "flush" /\ phase' = "cleanup"
      /\ step' \in {"idle", "embed", "upload"}
  BY DEF UploadBatch, UploadedEnough, FlushUpload, env, pool, history, queues, sqlite
<1>2. \/ UNCHANGED <<stores, staged, pendingUpload>>
      \/ \E n \in 0..Len(pendingUpload) : UpsertBatch(n)
  <2>1. Len(pendingUpload) \in Nat
    BY DEF Types, RunTypes
  <2>2. CASE UploadBatch
    <3>1. MinUploadBatch \in 0..Len(pendingUpload)
      BY <2>1, <2>2, SizesAssumption DEF UploadBatch, UploadDue
    <3> QED
      BY <2>2, <3>1 DEF UploadBatch
  <2>3. CASE UploadedEnough
    BY <2>3 DEF UploadedEnough, sqlite, queues
  <2>4. CASE FlushUpload
    BY <2>1, <2>4 DEF FlushUpload
  <2> QED
    BY <2>2, <2>3, <2>4
<1>3. /\ stores' \in [StoreNames -> [Hashes -> StoreRows \cup {NoRow}]]
      /\ staged' \in [Hashes -> StagedRows \cup {NoRow}]
      /\ pendingUpload' \in Seq(ToUpload)
  <2>1. CASE UNCHANGED <<stores, staged, pendingUpload>>
    BY <2>1 DEF Types, StoredTypes, RunTypes
  <2>2. ASSUME NEW n \in 0..Len(pendingUpload), UpsertBatch(n)
        PROVE  /\ stores' \in [StoreNames -> [Hashes -> StoreRows \cup {NoRow}]]
               /\ staged' \in [Hashes -> StagedRows \cup {NoRow}]
               /\ pendingUpload' \in Seq(ToUpload)
    BY <1>1, <2>2, UploadTypes DEF Types, RunTypes
  <2> QED
    BY <1>2, <2>1, <2>2
<1>4. StoredTypes'
  BY <1>1, <1>3 DEF Types, StoredTypes
<1>5. phase \notin {"idle", "scan"}
  BY <1>1 DEF PoolInv, JobHeld
<1>6. RunTypes' /\ Quiet'
  BY <1>1, <1>3, <1>5 DEF Types, RunTypes, Quiet
<1> QED
  BY <1>1, <1>4, <1>6, PoolSame DEF Types

\* JobFails: what the failing call left behind.
LEMMA FailedJobTypes ==
  ASSUME PoolInv, Types, JobFails
  PROVE  /\ stores' \in [StoreNames -> [Hashes -> StoreRows \cup {NoRow}]]
         /\ revs' \in [Files -> Contents \cup {NoRev}]
         /\ pendingEmbed' \in Seq(ToEmbed) /\ pendingUpload' \in Seq(ToUpload)
<1>0. chain # <<>>
  BY DEF JobFails, PoolInv, JobHeld, EmbedDue
<1>1. CASE /\ revs' = [revs EXCEPT ![Head(chain).file] = tree[Head(chain).file]]
           /\ UNCHANGED <<stores, queues>>
  <2>1. Head(chain).file \in InTree
    BY <1>0, RunningJob
  <2> QED
    BY <1>1, <2>1, TreeContents DEF queues, Types, StoredTypes, RunTypes
<1>2. CASE /\ EmbedDue
           /\ pendingEmbed' = SubSeq(pendingEmbed, EmbedLimit + 1, Len(pendingEmbed))
           /\ UNCHANGED <<revs, stores, pendingUpload>>
  <2>1. EmbedLimit \in 0..Len(pendingEmbed)
    BY <1>2, EmbedBatchSize DEF Types, RunTypes
  <2> QED
    BY <1>2, <2>1, SplitRange DEF Types, StoredTypes, RunTypes
<1>3. CASE /\ step = "upload" /\ UploadDue
           /\ LET batch == SubSeq(pendingUpload, 1, MinUploadBatch)
              IN \E taken \in SUBSET Ids(batch) :
                   stores' = [stores EXCEPT ![cfg.store] =
                                PartlyUpserted(batch, taken)]
           /\ pendingUpload' = SubSeq(pendingUpload, MinUploadBatch + 1,
                                      Len(pendingUpload))
           /\ UNCHANGED <<revs, pendingEmbed>>
  <2>1. MinUploadBatch \in 0..Len(pendingUpload)
    BY <1>3, SizesAssumption DEF UploadDue, Types, RunTypes
  <2>2. /\ SubSeq(pendingUpload, 1, MinUploadBatch) \in Seq(ToUpload)
        /\ pendingUpload' \in Seq(ToUpload)
    BY <1>3, <2>1, SplitRange DEF Types, RunTypes
  <2>3. stores' \in [StoreNames -> [Hashes -> StoreRows \cup {NoRow}]]
    BY <1>3, <2>2, PartTypes, StoreWritten DEF Types
  <2> QED
    BY <1>3, <2>2, <2>3 DEF Types, StoredTypes, RunTypes
<1> QED
  BY <1>1, <1>2, <1>3 DEF JobFails

\* The end of a job, with and without an error.
LEMMA JobEndTypes ==
  ASSUME PoolInv, Types, JobDone \/ SkipJob \/ JobFails
  PROVE  Types'
<1>1. phase = "stream" /\ chain # <<>> /\ Release
  BY DEF JobDone, SkipJob, JobFails, EmbedDue, PoolInv, JobHeld
<1>2. /\ UNCHANGED <<tree, cfg, staged, meta, phase, force, outcome, dropped,
                     todo, toDelete, newHashes>>
      /\ step' \in {"idle", "replaced", "embed", "upload"}
      /\ failed' \in BOOLEAN
  BY DEF JobDone, SkipJob, JobFails, env, history, sqlite, Types, RunTypes
<1>3. PoolTypes' /\ Waits'
  BY <1>1, <1>2, ReleaseTypes
<1>4. /\ stores' \in [StoreNames -> [Hashes -> StoreRows \cup {NoRow}]]
      /\ revs' \in [Files -> Contents \cup {NoRev}]
      /\ pendingEmbed' \in Seq(ToEmbed) /\ pendingUpload' \in Seq(ToUpload)
  <2>1. CASE JobDone \/ SkipJob
    BY <2>1 DEF JobDone, SkipJob, sqlite, queues, Types, StoredTypes, RunTypes
  <2>2. CASE JobFails
    BY <2>2, FailedJobTypes
  <2> QED
    BY <2>1, <2>2
<1>5. StoredTypes'
  BY <1>2, <1>4 DEF Types, StoredTypes
<1>6. RunTypes'
  BY <1>2, <1>4 DEF Types, RunTypes
<1>7. Quiet'
  BY <1>1, <1>2 DEF Types, Quiet
<1> QED
  BY <1>3, <1>5, <1>6, <1>7 DEF Types

\* When every worker is free nobody waits for a permit.
LEMMA NobodyWaits ==
  ASSUME Types, \A w \in Workers : busy[w] = <<>>
  PROVE  waiters = <<>>
<1> SUFFICES ASSUME waiters # <<>> PROVE FALSE
  OBVIOUS
<1>1. 1 \in DOMAIN waiters /\ waiters[1] \in WaitingJobs
  BY DEF Types, PoolTypes
<1>2. waiters[1].worker \in Workers
  BY <1>1 DEF WaitingJobs
<1>3. busy[waiters[1].worker] = <<waiters[1].job.file>>
  BY <1>1 DEF Types, Waits
<1>4. busy[waiters[1].worker] = <<>>
  BY <1>2
<1>5. \A x : <<x>> # <<>>
  OBVIOUS
<1> QED
  BY <1>3, <1>4, <1>5, Zenon

\* The final flush begins with nothing left in the pool.
LEMMA FlushTypes ==
  ASSUME Types, FlushRest
  PROVE  Types'
<1>1. /\ UNCHANGED <<env, sqlite, stores, force, pool, toDelete, queues,
                     newHashes, failed, history>>
      /\ phase = "stream" /\ phase' = "flush" /\ step' = "embed" /\ ~failed
      /\ todo = <<>> /\ chain = <<>> /\ \A w \in Workers : busy[w] = <<>>
  BY DEF FlushRest, StreamOver
<1>2. waiters = <<>>
  BY <1>1, NobodyWaits
<1>3. StoredTypes'
  BY <1>1 DEF env, sqlite, Types, StoredTypes
<1>4. RunTypes' /\ Quiet'
  BY <1>1, <1>2 DEF queues, pool, history, Types, RunTypes, Quiet
<1> QED
  BY <1>1, <1>3, <1>4, PoolSame DEF env, pool, Types

\* deleteOrphanedChunks of one file.
LEMMA OrphanTypes ==
  ASSUME Types, NEW f \in Files, DeleteOrphans(f)
  PROVE  Types'
<1>1. /\ UNCHANGED <<env, sqlite, phase, force, pool, toDelete, step, queues,
                     failed, history>>
      /\ phase = "cleanup"
      /\ newHashes' = [g \in DOMAIN newHashes \ {f} |-> newHashes[g]]
  BY DEF DeleteOrphans
<1>2. stores' \in [StoreNames -> [Hashes -> StoreRows \cup {NoRow}]]
  BY StagedWritten, StoreWritten DEF DeleteOrphans, Types
<1>3. StoredTypes'
  BY <1>1, <1>2 DEF env, sqlite, Types, StoredTypes
<1>4. RunTypes' /\ Quiet'
  BY <1>1 DEF queues, pool, history, Types, RunTypes, Quiet
<1>5. PoolTypes' /\ Waits'
  BY <1>1, SameTree DEF env, pool, Types, PoolTypes, Waits
<1> QED
  BY <1>3, <1>4, <1>5 DEF Types

\* A run that ends, whatever it leaves behind.
LEMMA RunEndTypes ==
  ASSUME PoolInv, Types, Throw \/ Finish \/ Crash \/ StoreFails \/ Killed
  PROVE  Types'
<1>1. dropped' = dropped /\ \E how : EndRun(how)
  BY DEF Throw, Finish, Crash, StoreFails, Killed
<1>2. StoredTypes'
  <2>1. UNCHANGED env
    BY <1>1 DEF EndRun
  <2>2. CASE Throw \/ Finish \/ Crash
    BY <2>1, <2>2 DEF Throw, Finish, Crash, env, sqlite, Types, StoredTypes
  <2>3. CASE StoreFails
    <3>1. UNCHANGED sqlite
      BY <2>3 DEF StoreFails
    <3>2. \/ \E part : stores' = [stores EXCEPT ![cfg.store] = WithoutRows(part)]
          \/ \E taken : stores' = [stores EXCEPT ![cfg.store] =
                                     PartlyUpserted(InFlight, taken)]
      BY <2>3 DEF StoreFails
    <3>3. stores' \in [StoreNames -> [Hashes -> StoreRows \cup {NoRow}]]
      BY <3>2, StagedWritten, InFlightTypes, PartTypes, StoreWritten DEF Types
    <3> QED
      BY <2>1, <3>1, <3>3 DEF env, sqlite, Types, StoredTypes
  <2>4. CASE Killed
    <3>1. meta' = meta
      BY <2>4 DEF Killed
    <3>2. \/ staged' = EmptyTable \/ staged' = staged
          \/ \E f : staged' = WithoutStaged(f)
          \/ \E batch : staged' = WithVectors(batch)
      BY <2>4 DEF Killed
    <3>3. staged' \in [Hashes -> StagedRows \cup {NoRow}]
      BY <3>2, StagedWritten DEF Types, StoredTypes
    <3>4. revs' \in {revs, NoRevs}
      BY <2>4 DEF Killed
    <3>5. revs' \in [Files -> Contents \cup {NoRev}]
      BY <3>4 DEF NoRevs, Types, StoredTypes
    <3>6. \/ stores' = stores
          \/ stores' = [stores EXCEPT ![cfg.store] = Upserted(InFlight)]
      BY <2>4 DEF Killed
    <3>7. stores' \in [StoreNames -> [Hashes -> StoreRows \cup {NoRow}]]
      <4>1. Upserted(InFlight) \in [Hashes -> StoreRows \cup {NoRow}]
        BY InFlightTypes, UpsertedRows DEF Types
      <4> QED
        BY <3>6, <4>1, StoreWritten DEF Types, StoredTypes
    <3> QED
      BY <2>1, <3>1, <3>3, <3>5, <3>7 DEF env, Types, StoredTypes
  <2> QED
    BY <2>2, <2>3, <2>4
<1> QED
  BY <1>1, <1>2, EndRunTypes

\* The first run finds a tree, a configuration and nothing stored.
LEMMA InitTypes == Init => Types
<1> SUFFICES ASSUME Init PROVE Types
  OBVIOUS
<1>1. StoredTypes
  BY ChoicesAssumption DEF Init, StoredTypes, EmptyTable, NoRevs
<1>2. RunTypes
  BY EmptySeq DEF Init, RunTypes
<1>3. PoolTypes
  BY EmptySeq DEF Init, PoolTypes
<1>4. Quiet /\ Waits
  BY DEF Init, Quiet, Waits
<1> QED
  BY <1>1, <1>2, <1>3, <1>4 DEF Types

\* Every step keeps the types.
LEMMA NextTypes == PoolInv /\ Types /\ [Next]_vars => Types'
<1> SUFFICES ASSUME PoolInv, Types, [Next]_vars PROVE Types'
  OBVIOUS
<1>1. CASE UNCHANGED vars
  <2>1. StoredTypes' /\ RunTypes' /\ Quiet'
    BY <1>1 DEF vars, env, sqlite, queues, pool, history, Types, StoredTypes,
                RunTypes, Quiet
  <2> QED
    BY <1>1, <2>1, PoolSame DEF vars, env, pool, Types
<1>2. ASSUME NEW f \in Files, NEW v, Edit(f, v) PROVE Types'
  BY <1>2, EditTypes
<1>3. ASSUME NEW c \in Configs, Switch(c) PROVE Types'
  BY <1>3, SwitchTypes
<1>4. ASSUME NEW m \in Modes, Begin(m) PROVE Types'
  BY <1>4, BeginTypes
<1>5. CASE Scan
  BY <1>5, ScanTypes
<1>6. CASE PrepareUpdate \/ PreWarm \/ \E f \in Files : ForgetFile(f)
  BY <1>6, PrepareTypes
<1>7. ASSUME NEW w \in Workers, TakeTask(w) PROVE Types'
  BY <1>7, TakeTypes
<1>8. ASSUME NEW w \in Workers, ChunkFile(w) \/ ChunkerFails(w) PROVE Types'
  BY <1>8, ChunkTypes
<1>9. CASE ReplaceChunks \/ QueueChunks
  BY <1>9, StageTypes
<1>10. CASE EmbedBatch
  BY <1>10, EmbedTypes
<1>11. CASE UploadBatch \/ UploadedEnough \/ FlushUpload
  BY <1>11, UploadStepTypes
<1>12. CASE JobDone \/ SkipJob \/ JobFails
  BY <1>12, JobEndTypes
<1>13. CASE FlushRest
  BY <1>13, FlushTypes
<1>14. ASSUME NEW f \in Files, DeleteOrphans(f) PROVE Types'
  BY <1>14, OrphanTypes
<1>15. CASE Throw \/ Finish \/ Crash \/ StoreFails \/ Killed
  BY <1>15, RunEndTypes
<1> QED
  BY <1>1, <1>2, <1>3, <1>4, <1>5, <1>6, <1>7, <1>8, <1>9, <1>10, <1>11,
     <1>12, <1>13, <1>14, <1>15 DEF Next, Running

\* Types and the semaphore's invariant say what TypeOK says.
LEMMA TypesGiveTypeOK == PoolInv /\ Types => TypeOK
<1> SUFFICES ASSUME PoolInv, Types PROVE TypeOK
  OBVIOUS
<1>1. permits \in 0..MaxPendingFiles
  BY SizesAssumption DEF PoolInv, Permits, IsSequence
<1>2. \A w \in Workers : busy[w] = <<>> \/ busy[w][1] \in Files
  BY DEF Types, PoolTypes, InTree
<1>3. \A i \in DOMAIN chain : chain[i].file \in Files
  <2>1. \A i \in DOMAIN chain : chain[i] \in Jobs
    BY DEF Types, PoolTypes
  <2> QED
    BY <2>1 DEF Jobs, InTree
<1>4. /\ Range(pendingEmbed) \subseteq ToEmbed
      /\ Range(pendingUpload) \subseteq ToUpload
  BY RangeOf DEF Types, RunTypes
<1> QED
  BY <1>1, <1>2, <1>3, <1>4 DEF TypeOK, Types, StoredTypes, RunTypes

\* Whatever fails, in whatever order edits, switches and runs come, the staging
\* DB, the stores and the queues hold chunks of contents that the files really
\* had, and a run never works on a file that is not in the tree
\* (orchestrator.ts:110-628).
THEOREM TypeCorrect == Spec => []TypeOK
<1>1. Init => PoolInv /\ Types
  BY InitPool, InitTypes
<1>2. PoolInv /\ Types /\ [Next]_vars => (PoolInv /\ Types)'
  BY NextPool, NextTypes
<1>3. PoolInv /\ Types => TypeOK
  BY TypesGiveTypeOK
<1> QED
  BY <1>1, <1>2, <1>3, PTL DEF Spec

-----------------------------------------------------------------------------
(* What is known of the contents of a file.                                *)

\* The chunks in memory.
Queued == Range(pendingEmbed) \cup Range(pendingUpload)

\* Something that is stored or in memory says that f had the content v.
Trace(f, v) ==
  \/ revs[f] = v
  \/ \E c \in Hashes : staged[c] # NoRow /\ staged[c].src = f /\ staged[c].rev = v
  \/ \E c \in Hashes : rows[c] # NoRow /\ rows[c].src = f /\ rows[c].rev = v
  \/ \E k \in Queued : k.src = f /\ k.rev = v

\* A step that stages nothing and records no revision: rows come from the
\* upload queue and chunks in memory from chunks in memory.
Settles ==
  /\ tree' = tree /\ cfg' = cfg
  /\ \A c \in Hashes :
       staged'[c] # NoRow =>
         /\ staged[c] # NoRow
         /\ staged'[c].src = staged[c].src /\ staged'[c].rev = staged[c].rev
  /\ \A c \in Hashes :
       rows'[c] # NoRow =>
         \/ rows'[c] = rows[c]
         \/ \E k \in Range(pendingUpload) :
              k.id = c /\ rows'[c].src = k.src /\ rows'[c].rev = k.rev
  /\ \A f \in Files : revs'[f] \in {revs[f], NoRev}
  /\ \A k \in Queued' : \E j \in Queued :
       j.id = k.id /\ j.src = k.src /\ j.rev = k.rev

\* Such a step makes no content known.
LEMMA SettlesTrace ==
  ASSUME Types, Settles, NEW f \in Files, NEW v \in Contents, Trace(f, v)'
  PROVE  Trace(f, v)
<1>0. v # NoRev
  BY ValuesAssumption
<1>1. CASE revs'[f] = v
  BY <1>0, <1>1 DEF Settles, Trace
<1>2. CASE \E c \in Hashes :
             staged'[c] # NoRow /\ staged'[c].src = f /\ staged'[c].rev = v
  BY <1>2 DEF Settles, Trace
<1>3. CASE \E c \in Hashes :
             rows'[c] # NoRow /\ rows'[c].src = f /\ rows'[c].rev = v
  BY <1>3 DEF Settles, Trace, Queued
<1>4. CASE \E k \in Queued' : k.src = f /\ k.rev = v
  BY <1>4 DEF Settles, Trace
<1> QED
  BY <1>1, <1>2, <1>3, <1>4 DEF Trace

\* The end of a run keeps what is stored, unless it is killed in a write.
LEMMA EndSettles ==
  ASSUME Types, NEW how, EndRun(how), UNCHANGED <<sqlite, stores>>
  PROVE  Settles
<1>1. /\ tree' = tree /\ cfg' = cfg /\ staged' = staged /\ revs' = revs
      /\ rows' = rows
  BY DEF EndRun, env, sqlite, rows
<1>2. Queued' = {}
  BY EmptyRange DEF EndRun, Queued
<1> QED
  BY <1>1, <1>2 DEF Settles

\* Rows are taken out of the store, staged chunks and revisions from the
\* staging DB.
LEMMA RemovalSettles ==
  ASSUME Types, tree' = tree, cfg' = cfg, queues' = queues,
         staged' = staged \/ (\E f : staged' = WithoutStaged(f)),
         \/ stores' = stores
         \/ \E gone : stores' = [stores EXCEPT ![cfg.store] = WithoutRows(gone)],
         \A f \in Files : revs'[f] \in {revs[f], NoRev}
  PROVE  Settles
<1>1. \A c \in Hashes : staged'[c] # NoRow => staged'[c] = staged[c]
  BY DEF WithoutStaged
<1>2. \A c \in Hashes : rows'[c] # NoRow => rows'[c] = rows[c]
  <2>1. CASE stores' = stores
    BY <2>1 DEF rows
  <2>2. ASSUME NEW gone, stores' = [stores EXCEPT ![cfg.store] = WithoutRows(gone)]
        PROVE  \A c \in Hashes : rows'[c] # NoRow => rows'[c] = rows[c]
    <3>1. rows' = WithoutRows(gone)
      BY <2>2, StagedWritten, StoreWritten DEF Types
    <3> QED
      BY <3>1 DEF WithoutRows
  <2> QED
    BY <2>1, <2>2
<1>3. Queued' = Queued
  BY DEF queues, Queued
<1> QED
  BY <1>1, <1>2, <1>3 DEF Settles

\* Rows of a batch of the upload queue.
LEMMA UpsertSettles ==
  ASSUME Types, NEW batch \in Seq(ToUpload),
         Range(batch) \subseteq Range(pendingUpload),
         NEW taken, rows' = Upserted(batch) \/ rows' = PartlyUpserted(batch, taken)
  PROVE  \A c \in Hashes :
           /\ \/ rows'[c] = rows[c]
              \/ c \in Ids(batch) /\ \E k \in Range(pendingUpload) :
                   /\ k.id = c /\ rows'[c] # NoRow
                   /\ rows'[c].src = k.src /\ rows'[c].rev = k.rev
           /\ rows' = Upserted(batch) /\ c \in Ids(batch) => rows'[c] # NoRow
<1> TAKE c \in Hashes
<1>1. ASSUME c \in Ids(batch)
      PROVE  \E k \in Range(pendingUpload) :
               /\ k.id = c /\ Upserted(batch)[c] # NoRow
               /\ Upserted(batch)[c].src = k.src /\ Upserted(batch)[c].rev = k.rev
  <2>1. PICK k \in Range(batch) :
          k.id = c /\ Upserted(batch)[c] = StoreRow(k.src, k.rev, k.model)
    BY <1>1, UpsertedRows DEF Types
  <2>2. k \in ToUpload
    BY RangeOf
  <2>3. StoreRow(k.src, k.rev, k.model) \in StoreRows
    BY <2>2 DEF StoreRow, StoreRows, ToUpload
  <2>4. /\ StoreRow(k.src, k.rev, k.model).src = k.src
        /\ StoreRow(k.src, k.rev, k.model).rev = k.rev
    BY DEF StoreRow
  <2> QED
    BY <2>1, <2>3, <2>4, ValuesAssumption
<1>2. c \notin Ids(batch) => Upserted(batch)[c] = rows[c]
  BY UpsertedRows DEF Types
<1>3. PartlyUpserted(batch, taken)[c] \in {Upserted(batch)[c], rows[c]}
  BY DEF PartlyUpserted
<1> QED
  BY <1>1, <1>2, <1>3

\* The steps that settle.
Settling ==
  \/ PrepareUpdate \/ PreWarm \/ (\E f \in Files : ForgetFile(f))
  \/ (\E w \in Workers : TakeTask(w) \/ ChunkFile(w) \/ ChunkerFails(w))
  \/ EmbedBatch \/ UploadBatch \/ UploadedEnough \/ FlushUpload
  \/ JobDone \/ SkipJob \/ (JobFails /\ step # "replaced") \/ FlushRest
  \/ (\E f \in Files : DeleteOrphans(f))
  \/ Throw \/ Finish \/ Crash \/ StoreFails \/ Killed
  \/ UNCHANGED vars

\* Which steps settle: all but those that change the world, resume what is
\* staged, stage a file or record its revision.
LEMMA SettlingSteps ==
  ASSUME PoolInv, Types,
         Settling
  PROVE  Settles
<1>1. CASE \/ PrepareUpdate \/ PreWarm \/ (\E f \in Files : ForgetFile(f))
           \/ (\E f \in Files : DeleteOrphans(f))
  <2>1. tree' = tree /\ cfg' = cfg /\ queues' = queues
    BY <1>1 DEF PrepareUpdate, PreWarm, ForgetFile, DeleteOrphans, env
  <2>2. staged' = staged \/ \E f : staged' = WithoutStaged(f)
    BY <1>1 DEF PrepareUpdate, PreWarm, ForgetFile, DeleteOrphans, sqlite
  <2>3. \/ stores' = stores
        \/ \E gone : stores' = [stores EXCEPT ![cfg.store] = WithoutRows(gone)]
    BY <1>1, Zenon DEF PrepareUpdate, PreWarm, ForgetFile, DeleteOrphans
  <2>4. \A f \in Files : revs'[f] \in {revs[f], NoRev}
    BY <1>1 DEF PrepareUpdate, PreWarm, ForgetFile, DeleteOrphans, sqlite, Types, StoredTypes
  <2> QED
    BY <2>1, <2>2, <2>3, <2>4, RemovalSettles
<1>2. CASE \/ (\E w \in Workers : TakeTask(w) \/ ChunkFile(w) \/ ChunkerFails(w))
           \/ UploadedEnough \/ JobDone \/ SkipJob \/ FlushRest \/ UNCHANGED vars
  <2>1. UNCHANGED <<env, sqlite, stores, queues>>
    BY <1>2 DEF TakeTask, ChunkFile, ChunkerFails, UploadedEnough, JobDone,
                SkipJob, FlushRest, vars
  <2> QED
    BY <2>1 DEF env, sqlite, queues, rows, Queued, Settles
<1>3. CASE EmbedBatch
  <2>1. /\ tree' = tree /\ cfg' = cfg /\ revs' = revs /\ stores' = stores
    BY <1>3 DEF EmbedBatch, env
  <2>2. rows' = rows
    BY <2>1 DEF rows
  <2>3. \A c \in Hashes :
          staged'[c] # NoRow =>
            /\ staged[c] # NoRow
            /\ staged'[c].src = staged[c].src /\ staged'[c].rev = staged[c].rev
    BY <1>3, RowTypes DEF EmbedBatch, WithVectors, StagedRows, Types
  <2>4. \A k \in Queued' : \E j \in Queued :
          j.id = k.id /\ j.src = k.src /\ j.rev = k.rev
    BY <1>3, EmbedBatchTypes DEF Queued
  <2> QED
    BY <2>1, <2>2, <2>3, <2>4 DEF Settles
<1>4. CASE UploadBatch \/ FlushUpload
  <2>1. /\ tree' = tree /\ cfg' = cfg /\ revs' = revs /\ pendingEmbed' = pendingEmbed
    BY <1>4 DEF UploadBatch, FlushUpload, env
  <2>2. \/ UNCHANGED <<stores, staged, pendingUpload>>
        \/ \E n \in 0..Len(pendingUpload) : UpsertBatch(n)
    <3>1. Len(pendingUpload) \in Nat
      BY DEF Types, RunTypes
    <3>2. UploadBatch => MinUploadBatch \in 0..Len(pendingUpload)
      BY <3>1, SizesAssumption DEF UploadBatch, UploadDue
    <3> QED
      BY <1>4, <3>1, <3>2 DEF UploadBatch, FlushUpload
  <2>3. ASSUME NEW n \in 0..Len(pendingUpload), UpsertBatch(n) PROVE Settles
    <3> DEFINE batch == SubSeq(pendingUpload, 1, n)
    <3>1. /\ batch \in Seq(ToUpload) /\ rows' = Upserted(batch)
          /\ \A c \in Hashes :
               staged'[c] = IF c \in Ids(batch) THEN NoRow ELSE staged[c]
          /\ Range(pendingUpload) = Range(batch) \cup Range(pendingUpload')
      BY <2>1, <2>3, UploadTypes DEF Types, RunTypes
    <3> HIDE DEF batch
    <3>2. Range(batch) \subseteq Range(pendingUpload)
      BY <3>1
    <3>3. \A c \in Hashes :
            \/ rows'[c] = rows[c]
            \/ \E k \in Range(pendingUpload) :
                 k.id = c /\ rows'[c].src = k.src /\ rows'[c].rev = k.rev
      BY <3>1, <3>2, UpsertSettles
    <3>4. Queued' \subseteq Queued
      BY <2>1, <3>1 DEF Queued
    <3> QED
      BY <2>1, <3>1, <3>3, <3>4 DEF Settles
  <2>4. CASE UNCHANGED <<stores, staged, pendingUpload>>
    BY <2>1, <2>4 DEF Settles, rows, Queued
  <2> QED
    BY <2>2, <2>3, <2>4
<1>5. CASE JobFails /\ step # "replaced"
  <2>1. tree' = tree /\ cfg' = cfg /\ staged' = staged /\ revs' = revs
    BY <1>5 DEF JobFails, env
  <2>2. CASE /\ EmbedDue
             /\ pendingEmbed' = SubSeq(pendingEmbed, EmbedLimit + 1, Len(pendingEmbed))
             /\ UNCHANGED <<stores, pendingUpload>>
    <3>1. EmbedLimit \in 0..Len(pendingEmbed)
      BY <2>2, EmbedBatchSize DEF Types, RunTypes
    <3>2. Range(pendingEmbed') \subseteq Range(pendingEmbed)
      BY <2>2, <3>1, SplitRange DEF Types, RunTypes
    <3> QED
      BY <2>1, <2>2, <3>2 DEF Settles, rows, Queued
  <2>3. CASE /\ step = "upload" /\ UploadDue
             /\ LET batch == SubSeq(pendingUpload, 1, MinUploadBatch)
                IN \E taken \in SUBSET Ids(batch) :
                     stores' = [stores EXCEPT ![cfg.store] =
                                  PartlyUpserted(batch, taken)]
             /\ pendingUpload' = SubSeq(pendingUpload, MinUploadBatch + 1,
                                        Len(pendingUpload))
             /\ UNCHANGED pendingEmbed
    <3> DEFINE batch == SubSeq(pendingUpload, 1, MinUploadBatch)
    <3>1. MinUploadBatch \in 0..Len(pendingUpload)
      BY <2>3, SizesAssumption DEF UploadDue, Types, RunTypes
    <3>2. /\ batch \in Seq(ToUpload)
          /\ Range(pendingUpload) = Range(batch) \cup Range(pendingUpload')
      BY <2>3, <3>1, SplitRange DEF Types, RunTypes
    <3>3. PICK taken : stores' = [stores EXCEPT ![cfg.store] =
                                    PartlyUpserted(batch, taken)]
      BY <2>3
    <3> HIDE DEF batch
    <3>4. rows' = PartlyUpserted(batch, taken)
      BY <2>1, <3>2, <3>3, PartTypes, StoreWritten DEF Types
    <3>5. \A c \in Hashes :
            \/ rows'[c] = rows[c]
            \/ \E k \in Range(pendingUpload) :
                 k.id = c /\ rows'[c].src = k.src /\ rows'[c].rev = k.rev
      BY <3>2, <3>4, UpsertSettles
    <3>6. Queued' \subseteq Queued
      BY <2>3, <3>2 DEF Queued
    <3> QED
      BY <2>1, <3>5, <3>6 DEF Settles
  <2> QED
    BY <1>5, <2>2, <2>3 DEF JobFails
<1>6. CASE Throw \/ Finish \/ Crash
  <2>1. UNCHANGED <<sqlite, stores>> /\ \E how : EndRun(how)
    BY <1>6 DEF Throw, Finish, Crash
  <2> QED
    BY <2>1, EndSettles
<1>7. CASE StoreFails
  <2>1. UNCHANGED sqlite /\ EndRun("failed")
    BY <1>7 DEF StoreFails
  <2>2. /\ tree' = tree /\ cfg' = cfg /\ staged' = staged /\ revs' = revs
        /\ Queued' = {}
    BY <2>1, EmptyRange DEF EndRun, env, sqlite, Queued
  <2>3. ASSUME NEW part, stores' = [stores EXCEPT ![cfg.store] = WithoutRows(part)]
        PROVE  \A c \in Hashes : rows'[c] # NoRow => rows'[c] = rows[c]
    <3>1. rows' = WithoutRows(part)
      BY <2>2, <2>3, StagedWritten, StoreWritten DEF Types
    <3> QED
      BY <3>1 DEF WithoutRows
  <2>4. ASSUME NEW taken, stores' = [stores EXCEPT ![cfg.store] =
                                       PartlyUpserted(InFlight, taken)]
        PROVE  \A c \in Hashes :
                 \/ rows'[c] = rows[c]
                 \/ \E k \in Range(pendingUpload) :
                      k.id = c /\ rows'[c].src = k.src /\ rows'[c].rev = k.rev
    <3>1. rows' = PartlyUpserted(InFlight, taken)
      BY <2>2, <2>4, InFlightTypes, PartTypes, StoreWritten DEF Types
    <3> QED
      BY <3>1, InFlightTypes, UpsertSettles
  <2>5. \/ \E part : stores' = [stores EXCEPT ![cfg.store] = WithoutRows(part)]
        \/ \E taken : stores' = [stores EXCEPT ![cfg.store] =
                                   PartlyUpserted(InFlight, taken)]
    BY <1>7 DEF StoreFails
  <2> QED
    BY <2>2, <2>3, <2>4, <2>5 DEF Settles
<1>8. CASE Killed
  <2>1. EndRun("failed")
    BY <1>8 DEF Killed
  <2>2. tree' = tree /\ cfg' = cfg /\ Queued' = {}
    BY <2>1, EmptyRange DEF EndRun, env, Queued
  <2>3. \A f \in Files : revs'[f] \in {revs[f], NoRev}
    BY <1>8 DEF Killed, NoRevs
  <2>4. \A c \in Hashes :
          staged'[c] # NoRow =>
            /\ staged[c] # NoRow
            /\ staged'[c].src = staged[c].src /\ staged'[c].rev = staged[c].rev
    <3>1. \/ staged' = EmptyTable \/ staged' = staged
          \/ \E f : staged' = WithoutStaged(f)
          \/ \E batch : staged' = WithVectors(batch)
      BY <1>8 DEF Killed
    <3>2. ASSUME NEW batch, staged' = WithVectors(batch)
          PROVE  \A c \in Hashes :
                   staged'[c] # NoRow =>
                     /\ staged[c] # NoRow
                     /\ staged'[c].src = staged[c].src
                     /\ staged'[c].rev = staged[c].rev
      BY <3>2, RowTypes DEF WithVectors, StagedRows, Types
    <3>3. CASE staged' = EmptyTable \/ staged' = staged
               \/ \E f : staged' = WithoutStaged(f)
      BY <3>3 DEF EmptyTable, WithoutStaged
    <3> QED
      BY <3>1, <3>2, <3>3
  <2>5. \A c \in Hashes :
          \/ rows'[c] = rows[c]
          \/ \E k \in Range(pendingUpload) :
               k.id = c /\ rows'[c].src = k.src /\ rows'[c].rev = k.rev
    <3>1. \/ stores' = stores
          \/ stores' = [stores EXCEPT ![cfg.store] = Upserted(InFlight)]
      BY <1>8 DEF Killed
    <3>2. Upserted(InFlight) \in [Hashes -> StoreRows \cup {NoRow}]
      BY InFlightTypes, UpsertedRows DEF Types
    <3>3. rows' = rows \/ rows' = Upserted(InFlight)
      BY <2>2, <3>1, <3>2, StoreWritten DEF rows, Types
    <3> QED
      BY <3>3, InFlightTypes, UpsertSettles
  <2> QED
    BY <2>2, <2>3, <2>4, <2>5 DEF Settles
<1> QED
  BY <1>1, <1>2, <1>3, <1>4, <1>5, <1>6, <1>7, <1>8 DEF Settling

\* The ages that the contents of every file can be given so that an edit only
\* makes a file older.
Ages ==
  {A \in [Files -> [Contents \cup {Absent} -> Nat]] :
     \A e \in Edits : A[e[1]][e[2]] < A[e[1]][e[3]]}

\* No file ever returns to contents that it had before.
NothingReturns == Ages # {}

Age == CHOOSE A \in Ages : TRUE

\* How run() may be called when nobody forces it.
Unforced == "force" \notin Modes

\* The configuration has not been changed, which forces a run too.
SameConfiguration == force = FALSE /\ meta \in {NoMeta, cfg}

\* A chunk belongs to the contents that it is said to come from.
Contained ==
  /\ \A c \in Hashes : staged[c] # NoRow => c \in Range(ChunksOf[staged[c].rev])
  /\ \A c \in Hashes : rows[c] # NoRow => c \in Range(ChunksOf[rows[c].rev])
  /\ \A k \in Queued : k.id \in Range(ChunksOf[k.rev])

\* What is known of a file is not newer than the file.
NotNewer ==
  \A f \in Files, v \in Contents : Trace(f, v) => Age[f][v] <= Age[f][tree[f]]

\* The chunks in memory of a file of the tree are up to date.
QueuedCurrent == \A k \in Queued : k.src \in InTree => k.rev = tree[k.src]

\* Once the contents of a file are known, nothing older of it is staged: without
\* this a file that did not change would be resumed from an older version.
StagedCurrent ==
  \A f \in InTree :
    Trace(f, tree[f]) =>
      \A c \in Hashes : staged[c] # NoRow /\ staged[c].src = f => staged[c].rev = tree[f]

\* Between the staging of a file and the record of its revision the staged
\* chunks of the file are those of the job.
Replacing ==
  phase = "stream" /\ step = "replaced" =>
    LET job == Head(chain)
    IN /\ \A c \in Hashes :
            staged[c] # NoRow /\ staged[c].src = job.file =>
              c \in Range(job.chunks) /\ staged[c].rev = tree[job.file]
       /\ \A c \in Range(job.chunks) :
            staged[c] # NoRow /\ staged[c].src = job.file
       /\ \/ Range(job.chunks) = Range(ChunksOf[tree[job.file]])
          \/ job.file \in dropped

Knowledge ==
  /\ SameConfiguration /\ Contained /\ NotNewer
  /\ QueuedCurrent /\ StagedCurrent /\ Replacing

\* The ages are numbers, and an edit makes a file older.
LEMMA AgeProps ==
  ASSUME NothingReturns
  PROVE  /\ Age \in [Files -> [Contents \cup {Absent} -> Nat]]
         /\ \A e \in Edits : Age[e[1]][e[2]] < Age[e[1]][e[3]]
BY DEF NothingReturns, Age, Ages

\* A step that settles keeps what is known of the files.
LEMMA SettlesKeeps ==
  ASSUME Types, Knowledge, Settles
  PROVE  Contained' /\ NotNewer' /\ QueuedCurrent' /\ StagedCurrent'
<1> USE DEF Knowledge
<1>1. Contained'
  BY DEF Contained, Settles, Queued
<1>2. NotNewer'
  BY SettlesTrace DEF NotNewer, Settles
<1>3. InTree' = InTree /\ tree' = tree
  BY SameTree DEF Settles
<1>4. QueuedCurrent'
  BY <1>3 DEF QueuedCurrent, Settles
<1>5. StagedCurrent'
  <2> SUFFICES ASSUME NEW f \in InTree, Trace(f, tree[f])',
                      NEW c \in Hashes, staged'[c] # NoRow, staged'[c].src = f
               PROVE  staged'[c].rev = tree[f]
    BY <1>3 DEF StagedCurrent
  <2>1. tree[f] \in Contents /\ f \in Files
    BY TreeContents DEF Types
  <2>2. Trace(f, tree[f])
    BY <1>3, <2>1, SettlesTrace
  <2> QED
    BY <2>2 DEF StagedCurrent, Settles
<1> QED
  BY <1>1, <1>2, <1>4, <1>5

\* An edit makes the file older than all that is known of it.
LEMMA EditKeeps ==
  ASSUME NothingReturns, Types, Knowledge, NEW f \in Files, NEW v, Edit(f, v)
  PROVE  Knowledge'
<1> USE DEF Knowledge
<1>1. /\ UNCHANGED <<cfg, sqlite, stores, phase, force, queues>>
      /\ tree' = [tree EXCEPT ![f] = v] /\ <<f, tree[f], v>> \in Edits
      /\ phase = "idle"
  BY DEF Edit
<1>2. /\ v \in Contents \cup {Absent} /\ tree[f] \in Contents \cup {Absent}
      /\ \A g \in Files : tree'[g] = IF g = f THEN v ELSE tree[g]
  BY <1>1, ChoicesAssumption DEF Types, StoredTypes
<1>3. rows' = rows /\ staged' = staged /\ revs' = revs /\ Queued' = Queued
  BY <1>1 DEF rows, sqlite, queues, Queued
<1>4. \A g, u : Trace(g, u)' <=> Trace(g, u)
  BY <1>3 DEF Trace
<1>5. Age[f][tree[f]] < Age[f][v]
  BY <1>1, AgeProps
<1>6. /\ \A g \in Files, u \in Contents \cup {Absent} : Age[g][u] \in Nat
      /\ Age[f][tree[f]] \in Nat /\ Age[f][v] \in Nat
  BY <1>2, AgeProps
<1>7. NotNewer'
  <2> SUFFICES ASSUME NEW g \in Files, NEW u \in Contents, Trace(g, u)
               PROVE  Age[g][u] <= Age[g][tree'[g]]
    BY <1>4 DEF NotNewer
  <2>1. Age[g][u] <= Age[g][tree[g]]
    BY DEF NotNewer
  <2>2. CASE g = f
    BY <1>2, <1>5, <1>6, <2>1, <2>2
  <2>3. CASE g # f
    BY <1>2, <2>1, <2>3
  <2> QED
    BY <2>2, <2>3
<1>8. Contained'
  BY <1>3 DEF Contained
<1>9. Queued = {} /\ QueuedCurrent'
  <2>1. Queued = {}
    BY <1>1, EmptyRange DEF Types, Quiet, Queued
  <2> QED
    BY <1>3, <2>1 DEF QueuedCurrent
<1>10. StagedCurrent'
  <2> SUFFICES ASSUME NEW g \in InTree', Trace(g, tree'[g]),
                      NEW c \in Hashes, staged[c] # NoRow, staged[c].src = g
               PROVE  staged[c].rev = tree'[g]
    BY <1>3, <1>4 DEF StagedCurrent
  <2>1. g \in Files /\ tree'[g] # Absent
    BY DEF InTree
  <2>2. CASE g # f
    <3>1. tree'[g] = tree[g] /\ g \in InTree
      BY <1>2, <2>1, <2>2 DEF InTree
    <3> QED
      BY <3>1 DEF StagedCurrent
  <2>3. CASE g = f
    <3>1. tree'[g] = v /\ v \in Contents
      BY <1>2, <2>1, <2>3
    <3>2. Age[f][v] <= Age[f][tree[f]]
      BY <2>3, <3>1 DEF NotNewer
    <3> QED
      BY <1>5, <1>6, <3>2
  <2> QED
    BY <2>2, <2>3
<1>11. SameConfiguration' /\ Replacing'
  BY <1>1 DEF SameConfiguration, Replacing, sqlite
<1> QED
  BY <1>7, <1>8, <1>9, <1>10, <1>11

\* A run that nobody forces starts with what is stored.
LEMMA BeginUnforced ==
  ASSUME Unforced, Types, SameConfiguration, NEW m \in Modes, Begin(m)
  PROVE  /\ UNCHANGED <<env, sqlite, stores, pool, toDelete, step, queues,
                        newHashes, failed, dropped, counters>>
         /\ force' = FALSE /\ phase = "idle" /\ phase' = "scan"
         /\ mode' = m /\ outcome' = "none"
<1>1. m # "force" /\ ~ModelChanged
  BY DEF Unforced, SameConfiguration, ModelChanged
<1> QED
  BY <1>1 DEF Begin

\* Nothing is known at the start of a run that was not known before.
LEMMA BeginKeeps ==
  ASSUME Unforced, Types, Knowledge, NEW m \in Modes, Begin(m)
  PROVE  Knowledge'
<1>1. /\ UNCHANGED <<env, sqlite, stores, queues>>
      /\ force' = FALSE /\ phase' = "scan"
  BY BeginUnforced DEF Knowledge
<1>2. Settles
  BY <1>1 DEF env, sqlite, queues, rows, Queued, Settles
<1>3. SameConfiguration' /\ Replacing'
  BY <1>1 DEF SameConfiguration, Replacing, Knowledge, env, sqlite
<1> QED
  BY <1>2, <1>3, SettlesKeeps DEF Knowledge

\* A file that the comparison with the tree passes over is either in the tree
\* and known with its contents, or neither in the tree nor known.
LEMMA PassedOver ==
  ASSUME Types, SameConfiguration, NEW storeState \in StoreStates,
         NEW f \in Files,
         f \notin Range(Changed(PreviousState(storeState))),
         f \notin Gone(PreviousState(storeState))
  PROVE  /\ f \in InTree => Trace(f, tree[f])
         /\ f \notin InTree => revs[f] = NoRev
         /\ \A c \in Hashes : rows[c] # NoRow /\ rows[c].src = f =>
              /\ f \in InTree
              /\ \E d \in Hashes :
                   rows[d] # NoRow /\ rows[d].src = f /\ rows[d].rev = tree[f]
<1> DEFINE previous == PreviousState(storeState)
           found == {rows[c].rev : c \in {d \in Hashes : rows[d] # NoRow
                                                      /\ rows[d].src = f}}
<1>1. previous[f] = IF storeState[f] # NoRev THEN storeState[f] ELSE revs[f]
  BY DEF PreviousState, SameConfiguration
<1>2. IF found = {} THEN storeState[f] = NoRev ELSE storeState[f] \in found
  BY DEF StoreStates
<1>3. f \in InTree => previous[f] = tree[f]
  BY ChangedFiles DEF InTree, Types
<1>4. f \notin InTree => previous[f] = NoRev
  BY DEF Gone, InTree
<1>5. NoRev \notin found
  BY RowTypes, ValuesAssumption DEF StoreRows, Types
<1> HIDE DEF previous
<1>6. ASSUME NEW c \in Hashes, rows[c] # NoRow, rows[c].src = f
      PROVE  storeState[f] \in found
  BY <1>2, <1>6
<1>7. storeState[f] \in found =>
        \E d \in Hashes : rows[d] # NoRow /\ rows[d].src = f /\ rows[d].rev = storeState[f]
  OBVIOUS
<1> HIDE DEF found
<1>8. f \in InTree => Trace(f, tree[f])
  BY <1>1, <1>2, <1>3, <1>7 DEF Trace
<1>9. f \notin InTree => revs[f] = NoRev
  BY <1>1, <1>4
<1>10. ASSUME NEW c \in Hashes, rows[c] # NoRow, rows[c].src = f
       PROVE  /\ f \in InTree
              /\ \E d \in Hashes :
                   rows[d] # NoRow /\ rows[d].src = f /\ rows[d].rev = tree[f]
  <2>1. storeState[f] # NoRev /\ previous[f] = storeState[f]
    BY <1>1, <1>5, <1>6, <1>10
  <2>2. f \in InTree /\ storeState[f] = tree[f]
    BY <1>3, <1>4, <2>1
  <2> QED
    BY <1>6, <1>7, <1>10, <2>2
<1> QED
  BY <1>8, <1>9, <1>10

\* A run that goes on after the comparison resumes what the skipped files
\* leave; one that ends has nothing to do, or too much to delete.
Resumes(storeState) ==
  LET previous == PreviousState(storeState)
      skip     == Range(Changed(previous)) \cup Gone(previous)
  IN /\ phase' = "prepare"
     /\ todo' = Changed(previous) /\ toDelete' = Gone(previous)
     /\ pendingEmbed' = Resumed(skip, {NoVector})
     /\ pendingUpload' = Resumed(skip, ModelNames)
     /\ UNCHANGED <<env, mode, force, busy, waiters, permits, chain, step,
                    newHashes, failed, outcome>>

\* Nothing has changed and nothing is left over.
NothingToDo(storeState) ==
  LET previous == PreviousState(storeState)
      skip     == Range(Changed(previous)) \cup Gone(previous)
  IN /\ skip = {}
     /\ Resumed(skip, {NoVector}) = <<>> /\ Resumed(skip, ModelNames) = <<>>

\* The ways the comparison ends.
LEMMA ScanCases ==
  ASSUME Scan
  PROVE  /\ UNCHANGED <<sqlite, stores, dropped, counters>> /\ phase = "scan"
         /\ \E storeState \in StoreStates :
              \/ Resumes(storeState)
              \/ NothingToDo(storeState) /\ EndRun("ok")
              \/ EndRun("refused")
<1>1. UNCHANGED <<sqlite, stores, dropped, counters>> /\ phase = "scan"
  BY DEF Scan
<1> QED
  BY <1>1, Zenon DEF Scan, Resumes, NothingToDo

\* What a run resumes is staged, and belongs to files that it does not chunk
\* again or forget.
LEMMA ResumedQueue ==
  ASSUME Types, NEW storeState \in StoreStates, Resumes(storeState)
  PROVE  \A k \in Queued' :
           /\ k.id \in Hashes /\ staged[k.id] # NoRow
           /\ k.src = staged[k.id].src /\ k.rev = staged[k.id].rev
           /\ k.src \in Files \ (Range(todo') \cup toDelete')
<1> DEFINE previous == PreviousState(storeState)
           skip     == Range(Changed(previous)) \cup Gone(previous)
<1>1. /\ pendingEmbed' = Resumed(skip, {NoVector})
      /\ pendingUpload' = Resumed(skip, ModelNames)
      /\ skip = Range(todo') \cup toDelete'
  BY DEF Resumes
<1> HIDE DEF previous, skip
<1>2. \A k \in Queued' :
        /\ k.id \in Hashes /\ staged[k.id] # NoRow
        /\ k.src = staged[k.id].src /\ k.rev = staged[k.id].rev
        /\ k.src \notin skip
  BY <1>1, ResumedFrom DEF Queued, Types
<1> QED
  BY <1>1, <1>2, RowTypes DEF Types, StagedRows

\* What a run resumes is up to date.
LEMMA ScanKeeps ==
  ASSUME Types, Knowledge, Scan
  PROVE  Knowledge'
<1> USE DEF Knowledge
<1>1. UNCHANGED <<sqlite, stores, dropped>> /\ phase = "scan"
  BY ScanCases
<1>2. PICK storeState \in StoreStates :
        \/ Resumes(storeState)
        \/ \E how : EndRun(how)
  BY ScanCases
<1>3. CASE \E how : EndRun(how)
  <2>1. Settles
    BY <1>1, <1>3, EndSettles
  <2>2. SameConfiguration' /\ Replacing'
    BY <1>1, <1>3 DEF EndRun, SameConfiguration, Replacing, sqlite, env
  <2> QED
    BY <2>1, <2>2, SettlesKeeps
<1>4. CASE Resumes(storeState)
  <2> DEFINE previous == PreviousState(storeState)
             skip     == Range(Changed(previous)) \cup Gone(previous)
  <2>1. /\ phase' = "prepare" /\ UNCHANGED <<env, force>>
        /\ pendingEmbed' = Resumed(skip, {NoVector})
        /\ pendingUpload' = Resumed(skip, ModelNames)
    BY <1>4 DEF Resumes
  <2>2. /\ tree' = tree /\ cfg' = cfg /\ staged' = staged /\ revs' = revs
        /\ rows' = rows /\ meta' = meta
    BY <1>1, <2>1 DEF env, sqlite, rows
  <2>3. /\ \A f \in Files \ skip : f \in InTree => Trace(f, tree[f])
        /\ skip = Range(todo') \cup toDelete'
    BY <1>4, PassedOver DEF Types, Resumes
  <2> HIDE DEF previous, skip
  <2>4. \A k \in Queued' :
          /\ k.id \in Hashes /\ staged[k.id] # NoRow
          /\ k.src = staged[k.id].src /\ k.rev = staged[k.id].rev
          /\ k.src \in Files \ skip
    BY <1>4, ResumedQueue, <2>3
  <2>5. \A f, v : Trace(f, v)' => Trace(f, v)
    BY <2>2, <2>4 DEF Trace
  <2>6. Contained'
    BY <2>2, <2>4 DEF Contained
  <2>7. NotNewer'
    BY <2>2, <2>5 DEF NotNewer
  <2>8. InTree' = InTree
    BY <2>2, SameTree
  <2>9. QueuedCurrent'
    BY <2>2, <2>3, <2>4, <2>8 DEF QueuedCurrent, StagedCurrent
  <2>10. StagedCurrent'
    BY <2>2, <2>5, <2>8 DEF StagedCurrent
  <2>11. SameConfiguration' /\ Replacing'
    BY <2>1, <2>2 DEF SameConfiguration, Replacing
  <2> QED
    BY <2>6, <2>7, <2>9, <2>10, <2>11
<1> QED
  BY <1>2, <1>3, <1>4

\* Staging g with the content u, and recording it, makes only that known.
LEMMA NewTrace ==
  ASSUME NEW g, NEW u,
         \A c \in Hashes : staged'[c] # NoRow =>
           staged'[c] = staged[c] \/ (staged'[c].src = g /\ staged'[c].rev = u),
         rows' = rows,
         \A h \in Files : revs'[h] = revs[h] \/ (h = g /\ revs'[h] = u),
         \A k \in Queued' : k \in Queued \/ (k.src = g /\ k.rev = u)
  PROVE  \A f \in Files, v \in Contents :
           Trace(f, v)' => Trace(f, v) \/ (f = g /\ v = u)
<1> SUFFICES ASSUME NEW f \in Files, NEW v \in Contents, Trace(f, v)'
             PROVE  Trace(f, v) \/ (f = g /\ v = u)
  OBVIOUS
<1>1. CASE revs'[f] = v
  BY <1>1 DEF Trace
<1>2. CASE \E c \in Hashes :
             staged'[c] # NoRow /\ staged'[c].src = f /\ staged'[c].rev = v
  <2>1. PICK c \in Hashes :
          staged'[c] # NoRow /\ staged'[c].src = f /\ staged'[c].rev = v
    BY <1>2
  <2>2. CASE staged'[c] = staged[c]
    BY <2>1, <2>2 DEF Trace
  <2> QED
    BY <2>1, <2>2
<1>3. CASE \E c \in Hashes :
             rows'[c] # NoRow /\ rows'[c].src = f /\ rows'[c].rev = v
  <2>1. PICK c \in Hashes :
          rows[c] # NoRow /\ rows[c].src = f /\ rows[c].rev = v
    BY <1>3
  <2> QED
    BY <2>1 DEF Trace
<1>4. CASE \E k \in Queued' : k.src = f /\ k.rev = v
  BY <1>4 DEF Trace
<1> QED
  BY <1>1, <1>2, <1>3, <1>4 DEF Trace

\* What replaceChunks writes: the chunks of the job, at the file's revision, and
\* nothing else of the file.
LEMMA ReplacedRows ==
  ASSUME PoolInv, Types, ReplaceChunks
  PROVE  LET job == Head(chain)
             g   == job.file
         IN /\ g \in InTree /\ Range(job.chunks) \subseteq Range(ChunksOf[tree[g]])
            /\ tree' = tree /\ rows' = rows /\ Queued' = Queued /\ InTree' = InTree
            /\ \A c \in Hashes :
                 IF c \in Range(job.chunks)
                 THEN staged'[c] # NoRow /\ staged'[c].src = g /\ staged'[c].rev = tree[g]
                 ELSE staged'[c] = IF staged[c] # NoRow /\ staged[c].src = g
                                   THEN NoRow ELSE staged[c]
            /\ \A f \in Files, v \in Contents :
                 Trace(f, v)' => Trace(f, v) \/ (f = g /\ v = tree[g])
<1> DEFINE job == Head(chain)
           g   == job.file
<1>1. /\ UNCHANGED <<tree, cfg, revs, meta, stores, force, phase, chain, queues>>
      /\ staged' = Replaced(g, tree[g], Range(job.chunks))
      /\ dropped' = IF Range(job.chunks) = Range(ChunksOf[tree[g]])
                    THEN dropped \ {g} ELSE dropped \cup {g}
      /\ chain # <<>>
  BY DEF ReplaceChunks, env, pool
<1>2. /\ g \in InTree /\ g \in Files /\ tree[g] \in Contents
      /\ Range(job.chunks) \subseteq Range(ChunksOf[tree[g]])
      /\ Range(job.chunks) \subseteq Hashes
  <2>1. g \in InTree /\ Range(job.chunks) \subseteq Range(ChunksOf[tree[g]])
    BY <1>1, RunningJob
  <2> QED
    BY <2>1, TreeContents DEF Types
<1>3. rows' = rows /\ Queued' = Queued /\ InTree' = InTree
  BY <1>1, SameTree DEF rows, queues, Queued
<1> HIDE DEF job
<1>4. \A c \in Hashes :
        IF c \in Range(job.chunks)
        THEN staged'[c] # NoRow /\ staged'[c].src = g /\ staged'[c].rev = tree[g]
        ELSE staged'[c] = IF staged[c] # NoRow /\ staged[c].src = g
                          THEN NoRow ELSE staged[c]
  <2> TAKE c \in Hashes
  <2>1. CASE c \in Range(job.chunks)
    <3> DEFINE vec == IF staged[c] = NoRow THEN NoVector ELSE staged[c].vec
    <3>1. staged'[c] = StagedRow(g, tree[g], vec)
      BY <1>1, <2>1 DEF Replaced
    <3>2. vec \in ModelNames \cup {NoVector}
      BY RowTypes DEF Types, StagedRows
    <3> HIDE DEF vec
    <3>3. StagedRow(g, tree[g], vec) \in StagedRows
      BY <1>2, <3>2 DEF StagedRow, StagedRows
    <3> QED
      BY <2>1, <3>1, <3>3, ValuesAssumption DEF StagedRow
  <2>2. CASE c \notin Range(job.chunks)
    BY <1>1, <2>2 DEF Replaced
  <2> QED
    BY <2>1, <2>2
<1>5. \A f \in Files, v \in Contents :
        Trace(f, v)' => Trace(f, v) \/ (f = g /\ v = tree[g])
  <2>1. /\ \A c \in Hashes : staged'[c] # NoRow =>
             staged'[c] = staged[c] \/ (staged'[c].src = g /\ staged'[c].rev = tree[g])
        /\ \A h \in Files : revs'[h] = revs[h] \/ (h = g /\ revs'[h] = tree[g])
        /\ \A k \in Queued' : k \in Queued \/ (k.src = g /\ k.rev = tree[g])
    BY <1>1, <1>3, <1>4
  <2> HIDE DEF g
  <2> QED
    BY <1>3, <2>1, NewTrace
<1> QED
  BY <1>1, <1>2, <1>3, <1>4, <1>5 DEF job

\* replaceChunks leaves of a file what the job has, at the file's revision.
LEMMA ReplaceKeeps ==
  ASSUME NothingReturns, PoolInv, Types, Knowledge, ReplaceChunks
  PROVE  Knowledge'
<1> USE DEF Knowledge
<1> DEFINE job == Head(chain)
           g   == job.file
<1>1. /\ UNCHANGED <<tree, cfg, revs, meta, stores, force, phase, chain, queues>>
      /\ dropped' = IF Range(job.chunks) = Range(ChunksOf[tree[g]])
                    THEN dropped \ {g} ELSE dropped \cup {g}
      /\ chain # <<>>
  BY DEF ReplaceChunks, env, pool
<1>2. /\ g \in InTree /\ g \in Files /\ tree[g] \in Contents
      /\ Range(job.chunks) \subseteq Range(ChunksOf[tree[g]])
      /\ Range(job.chunks) \subseteq Hashes
  BY ReplacedRows, TreeContents DEF Types
<1>3. rows' = rows /\ Queued' = Queued /\ InTree' = InTree
  BY ReplacedRows
<1>4. \A c \in Hashes :
        IF c \in Range(job.chunks)
        THEN staged'[c] # NoRow /\ staged'[c].src = g /\ staged'[c].rev = tree[g]
        ELSE staged'[c] # NoRow => staged'[c] = staged[c] /\ staged[c].src # g
  BY ReplacedRows
<1>5. \A f \in Files, v \in Contents :
        Trace(f, v)' => Trace(f, v) \/ (f = g /\ v = tree[g])
  BY ReplacedRows
<1> HIDE DEF job
<1>6. Contained'
  BY <1>2, <1>3, <1>4 DEF Contained
<1>7. NotNewer'
  <2>1. Age[g][tree[g]] \in Nat
    BY <1>2, AgeProps
  <2> QED
    BY <1>1, <1>5, <2>1 DEF NotNewer
<1>8. QueuedCurrent'
  BY <1>1, <1>3 DEF QueuedCurrent
<1>9. StagedCurrent'
  <2> SUFFICES ASSUME NEW f \in InTree, Trace(f, tree[f])',
                      NEW c \in Hashes, staged'[c] # NoRow, staged'[c].src = f
               PROVE  staged'[c].rev = tree[f]
    BY <1>1, <1>3 DEF StagedCurrent
  <2>1. f \in Files /\ tree[f] \in Contents
    BY TreeContents DEF Types
  <2>2. CASE c \in Range(job.chunks)
    BY <1>4, <2>2
  <2>3. CASE c \notin Range(job.chunks)
    <3>1. staged'[c] = staged[c] /\ staged[c].src # g
      BY <1>4, <2>3
    <3>2. Trace(f, tree[f])
      BY <1>1, <1>5, <2>1, <3>1
    <3> QED
      BY <3>1, <3>2 DEF StagedCurrent
  <2> QED
    BY <2>2, <2>3
<1>10. SameConfiguration'
  BY <1>1 DEF SameConfiguration
<1>11. Replacing'
  <2>1. chain' = chain /\ tree' = tree
    BY <1>1
  <2>2. /\ \A c \in Hashes :
             staged'[c] # NoRow /\ staged'[c].src = g =>
               c \in Range(job.chunks) /\ staged'[c].rev = tree[g]
        /\ \A c \in Range(job.chunks) : staged'[c] # NoRow /\ staged'[c].src = g
        /\ Range(job.chunks) = Range(ChunksOf[tree[g]]) \/ g \in dropped'
    BY <1>1, <1>2, <1>4
  <2> QED
    BY <2>1, <2>2 DEF Replacing, job
<1> QED
  BY <1>6, <1>7, <1>8, <1>9, <1>10, <1>11

\* Recording the revision makes only that known.
LEMMA RevisionTrace ==
  ASSUME PoolInv, Types, step = "replaced", phase = "stream",
         UNCHANGED <<env, stores, staged>>,
         revs' = [revs EXCEPT ![Head(chain).file] = tree[Head(chain).file]],
         \A k \in Queued' :
           \/ k \in Queued
           \/ k.src = Head(chain).file /\ k.rev = tree[Head(chain).file]
  PROVE  \A f \in Files, v \in Contents :
           Trace(f, v)' =>
             Trace(f, v) \/ (f = Head(chain).file /\ v = tree[Head(chain).file])
<1> DEFINE g == Head(chain).file
<1>1. rows' = rows
  BY DEF env, rows
<1> HIDE DEF g
<1>2. \A f \in Files : revs'[f] = revs[f] \/ (f = g /\ revs'[f] = tree[g])
  BY DEF g, Types, StoredTypes
<1>3. /\ \A c \in Hashes : staged'[c] # NoRow =>
           staged'[c] = staged[c] \/ (staged'[c].src = g /\ staged'[c].rev = tree[g])
      /\ \A k \in Queued' : k \in Queued \/ (k.src = g /\ k.rev = tree[g])
  BY DEF g
<1> QED
  BY <1>1, <1>2, <1>3, NewTrace DEF g

\* The revision is recorded once all that is staged of the file has it.
LEMMA RevisionKeeps ==
  ASSUME NothingReturns, PoolInv, Types, Knowledge,
         step = "replaced", phase = "stream",
         UNCHANGED <<env, stores, staged, meta, force>>,
         revs' = [revs EXCEPT ![Head(chain).file] = tree[Head(chain).file]],
         step' # "replaced",
         \A k \in Queued' :
           \/ k \in Queued
           \/ /\ k.src = Head(chain).file /\ k.rev = tree[Head(chain).file]
              /\ k.id \in Range(ChunksOf[k.rev])
  PROVE  Knowledge'
<1> USE DEF Knowledge
<1> DEFINE g == Head(chain).file
<1>1. /\ tree' = tree /\ cfg' = cfg /\ staged' = staged /\ rows' = rows
      /\ InTree' = InTree
  BY SameTree DEF env, rows
<1>2. g \in InTree /\ g \in Files /\ tree[g] \in Contents
  BY RunningJob, TreeContents DEF PoolInv, JobHeld, Types
<1>3. \A c \in Hashes : staged[c] # NoRow /\ staged[c].src = g => staged[c].rev = tree[g]
  BY DEF Replacing
<1> HIDE DEF g
<1>4. \A f \in Files : revs'[f] = IF f = g THEN tree[g] ELSE revs[f]
  BY DEF g, Types, StoredTypes
<1>5. \A f \in Files, v \in Contents :
        Trace(f, v)' => Trace(f, v) \/ (f = g /\ v = tree[g])
  BY RevisionTrace DEF g
<1>6. Contained'
  BY <1>1 DEF Contained, g
<1>7. NotNewer'
  <2>1. Age[g][tree[g]] \in Nat
    BY <1>2, AgeProps
  <2> QED
    BY <1>1, <1>5, <2>1 DEF NotNewer
<1>8. QueuedCurrent'
  BY <1>1 DEF QueuedCurrent, g
<1>9. StagedCurrent'
  <2> SUFFICES ASSUME NEW f \in InTree, Trace(f, tree[f])',
                      NEW c \in Hashes, staged[c] # NoRow, staged[c].src = f
               PROVE  staged[c].rev = tree[f]
    BY <1>1 DEF StagedCurrent
  <2>1. f \in Files /\ tree[f] \in Contents
    BY TreeContents DEF Types
  <2>2. CASE f = g
    BY <1>3, <2>2
  <2>3. CASE f # g
    <3>1. Trace(f, tree[f])
      BY <1>1, <1>5, <2>1, <2>3
    <3> QED
      BY <3>1 DEF StagedCurrent
  <2> QED
    BY <2>2, <2>3
<1>10. SameConfiguration' /\ Replacing'
  BY <1>1 DEF SameConfiguration, Replacing
<1> QED
  BY <1>6, <1>7, <1>8, <1>9, <1>10

\* A worker that joins the chain joins it behind the running job.
LEMMA AcquireHead ==
  ASSUME Types, NEW w, NEW job \in Jobs, Acquire(w, job), chain # <<>>
  PROVE  Head(chain') = Head(chain)
<1>1. chain' = chain \/ chain' = Append(chain, job)
  BY DEF Acquire
<1>2. chain \in Seq(Jobs)
  BY DEF Types, PoolTypes
<1>3. Head(Append(chain, job)) = Head(chain)
  BY <1>2
<1> QED
  BY <1>1, <1>3

\* While a job is being staged only workers move.
LEMMA StagingSteps ==
  ASSUME PoolInv, Types, phase' = "stream", step' = "replaced",
         Settling
  PROVE  /\ phase = "stream" /\ step = "replaced" /\ chain # <<>>
         /\ UNCHANGED <<tree, staged, revs, dropped, newHashes>>
         /\ Head(chain') = Head(chain)
<1>1. \/ \E w \in Workers : TakeTask(w) \/ ChunkFile(w) \/ ChunkerFails(w)
      \/ UNCHANGED vars
  <2>1. ~(PrepareUpdate \/ PreWarm \/ \E f \in Files : ForgetFile(f))
    BY DEF PrepareUpdate, PreWarm, ForgetFile, PoolInv, JobHeld
  <2>2. ~(EmbedBatch \/ UploadBatch \/ UploadedEnough \/ FlushUpload)
    BY DEF EmbedBatch, UploadBatch, UploadedEnough, FlushUpload
  <2>3. ~(JobDone \/ SkipJob \/ JobFails \/ FlushRest)
    BY DEF JobDone, SkipJob, JobFails, FlushRest
  <2>4. ~\E f \in Files : DeleteOrphans(f)
    BY DEF DeleteOrphans
  <2>5. ~(Throw \/ Finish \/ Crash \/ StoreFails \/ Killed)
    BY DEF Throw, Finish, Crash, StoreFails, Killed, EndRun
  <2> QED
    BY <2>1, <2>2, <2>3, <2>4, <2>5 DEF Settling
<1>2. CASE UNCHANGED vars
  BY <1>2 DEF vars, env, sqlite, pool, history, PoolInv, JobHeld
<1>3. ASSUME NEW w \in Workers, TakeTask(w) \/ ChunkFile(w) \/ ChunkerFails(w)
      PROVE  /\ phase = "stream" /\ step = "replaced" /\ chain # <<>>
             /\ UNCHANGED <<tree, staged, revs, dropped, newHashes>>
             /\ Head(chain') = Head(chain)
  <2>1. /\ phase = "stream" /\ step = "replaced"
        /\ UNCHANGED <<tree, staged, revs, dropped, newHashes>>
    BY <1>3 DEF TakeTask, ChunkFile, ChunkerFails, env, sqlite, history
  <2>2. chain # <<>>
    BY <2>1 DEF PoolInv, JobHeld
  <2>3. CASE TakeTask(w)
    BY <2>1, <2>2, <2>3 DEF TakeTask
  <2>4. CASE ChunkFile(w) \/ ChunkerFails(w)
    <3>1. PICK job \in Jobs : Acquire(w, job)
      BY <2>4, ChunkJobs
    <3> QED
      BY <2>1, <2>2, <3>1, AcquireHead
  <2> QED
    BY <1>3, <2>1, <2>2, <2>3, <2>4
<1> QED
  BY <1>1, <1>2, <1>3

\* So are the steps that settle: they keep all of it.
LEMMA SettlingKnowledge ==
  ASSUME PoolInv, Types, Knowledge,
         Settling
  PROVE  Knowledge'
<1>1. Contained' /\ NotNewer' /\ QueuedCurrent' /\ StagedCurrent'
  BY SettlingSteps, SettlesKeeps
<1>2. SameConfiguration'
  <2>1. /\ cfg' = cfg /\ force' \in {force, FALSE} /\ meta' \in {meta, cfg}
    <3>1. CASE \/ PrepareUpdate \/ PreWarm \/ (\E f \in Files : ForgetFile(f))
               \/ (\E f \in Files : DeleteOrphans(f))
               \/ UNCHANGED vars
      BY <3>1 DEF PrepareUpdate, PreWarm, ForgetFile, DeleteOrphans, vars, env, sqlite
    <3>2. CASE \E w \in Workers : TakeTask(w) \/ ChunkFile(w) \/ ChunkerFails(w)
      BY <3>2 DEF TakeTask, ChunkFile, ChunkerFails, env, sqlite
    <3>3. CASE EmbedBatch \/ UploadBatch \/ UploadedEnough \/ FlushUpload
      BY <3>3 DEF EmbedBatch, UploadBatch, UploadedEnough, FlushUpload, env, sqlite
    <3>4. CASE JobDone \/ SkipJob \/ JobFails \/ FlushRest
      BY <3>4 DEF JobDone, SkipJob, JobFails, FlushRest, env, sqlite
    <3>5. CASE Throw \/ Finish \/ Crash \/ StoreFails \/ Killed
      BY <3>5 DEF Throw, Finish, Crash, StoreFails, Killed, EndRun, env, sqlite
    <3> QED
      BY <3>1, <3>2, <3>3, <3>4, <3>5 DEF Settling
  <2> QED
    BY <2>1 DEF Knowledge, SameConfiguration
<1>3. Replacing'
  <2> SUFFICES ASSUME phase' = "stream", step' = "replaced" PROVE Replacing'
    BY DEF Replacing
  <2> QED
    BY StagingSteps DEF Knowledge, Replacing
<1> QED
  BY <1>1, <1>2, <1>3 DEF Knowledge

\* The chunks that a job adds to the embed queue are the file's.
LEMMA QueuedChunks ==
  ASSUME Types, QueueChunks, chain # <<>>
  PROVE  /\ \A k \in Queued' :
              \/ k \in Queued
              \/ /\ k.src = Head(chain).file /\ k.rev = tree[Head(chain).file]
                 /\ k.id \in Range(Head(chain).chunks)
         /\ Queued \subseteq Queued'
         /\ \A c \in Range(Head(chain).chunks) \ Existing(Head(chain).file) :
              \E k \in Queued' : k.id = c
<1> DEFINE job == Head(chain)
           fresh == InOrder(job.chunks, Hashes \ Existing(job.file))
           new == [i \in DOMAIN fresh |->
                     Chunk(fresh[i], job.file, tree[job.file], NoVector)]
<1>1. /\ pendingEmbed' = pendingEmbed \o new
      /\ pendingUpload' = pendingUpload
  BY DEF QueueChunks
<1>2. /\ job.file \in Files /\ tree[job.file] \in Contents
      /\ job.chunks \in Seq(Hashes)
  BY RunningJob, TreeContents DEF Types
<1> HIDE DEF job
<1>3. /\ fresh \in Seq(Hashes \cap (Hashes \ Existing(job.file)))
      /\ Range(fresh) = Range(job.chunks) \cap (Hashes \ Existing(job.file))
  BY <1>2, InOrderProps
<1>4. /\ DOMAIN fresh = 1..Len(fresh) /\ Len(fresh) \in Nat
      /\ \A i \in 1..Len(fresh) : fresh[i] \in Range(fresh) /\ fresh[i] \in Hashes
      /\ \A c \in Range(fresh) : \E i \in 1..Len(fresh) : fresh[i] = c
      /\ Range(job.chunks) \subseteq Hashes
  <2>1. fresh \in Seq(Hashes)
    BY <1>3
  <2>2. Range(job.chunks) \subseteq Hashes
    BY <1>2, RangeOf
  <2>3. /\ Len(fresh) \in Nat /\ DOMAIN fresh = 1..Len(fresh)
        /\ \A i \in 1..Len(fresh) : fresh[i] \in Range(fresh)
        /\ \A c \in Range(fresh) : \E i \in 1..Len(fresh) : fresh[i] = c
    BY <2>1, RangeOf
  <2>4. \A i \in 1..Len(fresh) : fresh[i] \in Hashes
    BY <1>3, <2>3
  <2> QED
    BY <2>2, <2>3, <2>4
<1> HIDE DEF fresh
<1>5. /\ new \in Seq(ToEmbed)
      /\ \A i \in 1..Len(fresh) :
           new[i] = Chunk(fresh[i], job.file, tree[job.file], NoVector)
      /\ Len(new) = Len(fresh)
      /\ \A i \in 1..Len(fresh) : new[i] \in Range(new)
      /\ \A k \in Range(new) : \E i \in 1..Len(fresh) : new[i] = k
  <2>1. \A i \in 1..Len(fresh) :
          Chunk(fresh[i], job.file, tree[job.file], NoVector) \in ToEmbed
    BY <1>2, <1>4 DEF Chunk, ToEmbed
  <2>2. /\ new \in Seq(ToEmbed) /\ Len(new) = Len(fresh)
        /\ \A i \in 1..Len(fresh) :
             new[i] = Chunk(fresh[i], job.file, tree[job.file], NoVector)
    BY <1>4, <2>1
  <2> HIDE DEF new
  <2> QED
    BY <2>2, RangeOf
<1> HIDE DEF new
<1>6. Range(pendingEmbed') = Range(pendingEmbed) \cup Range(new)
  BY <1>1, <1>5, ConcatRange DEF Types, RunTypes
<1>7. ASSUME NEW k \in Range(new)
      PROVE  /\ k.src = job.file /\ k.rev = tree[job.file]
             /\ k.id \in Range(job.chunks)
  <2>1. PICK i \in 1..Len(fresh) : new[i] = k
    BY <1>5
  <2>2. fresh[i] \in Range(fresh) /\ k = Chunk(fresh[i], job.file, tree[job.file], NoVector)
    BY <1>4, <1>5, <2>1
  <2> QED
    BY <1>3, <2>2 DEF Chunk
<1>8. ASSUME NEW c \in Range(job.chunks) \ Existing(job.file)
      PROVE  \E k \in Range(new) : k.id = c
  <2>1. PICK i \in 1..Len(fresh) : fresh[i] = c
    BY <1>3, <1>4
  <2>2. new[i] = Chunk(c, job.file, tree[job.file], NoVector)
    BY <1>5, <2>1
  <2>3. new[i] \in Range(new) /\ new[i].id = c
    BY <1>5, <2>2 DEF Chunk
  <2> QED
    BY <2>3
<1> QED
  BY <1>1, <1>6, <1>7, <1>8 DEF Queued, job

\* As long as the configuration stays what it was, every step keeps what is
\* known of the files.
LEMMA NextKnows ==
  ASSUME NothingReturns, Unforced, PoolInv, Types, Knowledge, [Next]_vars,
         switches \in Nat, switches' = switches
  PROVE  Knowledge'
<1>1. CASE Settling
  BY <1>1, SettlingKnowledge
<1>2. ASSUME NEW f \in Files, NEW v, Edit(f, v) PROVE Knowledge'
  BY <1>2, EditKeeps
<1>3. ASSUME NEW c \in Configs, Switch(c) PROVE FALSE
  <2>1. switches' = switches + 1 /\ switches < MaxSwitches
    BY <1>3 DEF Switch
  <2> QED
    BY <2>1
<1>4. ASSUME NEW m \in Modes, Begin(m) PROVE Knowledge'
  BY <1>4, BeginKeeps
<1>5. CASE Scan
  BY <1>5, ScanKeeps
<1>6. CASE ReplaceChunks
  BY <1>6, ReplaceKeeps
<1>7. CASE QueueChunks
  <2>1. /\ phase = "stream" /\ step = "replaced" /\ chain # <<>>
        /\ UNCHANGED <<env, stores, staged, meta, force>>
        /\ revs' = [revs EXCEPT ![Head(chain).file] = tree[Head(chain).file]]
        /\ step' # "replaced"
    BY <1>7 DEF QueueChunks, PoolInv, JobHeld
  <2>2. \A k \in Queued' :
          \/ k \in Queued
          \/ /\ k.src = Head(chain).file /\ k.rev = tree[Head(chain).file]
             /\ k.id \in Range(ChunksOf[k.rev])
    BY <1>7, <2>1, QueuedChunks, RunningJob
  <2> QED
    BY <2>1, <2>2, RevisionKeeps
<1>8. CASE JobFails /\ step = "replaced"
  <2>1. /\ phase = "stream" /\ step = "replaced"
        /\ UNCHANGED <<env, stores, staged, meta, force, queues>>
        /\ revs' = [revs EXCEPT ![Head(chain).file] = tree[Head(chain).file]]
        /\ step' # "replaced"
    BY <1>8 DEF JobFails, EmbedDue
  <2>2. Queued' = Queued
    BY <2>1 DEF Queued, queues
  <2> QED
    BY <2>1, <2>2, RevisionKeeps
<1> QED
  BY <1>1, <1>2, <1>3, <1>4, <1>5, <1>6, <1>7, <1>8 DEF Next, Running, Settling

-----------------------------------------------------------------------------
(* What is left in the store of the versions that a file had before.       *)

\* Nothing has failed, and the configuration is the first one.
Calm == switches = 0 /\ faults = 0

\* Only chunks that the file has are left in the store.
Clean(f) == \A c \in RowsOf({f}) : f \in InTree /\ c \in Range(ChunksOf[tree[f]])

\* A changed file on its way from the scan to the replacement of its chunks.
Open(f) ==
  \/ f \in Range(todo)
  \/ \E w \in Workers : busy[w] = <<f>>
  \/ \E i \in DOMAIN chain :
       chain[i].file = f /\ (i = 1 => step \in {"idle", "replaced"})

\* ... and on to the removal of its orphaned rows.
Pending(f) == Open(f) \/ f \in DOMAIN newHashes

\* While no run uploads, the file that has rows left of an older version has
\* none of the present one: however getCurrentState chooses among the rows, the
\* next scan finds the file changed.
BetweenRuns ==
  phase \in {"idle", "scan"} \/ ~Uploads =>
    \A f \in Files :
      \/ f \notin InTree
      \/ Clean(f)
      \/ \A c \in RowsOf({f}) : rows[c].rev # tree[f]

\* Such a file is cleaned up before anything is uploaded, or else it stays
\* pending until its orphaned rows are removed.
WhileUploading ==
  phase \notin {"idle", "scan"} /\ Uploads =>
    \A f \in Files :
      \/ Clean(f)
      \/ phase = "prepare" /\ f \in toDelete \cup Range(todo)
      \/ HasOrphanCleanup /\ Pending(f)

\* The revision of a file with staged chunks is recorded, or about to be: a
\* file that is gone is then found gone, and its staged chunks are not resumed.
StagedKnown ==
  \A c \in Hashes :
    staged[c] # NoRow =>
      \/ revs[staged[c].src] # NoRev
      \/ phase = "stream" /\ step = "replaced" /\ staged[c].src = Head(chain).file

\* Nothing in memory belongs to a file that is gone.
QueuedPresent == \A k \in Queued : k.src \in InTree

\* After a run that uploads, every file is clean.
CleanedUp == outcome = "ok" /\ Uploads => \A f \in Files : Clean(f)

Fresh ==
  /\ ~failed /\ BetweenRuns /\ WhileUploading
  /\ StagedKnown /\ QueuedPresent /\ CleanedUp

\* The steps of a run between its preparation and its cleanup, without faults.
MidRun ==
  \/ PreWarm \/ (\E f \in Files : ForgetFile(f))
  \/ (\E w \in Workers : TakeTask(w) \/ ChunkFile(w))
  \/ ReplaceChunks \/ QueueChunks \/ EmbedBatch \/ UploadBatch
  \/ UploadedEnough \/ JobDone \/ FlushRest \/ FlushUpload

\* What they leave alone.
LEMMA MidRunSame ==
  ASSUME PoolInv, Types, MidRun
  PROVE  /\ phase \in {"forget", "stream", "flush"}
         /\ phase' \in {"forget", "stream", "flush", "cleanup"}
         /\ tree' = tree /\ InTree' = InTree /\ UNCHANGED <<cfg, mode, failed>>
         /\ outcome = "none" /\ outcome' = "none"
         /\ ~Uploads => rows' = rows
<1>1. /\ phase \in {"forget", "stream", "flush"}
      /\ phase' \in {"forget", "stream", "flush", "cleanup"}
      /\ UNCHANGED <<env, mode, failed, outcome>>
      /\ ~Uploads => stores' = stores
  <2>1. CASE PreWarm \/ \E f \in Files : ForgetFile(f)
    BY <2>1 DEF PreWarm, ForgetFile, history
  <2>2. CASE \E w \in Workers : TakeTask(w) \/ ChunkFile(w)
    BY <2>2 DEF TakeTask, ChunkFile, history
  <2>3. CASE ReplaceChunks \/ QueueChunks
    BY <2>3 DEF ReplaceChunks, QueueChunks, history
  <2>4. CASE EmbedBatch \/ UploadBatch \/ UploadedEnough
    <3>1. step # "idle"
      BY <2>4 DEF EmbedBatch, EmbedDue, UploadBatch, UploadedEnough
    <3>2. phase \in {"stream", "flush"}
      BY <3>1 DEF PoolInv, JobHeld
    <3> QED
      BY <2>4, <3>2 DEF EmbedBatch, UploadBatch, UploadDue, UploadedEnough, history
  <2>5. CASE JobDone \/ FlushRest \/ FlushUpload
    BY <2>5 DEF JobDone, FlushRest, FlushUpload, StreamOver, history
  <2> QED
    BY <2>1, <2>2, <2>3, <2>4, <2>5 DEF MidRun
<1>2. outcome = "none"
  BY <1>1 DEF Types, Quiet
<1> QED
  BY <1>1, <1>2, SameTree DEF env, rows

\* A step that settles, or that leaves the rows alone, keeps a file clean: it
\* uploads only what the files have.
LEMMA CleanKept ==
  ASSUME Types, Contained, QueuedCurrent, QueuedPresent, tree' = tree,
         NEW f \in Files, Clean(f), Settles \/ rows' = rows
  PROVE  Clean(f)'
<1>1. InTree' = InTree
  BY SameTree
<1> SUFFICES ASSUME NEW c \in Hashes, rows'[c] # NoRow, rows'[c].src = f
             PROVE  f \in InTree /\ c \in Range(ChunksOf[tree[f]])
  BY <1>1 DEF Clean, RowsOf
<1>2. CASE rows'[c] = rows[c]
  BY <1>2 DEF Clean, RowsOf
<1>3. CASE rows'[c] # rows[c]
  <2>1. PICK k \in Queued : k.id = c /\ k.src = f
    BY <1>3 DEF Settles, Queued
  <2>2. f \in InTree /\ k.rev = tree[f]
    BY <2>1 DEF QueuedPresent, QueuedCurrent
  <2> QED
    BY <2>1, <2>2 DEF Contained
<1> QED
  BY <1>2, <1>3

\* The middle of a run keeps a file clean.
LEMMA MidRunClean ==
  ASSUME PoolInv, Types, Contained, QueuedCurrent, QueuedPresent, MidRun,
         NEW f \in Files, Clean(f)
  PROVE  Clean(f)'
<1>1. tree' = tree
  BY MidRunSame
<1>2. Settles \/ rows' = rows
  <2>1. CASE ReplaceChunks \/ QueueChunks
    BY <2>1 DEF ReplaceChunks, QueueChunks, env, rows
  <2> QED
    BY <2>1, SettlingSteps DEF MidRun, Settling
<1> QED
  BY <1>1, <1>2, CleanKept

\* A worker that joins the chain, or waits, keeps every open file open.
LEMMA OpenChunked ==
  ASSUME PoolInv, Types, NEW w \in Workers, ChunkFile(w) \/ ChunkerFails(w),
         NEW f, Open(f)
  PROVE  Open(f)'
<1>1. UNCHANGED <<todo, step, phase>> /\ phase = "stream"
  BY DEF ChunkFile, ChunkerFails
<1>2. PICK job \in Jobs : busy[w] = <<job.file>> /\ Acquire(w, job)
  BY ChunkJobs
<1>3. CASE permits > 0
  <2>1. chain' = Append(chain, job) /\ busy' = [busy EXCEPT ![w] = <<>>]
    BY <1>2, <1>3 DEF Acquire
  <2>2. /\ chain \in Seq(Jobs) /\ Len(chain) \in Nat
        /\ busy \in [Workers -> {<<>>} \cup {<<g>> : g \in InTree}]
    BY DEF Types, PoolTypes
  <2>3. /\ DOMAIN chain' = 1..(Len(chain) + 1) /\ chain'[Len(chain) + 1] = job
        /\ \A i \in DOMAIN chain : i \in DOMAIN chain' /\ chain'[i] = chain[i]
    BY <2>1, <2>2
  <2>4. Len(chain) + 1 = 1 => step \in {"idle", "replaced"}
    BY <1>1, <2>2 DEF PoolInv, JobHeld
  <2>5. ASSUME NEW v \in Workers, busy[v] = <<f>> PROVE Open(f)'
    <3>1. CASE v = w
      <4>1. job.file = f
        BY <1>2, <2>5, <3>1
      <4>2. Len(chain) + 1 \in DOMAIN chain'
        BY <2>2, <2>3
      <4> QED
        BY <1>1, <2>3, <2>4, <4>1, <4>2 DEF Open
    <3>2. CASE v # w
      BY <2>1, <2>2, <2>5, <3>2 DEF Open
    <3> QED
      BY <3>1, <3>2
  <2>6. ASSUME NEW i \in DOMAIN chain, chain[i].file = f,
               i = 1 => step \in {"idle", "replaced"}
        PROVE  Open(f)'
    BY <1>1, <2>3, <2>6 DEF Open
  <2> QED
    BY <1>1, <2>5, <2>6 DEF Open
<1>4. CASE ~(permits > 0)
  <2>1. chain' = chain /\ busy' = busy
    BY <1>2, <1>4 DEF Acquire
  <2> QED
    BY <1>1, <2>1 DEF Open
<1> QED
  BY <1>3, <1>4

\* So does the job that ends: its own file is not open any more.
LEMMA OpenReleased ==
  ASSUME PoolInv, Types, JobDone, NEW f, Open(f)
  PROVE  Open(f)'
<1>1. /\ UNCHANGED todo /\ step' = "idle" /\ step = "embed"
      /\ Release /\ chain # <<>>
  BY DEF JobDone, PoolInv, JobHeld
<1>2. /\ chain \in Seq(Jobs) /\ Len(chain) \in Nat \ {0} /\ DOMAIN chain = 1..Len(chain)
      /\ busy \in [Workers -> {<<>>} \cup {<<g>> : g \in InTree}]
      /\ waiters \in Seq(WaitingJobs)
  BY <1>1 DEF Types, PoolTypes
<1>3. /\ Tail(chain) \in Seq(Jobs) /\ Len(Tail(chain)) = Len(chain) - 1
      /\ \A i \in 1..(Len(chain) - 1) : Tail(chain)[i] = chain[i + 1]
  BY <1>2
<1>4. CASE waiters # <<>>
  <2> DEFINE first == Head(waiters)
  <2>1. /\ chain' = Append(Tail(chain), first.job)
        /\ busy' = [busy EXCEPT ![first.worker] = <<>>]
    BY <1>1, <1>4 DEF Release
  <2>2. /\ first \in WaitingJobs /\ first = waiters[1] /\ 1 \in DOMAIN waiters
    BY <1>2, <1>4
  <2>3. busy[first.worker] = <<first.job.file>> /\ first.job \in Jobs
    BY <2>2 DEF Types, Waits, WaitingJobs
  <2> HIDE DEF first
  <2>4. /\ DOMAIN chain' = 1..Len(chain) /\ chain'[Len(chain)] = first.job
        /\ \A i \in 1..(Len(chain) - 1) : chain'[i] = chain[i + 1]
    BY <1>2, <1>3, <2>1, <2>3
  <2>5. ASSUME NEW v \in Workers, busy[v] = <<f>> PROVE Open(f)'
    <3>1. CASE v = first.worker
      <4>1. first.job.file = f
        BY <2>3, <2>5, <3>1
      <4>2. Len(chain) \in DOMAIN chain'
        BY <1>2, <2>4
      <4> QED
        BY <1>1, <2>4, <4>1, <4>2 DEF Open
    <3>2. CASE v # first.worker
      BY <1>2, <2>1, <2>5, <3>2 DEF Open
    <3> QED
      BY <3>1, <3>2
  <2>6. ASSUME NEW i \in DOMAIN chain, chain[i].file = f,
               i = 1 => step \in {"idle", "replaced"}
        PROVE  Open(f)'
    <3>1. i \in 2..Len(chain)
      BY <1>1, <1>2, <2>6
    <3>2. /\ i - 1 \in DOMAIN chain' /\ i - 1 \in 1..(Len(chain) - 1)
          /\ (i - 1) + 1 = i
      BY <1>2, <2>4, <3>1
    <3>3. chain'[i - 1].file = f
      BY <2>4, <2>6, <3>2
    <3> QED
      BY <1>1, <3>2, <3>3 DEF Open
  <2> QED
    BY <1>1, <2>5, <2>6 DEF Open
<1>5. CASE waiters = <<>>
  <2>1. chain' = Tail(chain) /\ busy' = busy
    BY <1>1, <1>5 DEF Release
  <2>2. ASSUME NEW i \in DOMAIN chain, chain[i].file = f,
               i = 1 => step \in {"idle", "replaced"}
        PROVE  Open(f)'
    <3>1. i \in 2..Len(chain)
      BY <1>1, <1>2, <2>2
    <3>2. /\ i - 1 \in DOMAIN chain' /\ i - 1 \in 1..(Len(chain) - 1)
          /\ (i - 1) + 1 = i
      BY <1>2, <1>3, <2>1, <3>1
    <3>3. chain'[i - 1].file = f
      BY <1>3, <2>1, <2>2, <3>2
    <3> QED
      BY <1>1, <3>2, <3>3 DEF Open
  <2> QED
    BY <1>1, <2>1, <2>2 DEF Open
<1> QED
  BY <1>4, <1>5

\* An open file stays open until its chunks are replaced.
LEMMA OpenKept ==
  ASSUME PoolInv, Types, MidRun \/ (\E w \in Workers : ChunkerFails(w)),
         NEW f, Open(f)
  PROVE  \/ Open(f)'
         \/ QueueChunks /\ chain # <<>> /\ f = Head(chain).file
<1>1. CASE \E w \in Workers : ChunkFile(w) \/ ChunkerFails(w)
  BY <1>1, OpenChunked
<1>2. CASE JobDone
  BY <1>2, OpenReleased
<1>3. ASSUME NEW w \in Workers, TakeTask(w) PROVE Open(f)'
  <2>1. /\ todo # <<>> /\ todo' = Tail(todo) /\ busy[w] = <<>>
        /\ busy' = [busy EXCEPT ![w] = <<Head(todo)>>]
        /\ UNCHANGED <<chain, step>>
    BY <1>3 DEF TakeTask
  <2>2. /\ Range(todo) = {Head(todo)} \cup Range(todo')
        /\ busy \in [Workers -> {<<>>} \cup {<<g>> : g \in InTree}]
    BY <1>3, TakeTypes DEF Types, PoolTypes
  <2>3. f \in Range(todo) => Open(f)'
    BY <2>1, <2>2 DEF Open
  <2>4. \A v \in Workers : busy[v] = <<f>> => busy'[v] = <<f>>
    BY <2>1, <2>2
  <2> QED
    BY <2>1, <2>3, <2>4 DEF Open
<1>4. CASE QueueChunks
  <2>1. /\ UNCHANGED <<todo, busy, chain>> /\ step = "replaced" /\ chain # <<>>
    BY <1>4 DEF QueueChunks, pool, PoolInv, JobHeld
  <2>2. chain \in Seq(Jobs)
    BY DEF Types, PoolTypes
  <2>3. ASSUME NEW i \in DOMAIN chain, chain[i].file = f
        PROVE  Open(f)' \/ f = Head(chain).file
    <3>1. CASE i = 1
      BY <2>1, <2>2, <2>3, <3>1
    <3>2. CASE i # 1
      BY <2>1, <2>3, <3>2 DEF Open
    <3> QED
      BY <3>1, <3>2
  <2> QED
    BY <1>4, <2>1, <2>3 DEF Open
<1>5. CASE ReplaceChunks
  BY <1>5 DEF ReplaceChunks, pool, Open
<1>6. CASE \/ PreWarm \/ (\E g \in Files : ForgetFile(g)) \/ EmbedBatch \/ UploadBatch
           \/ UploadedEnough
  <2>1. /\ UNCHANGED <<todo, busy, chain>>
        /\ step' = step \/ step \notin {"idle", "replaced"}
    BY <1>6 DEF PreWarm, ForgetFile, EmbedBatch, EmbedDue, UploadBatch,
                UploadedEnough, pool
  <2> QED
    BY <2>1 DEF Open
<1>7. CASE FlushRest \/ FlushUpload
  <2>1. todo = <<>> /\ chain = <<>> /\ \A w \in Workers : busy[w] = <<>>
    BY <1>7 DEF FlushRest, FlushUpload, StreamOver, Types, Quiet
  <2> QED
    BY <2>1, EmptyRange DEF Open
<1> QED
  BY <1>1, <1>2, <1>3, <1>4, <1>5, <1>6, <1>7 DEF MidRun

\* A pending file stays pending until its orphaned rows are removed.
LEMMA PendingKept ==
  ASSUME HasOrphanCleanup, PoolInv, Types, MidRun, NEW f, Pending(f)
  PROVE  Pending(f)'
<1>1. CASE QueueChunks
  <2>1. DOMAIN newHashes' = DOMAIN newHashes \cup {Head(chain).file}
    BY <1>1 DEF QueueChunks
  <2> QED
    BY <2>1, OpenKept DEF Pending
<1>2. CASE ~QueueChunks
  <2>1. newHashes' = newHashes
    BY <1>2 DEF MidRun, PreWarm, ForgetFile, TakeTask, ChunkFile, ReplaceChunks,
                EmbedBatch, UploadBatch, UploadedEnough, JobDone, FlushRest,
                FlushUpload
  <2> QED
    BY <1>2, <2>1, OpenKept DEF Pending
<1> QED
  BY <1>1, <1>2

\* The middle of a run keeps the revisions of what is staged.
LEMMA MidRunStaged ==
  ASSUME PoolInv, Types, StagedKnown, MidRun
  PROVE  StagedKnown'
<1>1. CASE ReplaceChunks
  <2>1. /\ chain' = chain /\ revs' = revs /\ phase' = "stream" /\ step' = "replaced"
        /\ step = "idle" /\ chain # <<>>
        /\ staged' = Replaced(Head(chain).file, tree[Head(chain).file],
                              Range(Head(chain).chunks))
    BY <1>1 DEF ReplaceChunks, pool
  <2>2. \A c \in Hashes :
          staged'[c] # NoRow =>
            staged'[c].src = Head(chain).file \/ staged'[c] = staged[c]
    BY <2>1 DEF Replaced, StagedRow
  <2> QED
    BY <2>1, <2>2 DEF StagedKnown
<1>2. CASE QueueChunks
  <2> DEFINE g == Head(chain).file
  <2>1. /\ staged' = staged /\ revs' = [revs EXCEPT ![g] = tree[g]]
        /\ chain # <<>>
    BY <1>2 DEF QueueChunks, PoolInv, JobHeld
  <2>2. g \in Files /\ tree[g] # NoRev
    BY <2>1, RunningJob, TreeContents, ValuesAssumption DEF Types
  <2> HIDE DEF g
  <2>3. \A f \in Files : revs'[f] = revs[f] \/ revs'[f] # NoRev
    BY <2>1, <2>2 DEF Types, StoredTypes
  <2>4. revs'[g] # NoRev
    BY <2>1, <2>2 DEF Types, StoredTypes
  <2>5. \A c \in Hashes : staged[c] # NoRow => staged[c].src \in Files
    BY RowTypes DEF Types, StagedRows
  <2> QED
    BY <2>1, <2>3, <2>4, <2>5 DEF StagedKnown, g
<1>3. ASSUME NEW f \in Files, ForgetFile(f) PROVE StagedKnown'
  <2>1. /\ phase = "forget" /\ revs' = [revs EXCEPT ![f] = NoRev]
        /\ staged' = WithoutStaged(f)
    BY <1>3 DEF ForgetFile
  <2>2. \A c \in Hashes :
          staged'[c] # NoRow =>
            /\ staged'[c] = staged[c] /\ staged[c].src \in Files
            /\ staged[c].src # f
    BY <2>1, RowTypes DEF WithoutStaged, Types, StagedRows
  <2>3. \A g \in Files : g # f => revs'[g] = revs[g]
    BY <2>1 DEF Types, StoredTypes
  <2> QED
    BY <2>1, <2>2, <2>3 DEF StagedKnown
<1>4. ASSUME NEW w \in Workers, TakeTask(w) \/ ChunkFile(w) PROVE StagedKnown'
  <2>1. UNCHANGED <<staged, revs, phase, step>>
    BY <1>4 DEF TakeTask, ChunkFile, sqlite
  <2>2. step = "replaced" /\ phase = "stream" => Head(chain') = Head(chain)
    BY <1>4, <2>1, StagingSteps DEF Settling
  <2> QED
    BY <2>1, <2>2 DEF StagedKnown
<1>5. CASE \/ PreWarm \/ EmbedBatch \/ UploadBatch \/ UploadedEnough
           \/ JobDone \/ FlushRest \/ FlushUpload
  <2>1. revs' = revs /\ ~(phase = "stream" /\ step = "replaced")
    BY <1>5 DEF PreWarm, EmbedBatch, EmbedDue, UploadBatch, UploadedEnough,
                JobDone, FlushRest, FlushUpload, StreamOver, sqlite
  <2>2. Settles
    BY <1>5, SettlingSteps DEF Settling
  <2> QED
    BY <2>1, <2>2 DEF StagedKnown, Settles
<1> QED
  BY <1>1, <1>2, <1>3, <1>4, <1>5 DEF MidRun

\* Nothing of a file that is gone is queued in the middle of a run.
LEMMA MidRunQueued ==
  ASSUME PoolInv, Types, QueuedPresent, MidRun
  PROVE  QueuedPresent'
<1>1. InTree' = InTree
  BY MidRunSame
<1>2. CASE ReplaceChunks
  BY <1>1, <1>2 DEF ReplaceChunks, queues, Queued, QueuedPresent
<1>3. CASE QueueChunks
  <2>1. chain # <<>>
    BY <1>3 DEF QueueChunks, PoolInv, JobHeld
  <2> QED
    BY <1>1, <1>3, <2>1, QueuedChunks, RunningJob DEF QueuedPresent
<1>4. CASE ~ReplaceChunks /\ ~QueueChunks
  <2>1. Settles
    BY <1>4, SettlingSteps DEF MidRun, Settling
  <2> QED
    BY <1>1, <2>1 DEF QueuedPresent, Settles
<1> QED
  BY <1>2, <1>3, <1>4

\* The middle of a run keeps all of it.
LEMMA MidRunFresh ==
  ASSUME PoolInv, Types, Contained, QueuedCurrent, Fresh, MidRun
  PROVE  Fresh'
<1> USE DEF Fresh
<1>1. /\ phase \notin {"idle", "scan", "prepare"}
      /\ phase' \notin {"idle", "scan", "prepare"}
      /\ tree' = tree /\ InTree' = InTree /\ mode' = mode /\ ~failed'
      /\ outcome' = "none" /\ (~Uploads => rows' = rows)
      /\ Uploads' = Uploads
  BY MidRunSame DEF Uploads
<1>2. BetweenRuns'
  <2> SUFFICES ASSUME ~Uploads PROVE BetweenRuns'
    BY <1>1 DEF BetweenRuns
  <2>1. rows' = rows
    BY <1>1
  <2>2. \A f : RowsOf({f})' = RowsOf({f}) /\ Clean(f)' = Clean(f)
    BY <1>1, <2>1 DEF RowsOf, Clean
  <2> QED
    BY <1>1, <2>1, <2>2 DEF BetweenRuns
<1>3. WhileUploading'
  <2> SUFFICES ASSUME Uploads, NEW f \in Files
               PROVE  Clean(f)' \/ (HasOrphanCleanup /\ Pending(f)')
    BY <1>1 DEF WhileUploading
  <2>1. Clean(f) \/ (HasOrphanCleanup /\ Pending(f))
    BY <1>1 DEF WhileUploading
  <2> QED
    BY <2>1, MidRunClean, PendingKept
<1>4. StagedKnown' /\ QueuedPresent'
  BY MidRunStaged, MidRunQueued
<1>5. CleanedUp'
  BY <1>1 DEF CleanedUp
<1> QED
  BY <1>1, <1>2, <1>3, <1>4, <1>5

\* An edit makes all rows of the file old ones.
LEMMA EditFresh ==
  ASSUME NothingReturns, Types, Knowledge, Fresh,
         NEW f \in Files, NEW v, Edit(f, v)
  PROVE  Fresh'
<1> USE DEF Fresh
<1>1. /\ UNCHANGED <<cfg, sqlite, stores, phase, queues, failed, step, chain>>
      /\ tree' = [tree EXCEPT ![f] = v] /\ <<f, tree[f], v>> \in Edits
      /\ phase = "idle" /\ outcome' = "none"
  BY DEF Edit, pool
<1>2. /\ v \in Contents \cup {Absent} /\ tree[f] \in Contents \cup {Absent}
      /\ \A g \in Files : tree'[g] = IF g = f THEN v ELSE tree[g]
  BY <1>1, ChoicesAssumption DEF Types, StoredTypes
<1>3. rows' = rows /\ staged' = staged /\ revs' = revs /\ Queued' = {}
  BY <1>1, EmptyRange DEF rows, sqlite, queues, Queued, Types, Quiet
<1>4. BetweenRuns'
  <2> SUFFICES ASSUME NEW g \in Files, g \in InTree'
               PROVE  \/ Clean(g)'
                      \/ \A c \in RowsOf({g})' : rows'[c].rev # tree'[g]
    BY DEF BetweenRuns
  <2>1. RowsOf({g})' = RowsOf({g})
    BY <1>3 DEF RowsOf
  <2>2. CASE g # f
    <3>1. tree'[g] = tree[g] /\ g \in InTree
      BY <1>2, <2>2 DEF InTree
    <3>2. Clean(g) \/ \A c \in RowsOf({g}) : rows[c].rev # tree[g]
      BY <1>1, <3>1 DEF BetweenRuns
    <3> QED
      BY <1>3, <2>1, <3>1, <3>2 DEF Clean
  <2>3. CASE g = f
    <3>1. v \in Contents /\ tree'[f] = v
      BY <1>2, <2>3 DEF InTree
    <3>2. Age[f][tree[f]] < Age[f][v] /\ Age[f][tree[f]] \in Nat /\ Age[f][v] \in Nat
      BY <1>1, <1>2, AgeProps
    <3>3. ~Trace(f, v)
      BY <3>1, <3>2 DEF Knowledge, NotNewer
    <3> QED
      BY <1>3, <2>1, <2>3, <3>1, <3>3 DEF Trace, RowsOf
  <2> QED
    BY <2>2, <2>3
<1>5. WhileUploading' /\ CleanedUp'
  BY <1>1 DEF WhileUploading, CleanedUp
<1>6. StagedKnown' /\ QueuedPresent'
  BY <1>1, <1>3 DEF StagedKnown, QueuedPresent
<1> QED
  BY <1>1, <1>4, <1>5, <1>6

\* A run starts with the rows there are.
LEMMA BeginFresh ==
  ASSUME Unforced, Types, Knowledge, Fresh, NEW m \in Modes, Begin(m)
  PROVE  Fresh'
<1> USE DEF Fresh
<1>1. /\ UNCHANGED <<env, sqlite, stores, pool, step, queues, failed>>
      /\ phase = "idle" /\ phase' = "scan" /\ outcome' = "none"
  BY BeginUnforced DEF Knowledge
<1>2. /\ rows' = rows /\ tree' = tree /\ InTree' = InTree /\ Queued' = Queued
      /\ staged' = staged /\ revs' = revs
  BY <1>1, SameTree DEF env, sqlite, rows, queues, Queued
<1>3. \A f : RowsOf({f})' = RowsOf({f}) /\ Clean(f)' = Clean(f)
  BY <1>2 DEF RowsOf, Clean
<1>4. BetweenRuns'
  BY <1>1, <1>2, <1>3 DEF BetweenRuns
<1>5. WhileUploading' /\ CleanedUp' /\ StagedKnown' /\ QueuedPresent'
  BY <1>1, <1>2 DEF WhileUploading, CleanedUp, StagedKnown, QueuedPresent
<1> QED
  BY <1>1, <1>4, <1>5

\* The scan finds every file changed that is not clean, and resumes chunks only
\* of files that are there.
LEMMA ScanFresh ==
  ASSUME Types, Knowledge, Fresh, Scan
  PROVE  Fresh'
<1> USE DEF Fresh
<1>1. UNCHANGED <<sqlite, stores>> /\ phase = "scan" /\ outcome = "none"
  BY ScanCases DEF Types, Quiet
<1>2. PICK storeState \in StoreStates :
        \/ Resumes(storeState)
        \/ NothingToDo(storeState) /\ EndRun("ok")
        \/ EndRun("refused")
  BY ScanCases
<1> DEFINE previous == PreviousState(storeState)
           skip     == Range(Changed(previous)) \cup Gone(previous)
<1>3. /\ UNCHANGED <<env, mode>> /\ ~failed'
      /\ phase' \in {"idle", "prepare"}
  BY <1>2 DEF Resumes, EndRun
<1>4. /\ tree' = tree /\ InTree' = InTree /\ rows' = rows /\ staged' = staged
      /\ revs' = revs /\ Uploads' = Uploads
  BY <1>1, <1>3, SameTree DEF env, sqlite, rows, Uploads
<1>5. \A f : RowsOf({f})' = RowsOf({f}) /\ Clean(f)' = Clean(f)
  BY <1>4 DEF RowsOf, Clean
<1>6. BetweenRuns'
  BY <1>1, <1>4, <1>5 DEF BetweenRuns
<1>7. StagedKnown'
  BY <1>1, <1>4 DEF StagedKnown
<1>8. ASSUME NEW f \in Files, f \notin skip PROVE Clean(f)
  <2>1. \A c \in Hashes : rows[c] # NoRow /\ rows[c].src = f =>
          /\ f \in InTree
          /\ \E d \in Hashes :
               rows[d] # NoRow /\ rows[d].src = f /\ rows[d].rev = tree[f]
    BY <1>8, PassedOver DEF Knowledge
  <2> HIDE DEF skip
  <2>2. CASE RowsOf({f}) = {}
    BY <2>2 DEF Clean
  <2>3. CASE RowsOf({f}) # {}
    <3>1. f \in InTree /\ \E d \in RowsOf({f}) : rows[d].rev = tree[f]
      BY <2>1, <2>3 DEF RowsOf
    <3> QED
      BY <1>1, <3>1 DEF BetweenRuns
  <2> QED
    BY <2>2, <2>3
<1>9. CASE Resumes(storeState)
  <2>1. /\ phase' = "prepare" /\ outcome' = outcome
        /\ todo' = Changed(previous) /\ toDelete' = Gone(previous)
        /\ pendingEmbed' = Resumed(skip, {NoVector})
        /\ pendingUpload' = Resumed(skip, ModelNames)
    BY <1>9 DEF Resumes
  <2>2. \A f \in Files \ skip : f \notin InTree => revs[f] = NoRev
    BY PassedOver DEF Knowledge
  <2>3. skip = Range(todo') \cup toDelete'
    BY <2>1
  <2> HIDE DEF previous, skip
  <2>4. \A k \in Queued' :
          /\ k.id \in Hashes /\ staged[k.id] # NoRow
          /\ k.src = staged[k.id].src /\ k.src \in Files \ skip
    BY <1>9, <2>3, ResumedQueue
  <2>5. QueuedPresent'
    BY <1>1, <1>4, <2>2, <2>4 DEF QueuedPresent, StagedKnown
  <2>6. WhileUploading'
    BY <1>5, <1>8, <2>1, <2>3 DEF WhileUploading
  <2>7. CleanedUp'
    BY <1>1, <2>1 DEF CleanedUp
  <2> QED
    BY <1>3, <1>6, <1>7, <2>5, <2>6, <2>7
<1>10. CASE (NothingToDo(storeState) /\ EndRun("ok")) \/ EndRun("refused")
  <2>1. /\ phase' = "idle" /\ Queued' = {}
        /\ outcome' = "ok" => skip = {}
    BY <1>10, EmptyRange DEF NothingToDo, EndRun, Queued
  <2>2. CleanedUp'
    BY <1>5, <1>8, <2>1 DEF CleanedUp
  <2>3. WhileUploading' /\ QueuedPresent'
    BY <2>1 DEF WhileUploading, QueuedPresent
  <2> QED
    BY <1>3, <1>6, <1>7, <2>2, <2>3
<1> QED
  BY <1>2, <1>9, <1>10

\* The rows of removed files go at once, and those of changed ones, too, if the
\* store cannot tell the orphans later.
LEMMA PrepareFresh ==
  ASSUME PoolInv, Types, Knowledge, Fresh, PrepareUpdate
  PROVE  Fresh'
<1> USE DEF Fresh
<1>1. /\ UNCHANGED <<env, sqlite, mode, pool, toDelete, queues, newHashes,
                     failed, step>>
      /\ phase = "prepare" /\ phase' = "forget" /\ outcome' = outcome
      /\ outcome = "none"
  BY DEF PrepareUpdate, history, Types, Quiet
<1>2. /\ tree' = tree /\ InTree' = InTree /\ staged' = staged /\ revs' = revs
      /\ Uploads' = Uploads /\ Queued' = Queued /\ cfg' = cfg
  BY <1>1, SameTree DEF env, sqlite, Uploads, queues, Queued
<1>3. IF Uploads THEN rows' = WithoutRows(RowsOf(FilesToDelete)) ELSE rows' = rows
  <2>1. CASE Uploads
    <3>1. stores' = [stores EXCEPT ![cfg.store] = WithoutRows(RowsOf(FilesToDelete))]
      BY <2>1 DEF PrepareUpdate
    <3> QED
      BY <1>2, <2>1, <3>1, StagedWritten, StoreWritten DEF Types
  <2>2. CASE ~Uploads
    BY <1>2, <2>2 DEF PrepareUpdate, rows
  <2> QED
    BY <2>1, <2>2
<1>4. BetweenRuns'
  <2> SUFFICES ASSUME ~Uploads PROVE BetweenRuns'
    BY <1>1, <1>2 DEF BetweenRuns
  <2>1. \A f : RowsOf({f})' = RowsOf({f}) /\ Clean(f)' = Clean(f)
    BY <1>2, <1>3 DEF RowsOf, Clean
  <2> QED
    BY <1>2, <1>3, <2>1 DEF BetweenRuns
<1>5. WhileUploading'
  <2> SUFFICES ASSUME Uploads, NEW f \in Files
               PROVE  Clean(f)' \/ (HasOrphanCleanup /\ Pending(f)')
    BY <1>1, <1>2 DEF WhileUploading
  <2>1. FilesToDelete =
          toDelete \cup (IF HasOrphanCleanup THEN {} ELSE Range(todo))
    BY DEF FilesToDelete, Knowledge, SameConfiguration
  <2>2. \A c \in Hashes :
          rows'[c] # NoRow => rows'[c] = rows[c] /\ c \notin RowsOf(FilesToDelete)
    BY <1>3 DEF WithoutRows
  <2>3. CASE f \in FilesToDelete
    <3>1. RowsOf({f})' = {}
      BY <2>2, <2>3 DEF RowsOf
    <3> QED
      BY <3>1 DEF Clean
  <2>4. CASE Clean(f)
    BY <1>2, <2>2, <2>4 DEF Clean, RowsOf
  <2>5. Pending(f)' = Pending(f) /\ (f \in Range(todo) => Pending(f))
    BY <1>1 DEF pool, Pending, Open
  <2> QED
    BY <1>1, <2>1, <2>3, <2>4, <2>5 DEF WhileUploading
<1>6. StagedKnown' /\ QueuedPresent' /\ CleanedUp'
  BY <1>1, <1>2 DEF StagedKnown, QueuedPresent, CleanedUp
<1> QED
  BY <1>1, <1>4, <1>5, <1>6

\* deleteOrphanedChunks leaves of a file only the rows of what it is now.
LEMMA OrphansFresh ==
  ASSUME PoolInv, Types, Knowledge, Fresh, NEW f \in Files, DeleteOrphans(f)
  PROVE  Fresh'
<1> USE DEF Fresh
<1>1. /\ UNCHANGED <<env, sqlite, mode, pool, queues, failed, step>>
      /\ phase = "cleanup" /\ phase' = "cleanup" /\ outcome' = "none"
      /\ f \in ToClean
      /\ DOMAIN newHashes' = DOMAIN newHashes \ {f}
      /\ stores' = [stores EXCEPT ![cfg.store] =
                      WithoutRows(RowsOf({f}) \ newHashes[f])]
  BY DEF DeleteOrphans, history, Types, Quiet
<1>2. /\ tree' = tree /\ InTree' = InTree /\ staged' = staged /\ revs' = revs
      /\ Uploads' = Uploads /\ Queued' = Queued /\ cfg' = cfg
  BY <1>1, SameTree DEF env, sqlite, Uploads, queues, Queued
<1>3. Uploads /\ HasOrphanCleanup /\ f \in DOMAIN newHashes
  BY <1>1 DEF ToClean
<1>4. newHashes[f] \subseteq Range(ChunksOf[tree[f]]) /\ f \in InTree
  BY <1>3 DEF Types, PoolTypes
<1>5. rows' = WithoutRows(RowsOf({f}) \ newHashes[f])
  BY <1>1, <1>2, StagedWritten, StoreWritten DEF Types
<1>6. \A c \in Hashes :
        rows'[c] # NoRow => rows'[c] = rows[c] /\ c \notin RowsOf({f}) \ newHashes[f]
  BY <1>5 DEF WithoutRows
<1>7. Clean(f)'
  BY <1>2, <1>4, <1>6 DEF Clean, RowsOf
<1>8. \A g \in Files : Clean(g) => Clean(g)'
  BY <1>2, <1>6 DEF Clean, RowsOf
<1>9. WhileUploading'
  <2> SUFFICES ASSUME NEW g \in Files, ~Clean(g)'
               PROVE  HasOrphanCleanup /\ Pending(g)'
    BY <1>1, <1>2, <1>3 DEF WhileUploading
  <2>1. HasOrphanCleanup /\ Pending(g) /\ g # f
    BY <1>1, <1>3, <1>7, <1>8 DEF WhileUploading
  <2>2. Open(g)' = Open(g)
    BY <1>1 DEF pool, Open
  <2> QED
    BY <1>1, <2>1, <2>2 DEF Pending
<1>10. BetweenRuns' /\ CleanedUp' /\ StagedKnown' /\ QueuedPresent'
  BY <1>1, <1>2, <1>3 DEF BetweenRuns, CleanedUp, StagedKnown, QueuedPresent
<1> QED
  BY <1>1, <1>9, <1>10

\* When there are no orphans left every file is clean.
LEMMA FinishFresh ==
  ASSUME PoolInv, Types, Knowledge, Fresh, Finish
  PROVE  Fresh'
<1> USE DEF Fresh
<1>1. /\ UNCHANGED <<env, sqlite, stores, mode>> /\ ToClean = {}
      /\ phase = "cleanup" /\ phase' = "idle" /\ ~failed' /\ Queued' = {}
  BY EmptyRange DEF Finish, EndRun, Queued
<1>2. /\ tree' = tree /\ InTree' = InTree /\ staged' = staged /\ revs' = revs
      /\ Uploads' = Uploads /\ rows' = rows
  BY <1>1, SameTree DEF env, sqlite, Uploads, rows
<1>3. \A f : RowsOf({f})' = RowsOf({f}) /\ Clean(f)' = Clean(f)
  BY <1>2 DEF RowsOf, Clean
<1>4. ASSUME Uploads, NEW f \in Files PROVE Clean(f)
  <2>1. Clean(f) \/ (HasOrphanCleanup /\ Pending(f))
    BY <1>1, <1>4 DEF WhileUploading
  <2>2. HasOrphanCleanup => DOMAIN newHashes = {}
    BY <1>1, <1>4 DEF ToClean, Knowledge, SameConfiguration
  <2>3. ~Open(f)
    <3>1. todo = <<>> /\ chain = <<>> /\ \A w \in Workers : busy[w] = <<>>
      BY <1>1 DEF Types, Quiet
    <3> QED
      BY <3>1, EmptyRange DEF Open
  <2> QED
    BY <2>1, <2>2, <2>3 DEF Pending
<1>5. BetweenRuns' /\ CleanedUp'
  BY <1>1, <1>2, <1>3, <1>4 DEF BetweenRuns, CleanedUp
<1>6. WhileUploading' /\ StagedKnown' /\ QueuedPresent'
  BY <1>1, <1>2 DEF WhileUploading, StagedKnown, QueuedPresent
<1> QED
  BY <1>1, <1>5, <1>6

\* Every step without a fault, under the first configuration, keeps all of it.
LEMMA NextFresh ==
  ASSUME NothingReturns, Unforced, PoolInv, Types, Knowledge, Fresh, [Next]_vars,
         switches \in Nat, switches' = switches, faults \in Nat, faults' = faults
  PROVE  Fresh'
<1>1. CASE UNCHANGED vars
  <2>1. /\ UNCHANGED <<tree, staged, revs, phase, mode, failed, outcome, todo,
                       toDelete, busy, chain, step, pendingEmbed, pendingUpload,
                       newHashes>>
        /\ rows' = rows
    BY <1>1 DEF vars, env, sqlite, pool, queues, history, rows
  <2>2. /\ Uploads' = Uploads /\ InTree' = InTree /\ Queued' = Queued
        /\ \A f : /\ RowsOf({f})' = RowsOf({f}) /\ Clean(f)' = Clean(f)
                  /\ Pending(f)' = Pending(f)
    BY <2>1 DEF Uploads, InTree, Queued, RowsOf, Clean, Pending, Open
  <2>3. BetweenRuns' /\ WhileUploading' /\ CleanedUp'
    BY <2>1, <2>2 DEF Fresh, BetweenRuns, WhileUploading, CleanedUp
  <2>4. StagedKnown' /\ QueuedPresent'
    BY <2>1, <2>2 DEF Fresh, StagedKnown, QueuedPresent
  <2> QED
    BY <2>1, <2>3, <2>4 DEF Fresh
<1>2. ASSUME NEW f \in Files, NEW v, Edit(f, v) PROVE Fresh'
  BY <1>2, EditFresh
<1>3. ASSUME NEW m \in Modes, Begin(m) PROVE Fresh'
  BY <1>3, BeginFresh
<1>4. CASE Scan
  BY <1>4, ScanFresh
<1>5. CASE PrepareUpdate
  BY <1>5, PrepareFresh
<1>6. CASE MidRun
  BY <1>6, MidRunFresh DEF Knowledge
<1>7. ASSUME NEW f \in Files, DeleteOrphans(f) PROVE Fresh'
  BY <1>7, OrphansFresh
<1>8. CASE Finish
  BY <1>8, FinishFresh
<1>9. ~(\E c \in Configs : Switch(c))
  BY DEF Switch
<1>10. ~(\E w \in Workers : ChunkerFails(w)) /\ ~JobFails /\ ~Crash
       /\ ~StoreFails /\ ~Killed
  BY DEF ChunkerFails, JobFails, Crash, StoreFails, Killed
<1>11. ~SkipJob /\ ~Throw
  BY DEF SkipJob, Throw, Fresh
<1> QED
  BY <1>1, <1>2, <1>3, <1>4, <1>5, <1>6, <1>7, <1>8, <1>9, <1>10, <1>11
  DEF Next, Running, MidRun

\* No step of a run counts anything, unless something fails.
LEMMA RunningCounts ==
  ASSUME Running
  PROVE  UNCHANGED counters
<1>1. CASE Scan \/ PrepareUpdate \/ PreWarm \/ ReplaceChunks \/ QueueChunks
  BY <1>1 DEF Scan, PrepareUpdate, PreWarm, ReplaceChunks, QueueChunks
<1>2. CASE EmbedBatch \/ UploadBatch \/ UploadedEnough \/ JobDone \/ SkipJob
  BY <1>2 DEF EmbedBatch, UploadBatch, UploadedEnough, JobDone, SkipJob
<1>3. CASE Throw \/ FlushRest \/ FlushUpload \/ Finish
  BY <1>3 DEF Throw, FlushRest, FlushUpload, Finish
<1>4. CASE \E f \in Files : ForgetFile(f) \/ DeleteOrphans(f)
  BY <1>4 DEF ForgetFile, DeleteOrphans
<1>5. CASE \E w \in Workers : TakeTask(w) \/ ChunkFile(w)
  BY <1>5 DEF TakeTask, ChunkFile
<1> QED
  BY <1>1, <1>2, <1>3, <1>4, <1>5 DEF Running

\* The counters count upwards.
LEMMA NextCounts ==
  ASSUME switches \in Nat, faults \in Nat, [Next]_vars
  PROVE  /\ switches' \in Nat /\ faults' \in Nat
         /\ switches' = 0 => switches' = switches
         /\ Calm' => Calm /\ faults' = faults
<1>1. /\ switches' \in {switches, switches + 1}
      /\ faults' \in {faults, faults + 1}
  <2>1. CASE UNCHANGED counters
    BY <2>1 DEF counters
  <2>2. CASE \/ \E w \in Workers : ChunkerFails(w)
             \/ JobFails \/ Crash \/ StoreFails \/ Killed
    BY <2>2 DEF ChunkerFails, JobFails, Crash, StoreFails, Killed
  <2>3. ASSUME NEW f, NEW v, Edit(f, v) PROVE faults' = faults /\ switches' = switches
    BY <2>3 DEF Edit
  <2>4. ASSUME NEW c, Switch(c) PROVE faults' = faults /\ switches' = switches + 1
    BY <2>4 DEF Switch
  <2>5. ASSUME NEW m, Begin(m) PROVE UNCHANGED counters
    BY <2>5 DEF Begin
  <2>6. Running => UNCHANGED counters
    BY RunningCounts
  <2>7. UNCHANGED vars => UNCHANGED counters
    BY DEF vars
  <2> QED
    BY <2>1, <2>2, <2>3, <2>4, <2>5, <2>6, <2>7 DEF Next
<1> QED
  BY <1>1 DEF Calm

\* What holds at the start.
LEMMA InitFresh ==
  ASSUME Init
  PROVE  Types /\ PoolInv /\ Knowledge /\ Fresh /\ switches = 0 /\ faults = 0
<1>1. Types /\ PoolInv
  BY InitTypes, InitPool
<1>2. /\ staged = EmptyTable /\ revs = NoRevs /\ meta = NoMeta
      /\ stores = [s \in StoreNames |-> EmptyTable]
      /\ phase = "idle" /\ force = FALSE /\ step = "idle" /\ ~failed
      /\ Queued = {} /\ outcome = "none" /\ switches = 0 /\ faults = 0
  BY EmptyRange DEF Init, Queued
<1>3. /\ \A c \in Hashes : staged[c] = NoRow /\ rows[c] = NoRow
      /\ \A f \in Files : revs[f] = NoRev
  BY <1>1, <1>2, RowTypes DEF rows, EmptyTable, NoRevs, Types
<1>4. \A f \in Files, v \in Contents : ~Trace(f, v)
  BY <1>2, <1>3, ValuesAssumption DEF Trace
<1>5. \A f \in InTree : f \in Files /\ tree[f] \in Contents
  BY <1>1, TreeContents DEF Types
<1>6. SameConfiguration /\ Contained /\ NotNewer
  BY <1>2, <1>3, <1>4 DEF SameConfiguration, Contained, NotNewer
<1>7. QueuedCurrent /\ StagedCurrent /\ Replacing
  BY <1>2, <1>3 DEF QueuedCurrent, StagedCurrent, Replacing
<1>8. \A f : RowsOf({f}) = {}
  BY <1>3 DEF RowsOf
<1>9. BetweenRuns /\ WhileUploading /\ StagedKnown /\ QueuedPresent /\ CleanedUp
  BY <1>2, <1>3, <1>8 DEF BetweenRuns, WhileUploading, StagedKnown, QueuedPresent,
                     CleanedUp, Clean
<1> QED
  BY <1>1, <1>2, <1>6, <1>7, <1>9 DEF Knowledge, Fresh

\* The invariant of NoStaleRows.
FreshInv ==
  /\ PoolInv /\ Types
  /\ switches \in Nat /\ faults \in Nat
  /\ switches = 0 => Knowledge
  /\ Calm => Fresh

\* No file returns to contents that it had, and nobody forces a run: then a run
\* that uploads leaves only rows of what the files contain, as long as nothing
\* fails and the configuration stays (orchestrator.ts:151-628 with
\* getCurrentState of the store). Both hypotheses are needed: a file that
\* returns to an old version while rows of two versions of it are stored may be
\* taken for unchanged, and a forced run uploads the chunks of removed files that
\* are still staged.
THEOREM NothingStale ==
  ASSUME NothingReturns, Unforced
  PROVE  Spec => []NoStaleRows
<1>1. Init => FreshInv
  BY InitFresh DEF FreshInv
<1>2. ASSUME FreshInv, [Next]_vars PROVE FreshInv'
  <2> USE DEF FreshInv
  <2>1. PoolInv' /\ Types'
    BY <1>2, NextPool, NextTypes
  <2>2. /\ switches' \in Nat /\ faults' \in Nat
        /\ switches' = 0 => switches' = switches
        /\ Calm' => Calm /\ faults' = faults
    BY <1>2, NextCounts
  <2>3. switches' = 0 => Knowledge'
    BY <1>2, <2>2, NextKnows
  <2>4. Calm' => Fresh'
    BY <1>2, <2>2, NextFresh DEF Calm
  <2> QED
    BY <2>1, <2>2, <2>3, <2>4
<1>3. FreshInv => NoStaleRows
  <2> SUFFICES ASSUME FreshInv PROVE NoStaleRows
    OBVIOUS
  <2>1. TypeOK
    BY TypesGiveTypeOK DEF FreshInv
  <2>2. ASSUME outcome = "ok", Uploads, Calm, NEW c \in Hashes, rows[c] # NoRow
        PROVE  /\ tree[rows[c].src] # Absent
               /\ c \in Range(ChunksOf[tree[rows[c].src]])
    <3>1. rows[c].src \in Files
      BY <2>2, RowTypes DEF FreshInv, Types, StoreRows
    <3>2. Clean(rows[c].src)
      BY <2>2, <3>1 DEF FreshInv, Fresh, CleanedUp
    <3> QED
      BY <2>2, <3>2 DEF Clean, RowsOf, InTree
  <2> QED
    BY <2>1, <2>2 DEF NoStaleRows, Calm
<1> QED
  BY <1>1, <1>2, <1>3, PTL DEF Spec

-----------------------------------------------------------------------------
(* No chunk of a file is missing from the store.                           *)

\* No two files ever have a chunk in common: the store keeps one row for a hash,
\* under one file name.
OwnHashes ==
  \A f, g \in Files : f # g =>
    \A v \in Versions[f], w \in Versions[g] :
      Range(ChunksOf[v]) \cap Range(ChunksOf[w]) = {}

\* The store can tell orphans and existing hashes, as the LanceDB store does.
StoreTells == HasOrphanCleanup = TRUE /\ HasExistingHashes = TRUE

\* What is known of a file are contents that it may have.
OfVersions ==
  \A f \in Files :
    /\ tree[f] \in Versions[f] \cup {Absent}
    /\ \A v \in Contents : Trace(f, v) => v \in Versions[f]

\* No chunk of the file is lost: each is in the store or staged.
Kept(f) ==
  \A c \in Range(ChunksOf[tree[f]]) : rows[c] # NoRow \/ staged[c] # NoRow

Found(f) == \A c \in Range(ChunksOf[tree[f]]) : rows[c] # NoRow

\* A file whose contents are known is not chunked again: nothing of it may be
\* lost, whatever fails.
KnownKept ==
  \A f \in InTree \ dropped : Trace(f, tree[f]) => Kept(f)

\* A run that can still reach its final flush.
Midway == phase \in {"prepare", "forget", "stream", "flush"} /\ ~failed

\* ... chunks a file before that, or nothing of it is lost,
OpenOrKept == Midway => \A f \in InTree \ dropped : Open(f) \/ Kept(f)

\* ... and brings every staged chunk into the store by it.
StagedCovered ==
  Midway =>
    \A c \in Hashes :
      staged[c] # NoRow /\ staged[c].src \in InTree =>
        \/ Open(staged[c].src) \/ rows[c] # NoRow
        \/ \E k \in Queued : k.id = c

\* After the final flush nothing is missing.
FlushedAll == phase = "cleanup" /\ Uploads => \A f \in InTree \ dropped : Found(f)

FoundAll == outcome = "ok" /\ Uploads => \A f \in InTree \ dropped : Found(f)

\* deleteOrphanedChunks knows all chunks of a file whose rows it removes.
HashesWhole ==
  ~failed =>
    \A f \in DOMAIN newHashes :
      \/ newHashes[f] = Range(ChunksOf[tree[f]])
      \/ f \in dropped
      \/ phase = "stream" /\ step = "replaced" /\ f = Head(chain).file

Covered ==
  /\ OfVersions /\ KnownKept /\ OpenOrKept /\ StagedCovered
  /\ FlushedAll /\ FoundAll /\ HashesWhole

\* Whatever is known of a hash names the one file that has it.
LEMMA Owner ==
  ASSUME OwnHashes, Types, Contained, OfVersions, NEW c \in Hashes
  PROVE  /\ \A f \in InTree : c \in Range(ChunksOf[tree[f]]) =>
              /\ rows[c] # NoRow => rows[c].src = f
              /\ staged[c] # NoRow => staged[c].src = f
              /\ \A k \in Queued : k.id = c => k.src = f
         /\ rows[c] # NoRow /\ staged[c] # NoRow => rows[c].src = staged[c].src
<1>1. rows[c] # NoRow =>
        /\ rows[c].src \in Files /\ rows[c].rev \in Contents
        /\ rows[c].rev \in Versions[rows[c].src] /\ c \in Range(ChunksOf[rows[c].rev])
  BY RowTypes DEF Types, StoreRows, Contained, OfVersions, Trace
<1>2. staged[c] # NoRow =>
        /\ staged[c].src \in Files /\ staged[c].rev \in Contents
        /\ staged[c].rev \in Versions[staged[c].src]
        /\ c \in Range(ChunksOf[staged[c].rev])
  BY RowTypes DEF Types, StagedRows, Contained, OfVersions, Trace
<1>3. \A k \in Queued :
        /\ k.src \in Files /\ k.rev \in Contents
        /\ k.rev \in Versions[k.src] /\ k.id \in Range(ChunksOf[k.rev])
  <2>1. \A k \in Queued : k.src \in Files /\ k.rev \in Contents
    <3>1. Range(pendingEmbed) \subseteq ToEmbed /\ Range(pendingUpload) \subseteq ToUpload
      BY RangeOf DEF Types, RunTypes
    <3> QED
      BY <3>1 DEF Queued, ToEmbed, ToUpload
  <2> QED
    BY <2>1 DEF Contained, OfVersions, Trace
<1>4. \A f \in InTree : f \in Files /\ tree[f] \in Versions[f]
  BY DEF InTree, OfVersions
<1>5. \A f, g \in Files : \A v \in Versions[f], w \in Versions[g] :
        c \in Range(ChunksOf[v]) /\ c \in Range(ChunksOf[w]) => f = g
  BY DEF OwnHashes
<1>6. ASSUME NEW f \in InTree, c \in Range(ChunksOf[tree[f]])
      PROVE  /\ rows[c] # NoRow => rows[c].src = f
             /\ staged[c] # NoRow => staged[c].src = f
             /\ \A k \in Queued : k.id = c => k.src = f
  BY <1>1, <1>2, <1>3, <1>4, <1>5, <1>6
<1>7. rows[c] # NoRow /\ staged[c] # NoRow => rows[c].src = staged[c].src
  BY <1>1, <1>2, <1>5
<1> QED
  BY <1>6, <1>7

\* What a step makes known is the contents of the file being staged.
LEMMA NextTrace ==
  ASSUME Unforced, PoolInv, Types, Knowledge, [Next]_vars, switches \in Nat,
         switches' = switches
  PROVE  \A f \in Files, v \in Contents :
           Trace(f, v)' =>
             \/ Trace(f, v)
             \/ /\ phase = "stream" /\ chain # <<>> /\ tree' = tree
                /\ f = Head(chain).file /\ v = tree[f]
                /\ ReplaceChunks \/ (step = "replaced" /\ UNCHANGED <<stores, staged, dropped>>)
<1>1. CASE Settling
  BY <1>1, SettlingSteps, SettlesTrace
<1>2. CASE \/ \E f \in Files : \E v : Edit(f, v)
           \/ \E m \in Modes : Begin(m)
  <2>1. UNCHANGED <<cfg, sqlite, stores, queues>>
    BY <1>2, BeginUnforced DEF Knowledge, Edit, env
  <2> QED
    BY <2>1 DEF sqlite, queues, Trace, Queued, rows
<1>3. ~(\E c \in Configs : Switch(c))
  BY DEF Switch
<1>4. CASE Scan
  <2>1. UNCHANGED <<sqlite, stores, dropped>> /\ phase = "scan"
    BY <1>4, ScanCases
  <2>2. PICK storeState \in StoreStates :
          \/ Resumes(storeState)
          \/ \E how : EndRun(how)
    BY <1>4, ScanCases
  <2>3. CASE \E how : EndRun(how)
    BY <2>1, <2>3, EndSettles, SettlesTrace
  <2>4. CASE Resumes(storeState)
    <3>1. staged' = staged /\ revs' = revs /\ rows' = rows
      BY <2>1, <2>4 DEF Resumes, env, sqlite, rows
    <3>2. \A k \in Queued' :
            /\ k.id \in Hashes /\ staged[k.id] # NoRow
            /\ k.src = staged[k.id].src /\ k.rev = staged[k.id].rev
      BY <2>4, ResumedQueue
    <3> QED
      BY <3>1, <3>2 DEF Trace
  <2> QED
    BY <2>2, <2>3, <2>4
<1>5. CASE ReplaceChunks
  <2>1. phase = "stream" /\ chain # <<>> /\ tree' = tree
    BY <1>5 DEF ReplaceChunks, env
  <2> QED
    BY <1>5, <2>1, ReplacedRows
<1>6. CASE QueueChunks \/ (JobFails /\ step = "replaced")
  <2>1. /\ phase = "stream" /\ step = "replaced" /\ chain # <<>>
        /\ UNCHANGED <<env, stores, staged, dropped>> /\ tree' = tree
        /\ revs' = [revs EXCEPT ![Head(chain).file] = tree[Head(chain).file]]
    <3>1. CASE QueueChunks
      BY <3>1 DEF QueueChunks, PoolInv, JobHeld, env, history
    <3>2. CASE JobFails /\ step = "replaced"
      BY <3>2 DEF JobFails, EmbedDue, PoolInv, JobHeld, env, history
    <3> QED
      BY <1>6, <3>1, <3>2
  <2>2. \A k \in Queued' :
          \/ k \in Queued
          \/ k.src = Head(chain).file /\ k.rev = tree[Head(chain).file]
    <3>1. CASE QueueChunks
      BY <2>1, <3>1, QueuedChunks
    <3>2. CASE JobFails /\ step = "replaced"
      BY <3>2 DEF JobFails, EmbedDue, queues, Queued
    <3> QED
      BY <1>6, <3>1, <3>2
  <2> QED
    BY <2>1, <2>2, RevisionTrace
<1> QED
  BY <1>1, <1>2, <1>3, <1>4, <1>5, <1>6 DEF Next, Running, Settling

\* Only an edit changes the tree, to contents that the file may have; only a
\* switch changes the configuration.
LEMMA NextWorld ==
  ASSUME Unforced, PoolInv, Types, Knowledge, [Next]_vars, switches \in Nat,
         switches' = switches
  PROVE  /\ cfg' = cfg
         /\ \/ tree' = tree
            \/ \E f \in Files : \E v \in Versions[f] \cup {Absent} : Edit(f, v)
<1>1. CASE Settling
  BY <1>1, SettlingSteps DEF Settles
<1>2. CASE \E f \in Files : \E v \in Versions[f] \cup {Absent} : Edit(f, v)
  BY <1>2 DEF Edit
<1>3. CASE \E m \in Modes : Begin(m)
  BY <1>3, BeginUnforced DEF Knowledge, env
<1>4. CASE Scan
  BY <1>4, ScanCases DEF Resumes, EndRun, env
<1>5. CASE ReplaceChunks \/ QueueChunks \/ JobFails
  BY <1>5 DEF ReplaceChunks, QueueChunks, JobFails, env
<1>6. ~(\E c \in Configs : Switch(c))
  BY DEF Switch
<1> QED
  BY <1>1, <1>2, <1>3, <1>4, <1>5, <1>6 DEF Next, Running, Settling

\* What is known of a file stays among its contents.
LEMMA NextVersions ==
  ASSUME Unforced, PoolInv, Types, Knowledge, [Next]_vars, switches \in Nat,
         switches' = switches, OfVersions
  PROVE  OfVersions'
<1>1. \A f \in Files : tree'[f] \in Versions[f] \cup {Absent}
  <2>1. CASE tree' = tree
    BY <2>1 DEF OfVersions
  <2>2. ASSUME NEW f \in Files, NEW v \in Versions[f] \cup {Absent}, Edit(f, v)
        PROVE  \A g \in Files : tree'[g] \in Versions[g] \cup {Absent}
    BY <2>2 DEF OfVersions, Edit, Types, StoredTypes
  <2> QED
    BY <2>1, <2>2, NextWorld
<1>2. ASSUME NEW f \in Files, NEW v \in Contents, Trace(f, v)' PROVE v \in Versions[f]
  <2>1. CASE Trace(f, v)
    BY <2>1 DEF OfVersions
  <2>2. CASE ~Trace(f, v)
    <3>1. chain # <<>> /\ f = Head(chain).file /\ v = tree[f]
      BY <1>2, <2>2, NextTrace
    <3>2. f \in InTree
      BY <3>1, RunningJob
    <3> QED
      BY <3>1, <3>2 DEF OfVersions, InTree
  <2> QED
    BY <2>1, <2>2
<1> QED
  BY <1>1, <1>2 DEF OfVersions

\* An upload moves the chunks of its batch into the store.
LEMMA UploadMoves ==
  ASSUME Types, NEW n \in 0..Len(pendingUpload), UpsertBatch(n), cfg' = cfg,
         NEW c \in Hashes
  PROVE  /\ rows[c] # NoRow => rows'[c] # NoRow
         /\ staged[c] # NoRow => staged'[c] # NoRow \/ rows'[c] # NoRow
         /\ \A k \in Range(pendingUpload) :
              k.id = c => rows'[c] # NoRow \/ k \in Range(pendingUpload')
<1> DEFINE batch == SubSeq(pendingUpload, 1, n)
<1>1. /\ batch \in Seq(ToUpload) /\ rows' = Upserted(batch)
      /\ \A d \in Hashes : staged'[d] = IF d \in Ids(batch) THEN NoRow ELSE staged[d]
      /\ Range(pendingUpload) = Range(batch) \cup Range(pendingUpload')
  BY UploadTypes DEF Types, RunTypes
<1> HIDE DEF batch
<1>2. Range(batch) \subseteq Range(pendingUpload)
  BY <1>1
<1>3. /\ rows'[c] = rows[c] \/ rows'[c] # NoRow
      /\ c \in Ids(batch) => rows'[c] # NoRow
  BY <1>1, <1>2, UpsertSettles
<1>4. \A k \in Range(batch) : k.id \in Ids(batch)
  BY <1>1, RangeOf DEF Ids
<1> QED
  BY <1>1, <1>3, <1>4

\* The rows that the preparation of a run deletes are of files that are gone.
LEMMA NothingDeleted ==
  ASSUME StoreTells, Types, SameConfiguration, NEW part \in SUBSET RowsOf(FilesToDelete),
         stores' = [stores EXCEPT ![cfg.store] = WithoutRows(part)], cfg' = cfg,
         NEW c \in Hashes, rows[c] # NoRow, rows[c].src \in InTree
  PROVE  rows'[c] # NoRow
<1>1. FilesToDelete = toDelete
  BY DEF StoreTells, SameConfiguration, FilesToDelete
<1>2. c \notin part
  BY <1>1 DEF RowsOf, Types, PoolTypes
<1>3. rows' = WithoutRows(part)
  BY StagedWritten, StoreWritten DEF Types
<1> QED
  BY <1>2, <1>3 DEF WithoutRows

\* No step but the removal of orphans takes a row from a file of the tree.
LEMMA RowsKept ==
  ASSUME StoreTells, Unforced, PoolInv, Types, Knowledge, [Next]_vars,
         switches \in Nat, switches' = switches,
         ~(\E g \in Files : DeleteOrphans(g)),
         NEW c \in Hashes, rows[c] # NoRow, rows[c].src \in InTree
  PROVE  rows'[c] # NoRow
<1>0. cfg' = cfg
  BY NextWorld
<1>1. CASE stores' = stores
  BY <1>0, <1>1 DEF rows
<1>2. CASE PrepareUpdate \/ StoreFails \/ JobFails \/ Killed
  <2>1. ASSUME NEW part \in SUBSET RowsOf(FilesToDelete),
               stores' = [stores EXCEPT ![cfg.store] = WithoutRows(part)]
        PROVE  rows'[c] # NoRow
    BY <1>0, <2>1, NothingDeleted DEF Knowledge
  <2>2. ASSUME NEW batch \in Seq(ToUpload), NEW taken,
               Range(batch) \subseteq Range(pendingUpload),
               \/ stores' = [stores EXCEPT ![cfg.store] = Upserted(batch)]
               \/ stores' = [stores EXCEPT ![cfg.store] = PartlyUpserted(batch, taken)]
        PROVE  rows'[c] # NoRow
    <3>1. /\ Upserted(batch) \in [Hashes -> StoreRows \cup {NoRow}]
          /\ PartlyUpserted(batch, taken) \in [Hashes -> StoreRows \cup {NoRow}]
      BY PartTypes, UpsertedRows DEF Types
    <3>2. rows' = Upserted(batch) \/ rows' = PartlyUpserted(batch, taken)
      BY <1>0, <2>2, <3>1, StoreWritten DEF Types
    <3> QED
      BY <2>2, <3>2, UpsertSettles
  <2>3. CASE PrepareUpdate
    <3>1. \/ stores' = stores
          \/ stores' = [stores EXCEPT ![cfg.store] = WithoutRows(RowsOf(FilesToDelete))]
      BY <2>3 DEF PrepareUpdate
    <3> QED
      BY <1>1, <2>1, <3>1
  <2>4. CASE StoreFails
    <3>1. \/ \E part \in SUBSET RowsOf(FilesToDelete) :
               stores' = [stores EXCEPT ![cfg.store] = WithoutRows(part)]
          \/ \E taken \in SUBSET Ids(InFlight) :
               stores' = [stores EXCEPT ![cfg.store] = PartlyUpserted(InFlight, taken)]
      BY <2>4 DEF StoreFails
    <3> QED
      BY <2>1, <2>2, <3>1, InFlightTypes
  <2>5. CASE JobFails
    <3> DEFINE batch == SubSeq(pendingUpload, 1, MinUploadBatch)
    <3>1. \/ stores' = stores
          \/ /\ UploadDue
             /\ \E taken \in SUBSET Ids(batch) :
                  stores' = [stores EXCEPT ![cfg.store] = PartlyUpserted(batch, taken)]
      BY <2>5 DEF JobFails
    <3>2. UploadDue => /\ batch \in Seq(ToUpload)
                       /\ Range(batch) \subseteq Range(pendingUpload)
      <4>1. UploadDue => MinUploadBatch \in 0..Len(pendingUpload)
        BY SizesAssumption DEF UploadDue, Types, RunTypes
      <4> QED
        BY <4>1, SplitRange DEF Types, RunTypes
    <3> HIDE DEF batch
    <3> QED
      BY <1>1, <2>2, <3>1, <3>2
  <2>6. CASE Killed
    <3>1. \/ stores' = stores
          \/ stores' = [stores EXCEPT ![cfg.store] = Upserted(InFlight)]
      BY <2>6 DEF Killed
    <3> QED
      BY <1>1, <2>2, <3>1, InFlightTypes
  <2> QED
    BY <1>2, <2>3, <2>4, <2>5, <2>6
<1>3. CASE UploadBatch \/ FlushUpload
  <2>1. stores' = stores \/ \E n \in 0..Len(pendingUpload) : UpsertBatch(n)
    <3>1. Len(pendingUpload) \in Nat
      BY DEF Types, RunTypes
    <3>2. UploadBatch => MinUploadBatch \in 0..Len(pendingUpload)
      BY <3>1, SizesAssumption DEF UploadBatch, UploadDue
    <3> QED
      BY <1>3, <3>1, <3>2 DEF UploadBatch, FlushUpload
  <2> QED
    BY <1>0, <1>1, <2>1, UploadMoves
<1>4. CASE \/ UNCHANGED vars \/ PreWarm \/ (\E f \in Files : ForgetFile(f))
           \/ (\E w \in Workers : TakeTask(w) \/ ChunkFile(w) \/ ChunkerFails(w))
           \/ EmbedBatch \/ UploadedEnough \/ JobDone \/ SkipJob \/ FlushRest
           \/ Throw \/ Finish \/ Crash \/ Scan \/ ReplaceChunks \/ QueueChunks
           \/ (\E m \in Modes : Begin(m))
           \/ (\E f \in Files : \E v : Edit(f, v))
  <2>1. stores' = stores
    <3>1. CASE \/ UNCHANGED vars \/ PreWarm \/ (\E f \in Files : ForgetFile(f))
               \/ (\E w \in Workers : TakeTask(w) \/ ChunkFile(w) \/ ChunkerFails(w))
      BY <3>1 DEF vars, PreWarm, ForgetFile, TakeTask, ChunkFile, ChunkerFails
    <3>2. CASE EmbedBatch \/ UploadedEnough \/ JobDone \/ SkipJob \/ FlushRest
      BY <3>2 DEF EmbedBatch, UploadedEnough, JobDone, SkipJob, FlushRest
    <3>3. CASE Throw \/ Finish \/ Crash \/ Scan \/ ReplaceChunks \/ QueueChunks
      BY <3>3 DEF Throw, Finish, Crash, Scan, ReplaceChunks, QueueChunks
    <3>4. CASE \/ (\E m \in Modes : Begin(m))
               \/ (\E f \in Files : \E v : Edit(f, v))
      BY <3>4 DEF Begin, Edit
    <3> QED
      BY <1>4, <3>1, <3>2, <3>3, <3>4
  <2> QED
    BY <1>1, <2>1
<1>5. ~(\E d \in Configs : Switch(d))
  BY DEF Switch
<1> QED
  BY <1>2, <1>3, <1>4, <1>5 DEF Next, Running

\* The removal of orphans takes no row that the file still has, unless a chunker
\* has failed on it.
LEMMA OrphansOnly ==
  ASSUME OwnHashes, PoolInv, Types, Contained, OfVersions, HashesWhole,
         NEW g \in Files, DeleteOrphans(g),
         NEW f \in InTree \ dropped, NEW c \in Range(ChunksOf[tree[f]]),
         rows[c] # NoRow
  PROVE  rows'[c] # NoRow
<1>1. /\ cfg' = cfg /\ phase = "cleanup" /\ ~failed
      /\ stores' = [stores EXCEPT ![cfg.store] =
                      WithoutRows(RowsOf({g}) \ newHashes[g])]
      /\ g \in DOMAIN newHashes
  BY DEF DeleteOrphans, ToClean, env, Types, Quiet
<1>2. rows' = WithoutRows(RowsOf({g}) \ newHashes[g])
  BY <1>1, StagedWritten, StoreWritten DEF Types
<1>3. c \in Hashes
  BY TreeContents DEF Types
<1>4. rows[c].src = f
  BY <1>3, Owner
<1>5. c \notin RowsOf({g}) \ newHashes[g]
  <2>1. CASE g = f
    BY <1>1, <2>1 DEF HashesWhole
  <2>2. CASE g # f
    BY <1>4, <2>2 DEF RowsOf
  <2> QED
    BY <2>1, <2>2
<1> QED
  BY <1>2, <1>3, <1>5 DEF WithoutRows

\* A staged chunk of a file of the tree goes only into the store, or when the
\* file is staged without it.
LEMMA StagedKept ==
  ASSUME Unforced, PoolInv, Types, Knowledge, [Next]_vars,
         switches \in Nat, switches' = switches,
         NEW c \in Hashes, staged[c] # NoRow, staged[c].src \in InTree
  PROVE  \/ staged'[c] # NoRow \/ rows'[c] # NoRow
         \/ /\ ReplaceChunks /\ staged[c].src = Head(chain).file
            /\ c \notin Range(Head(chain).chunks)
<1>0. cfg' = cfg
  BY NextWorld
<1>1. CASE staged' = staged
  BY <1>1
<1>2. ASSUME NEW f \in toDelete, staged' = WithoutStaged(f) PROVE staged'[c] # NoRow
  BY <1>2 DEF WithoutStaged, Types, PoolTypes
<1>3. ASSUME NEW batch, staged' = WithVectors(batch) PROVE staged'[c] # NoRow
  <2>1. staged[c] \in StagedRows
    BY RowTypes DEF Types
  <2>2. [staged[c] EXCEPT !.vec = cfg.model] \in StagedRows
    BY <2>1, RowTypes DEF Types, StagedRows
  <2> QED
    BY <1>3, <2>2, ValuesAssumption DEF WithVectors
<1>4. CASE \E f \in Files : ForgetFile(f)
  BY <1>2, <1>4 DEF ForgetFile
<1>5. CASE EmbedBatch
  BY <1>3, <1>5 DEF EmbedBatch
<1>6. CASE UploadBatch \/ FlushUpload
  <2>1. staged' = staged \/ \E n \in 0..Len(pendingUpload) : UpsertBatch(n)
    <3>1. Len(pendingUpload) \in Nat
      BY DEF Types, RunTypes
    <3>2. UploadBatch => MinUploadBatch \in 0..Len(pendingUpload)
      BY <3>1, SizesAssumption DEF UploadBatch, UploadDue
    <3> QED
      BY <1>6, <3>1, <3>2 DEF UploadBatch, FlushUpload
  <2> QED
    BY <1>0, <1>1, <2>1, UploadMoves
<1>7. CASE ReplaceChunks
  BY <1>7, ReplacedRows
<1>8. CASE Killed
  <2>1. \/ staged' = staged \/ ModelChanged
        \/ \E f \in toDelete : staged' = WithoutStaged(f)
        \/ \E n \in 1..EmbedLimit : staged' = WithVectors(SubSeq(pendingEmbed, 1, n))
    BY <1>8 DEF Killed
  <2>2. ~ModelChanged
    BY DEF Knowledge, SameConfiguration, ModelChanged
  <2> QED
    BY <1>2, <1>3, <2>1, <2>2
<1>9. CASE \/ UNCHANGED vars \/ PreWarm \/ PrepareUpdate
           \/ (\E w \in Workers : TakeTask(w) \/ ChunkFile(w) \/ ChunkerFails(w))
           \/ UploadedEnough \/ JobDone \/ SkipJob \/ JobFails \/ FlushRest
           \/ Throw \/ Finish \/ Crash \/ Scan \/ QueueChunks \/ StoreFails
           \/ (\E m \in Modes : Begin(m))
           \/ (\E f \in Files : \E v : Edit(f, v))
           \/ (\E f \in Files : DeleteOrphans(f))
  <2>1. staged' = staged
    <3>1. CASE \/ UNCHANGED vars \/ PreWarm \/ PrepareUpdate
               \/ (\E w \in Workers : TakeTask(w) \/ ChunkFile(w) \/ ChunkerFails(w))
      BY <3>1 DEF vars, PreWarm, PrepareUpdate, TakeTask, ChunkFile, ChunkerFails, sqlite
    <3>2. CASE UploadedEnough \/ JobDone \/ SkipJob \/ JobFails \/ FlushRest
      BY <3>2 DEF UploadedEnough, JobDone, SkipJob, JobFails, FlushRest, sqlite
    <3>3. CASE Throw \/ Finish \/ Crash \/ Scan \/ QueueChunks \/ StoreFails
      BY <3>3 DEF Throw, Finish, Crash, Scan, QueueChunks, StoreFails, sqlite
    <3>4. CASE \E m \in Modes : Begin(m)
      BY <3>4, BeginUnforced DEF Knowledge, sqlite
    <3>5. CASE \/ (\E f \in Files : \E v : Edit(f, v))
               \/ (\E f \in Files : DeleteOrphans(f))
      BY <3>5 DEF Edit, DeleteOrphans, sqlite
    <3> QED
      BY <1>9, <3>1, <3>2, <3>3, <3>4, <3>5
  <2> QED
    BY <1>1, <2>1
<1>10. ~(\E d \in Configs : Switch(d))
  BY DEF Switch
<1> QED
  BY <1>4, <1>5, <1>6, <1>7, <1>8, <1>9, <1>10 DEF Next, Running

\* A job that is not missing a chunk has all chunks of its file.
LEMMA NotDropped ==
  ASSUME Types, ReplaceChunks, Head(chain).file \notin dropped'
  PROVE  /\ Range(Head(chain).chunks) = Range(ChunksOf[tree[Head(chain).file]])
         /\ \A f : f # Head(chain).file => (f \in dropped' <=> f \in dropped)
BY DEF ReplaceChunks

\* No step loses what was not lost.
LEMMA NothingLost ==
  ASSUME OwnHashes, StoreTells, Unforced, PoolInv, Types, Knowledge, [Next]_vars,
         switches \in Nat, switches' = switches, OfVersions, HashesWhole,
         tree' = tree, NEW f \in InTree, f \notin dropped, f \notin dropped', Kept(f)
  PROVE  Kept(f)'
<1> SUFFICES ASSUME NEW c \in Range(ChunksOf[tree[f]])
             PROVE  rows'[c] # NoRow \/ staged'[c] # NoRow
  BY DEF Kept
<1>1. c \in Hashes
  BY TreeContents DEF Types
<1>2. CASE rows[c] # NoRow
  <2>1. rows[c].src = f
    BY <1>1, <1>2, Owner DEF Knowledge
  <2>2. CASE \E g \in Files : DeleteOrphans(g)
    BY <1>2, <2>2, OrphansOnly DEF Knowledge
  <2> QED
    BY <1>1, <1>2, <2>1, <2>2, RowsKept
<1>3. CASE staged[c] # NoRow
  <2>1. staged[c].src = f
    BY <1>1, <1>3, Owner DEF Knowledge
  <2>2. ReplaceChunks /\ f = Head(chain).file => c \in Range(Head(chain).chunks)
    BY NotDropped
  <2> QED
    BY <1>1, <1>3, <2>1, <2>2, StagedKept
<1> QED
  BY <1>2, <1>3 DEF Kept

\* Only the staging of a file changes what is said of it.
LEMMA DroppedBy ==
  ASSUME [Next]_vars, dropped' # dropped
  PROVE  ReplaceChunks
<1>1. CASE UNCHANGED vars
  BY <1>1 DEF vars, history
<1>2. ~(\E f \in Files : \E v : Edit(f, v)) /\ ~(\E c \in Configs : Switch(c))
      /\ ~(\E m \in Modes : Begin(m))
  BY DEF Edit, Switch, Begin
<1>3. ~(Scan \/ PrepareUpdate \/ PreWarm \/ QueueChunks)
  BY DEF Scan, PrepareUpdate, PreWarm, QueueChunks, history
<1>4. ~(EmbedBatch \/ UploadBatch \/ UploadedEnough \/ JobDone \/ SkipJob)
  BY DEF EmbedBatch, UploadBatch, UploadedEnough, JobDone, SkipJob, history
<1>5. ~(Throw \/ FlushRest \/ FlushUpload \/ Finish)
  BY DEF Throw, FlushRest, FlushUpload, Finish, history
<1>6. ~(\E f \in Files : ForgetFile(f) \/ DeleteOrphans(f))
      /\ ~(\E w \in Workers : TakeTask(w) \/ ChunkFile(w) \/ ChunkerFails(w))
  BY DEF ForgetFile, DeleteOrphans, TakeTask, ChunkFile, ChunkerFails, history
<1>7. ~(JobFails \/ Crash \/ StoreFails \/ Killed)
  BY DEF JobFails, Crash, StoreFails, Killed, history
<1> QED
  BY <1>1, <1>2, <1>3, <1>4, <1>5, <1>6, <1>7 DEF Next, Running

\* A file staged with all its chunks is kept.
LEMMA StagedWhole ==
  ASSUME PoolInv, Types, ReplaceChunks, NEW f, f = Head(chain).file, f \notin dropped'
  PROVE  Kept(f)'
<1>1. Range(Head(chain).chunks) = Range(ChunksOf[tree[f]])
  BY NotDropped
<1>2. /\ tree' = tree
      /\ \A c \in Range(Head(chain).chunks) : c \in Hashes => staged'[c] # NoRow
  BY ReplacedRows
<1>3. Range(ChunksOf[tree[f]]) \subseteq Hashes
  <2>1. chain # <<>>
    BY DEF ReplaceChunks
  <2> QED
    BY <2>1, RunningJob, TreeContents DEF Types
<1> QED
  BY <1>1, <1>2, <1>3 DEF Kept

\* A known file is kept, whatever fails: what is not in the store is still
\* staged.
LEMMA NextKept ==
  ASSUME NothingReturns, OwnHashes, StoreTells, Unforced, PoolInv, Types, Types',
         Knowledge, [Next]_vars, switches \in Nat, switches' = switches,
         OfVersions, HashesWhole, KnownKept
  PROVE  KnownKept'
<1> SUFFICES ASSUME NEW f \in InTree', f \notin dropped', Trace(f, tree[f])'
             PROVE  Kept(f)'
  BY DEF KnownKept
<1>1. f \in Files /\ tree'[f] \in Contents
  BY ValuesAssumption DEF InTree, Types, StoredTypes
<1>2. CASE tree' = tree
  <2>1. f \in InTree
    BY <1>2 DEF InTree
  <2>2. CASE Trace(f, tree[f]) /\ f \notin dropped
    <3>1. Kept(f)
      BY <2>1, <2>2 DEF KnownKept
    <3> QED
      BY <1>2, <2>1, <2>2, <3>1, NothingLost
  <2>3. CASE ReplaceChunks /\ f = Head(chain).file
    BY <2>3, StagedWhole
  <2>4. CASE f \in dropped
    <3>1. ReplaceChunks
      BY <2>4, DroppedBy
    <3>2. f = Head(chain).file
      BY <2>4, <3>1 DEF ReplaceChunks
    <3> QED
      BY <2>3, <3>1, <3>2
  <2>5. CASE ~Trace(f, tree[f]) /\ ~ReplaceChunks /\ f \notin dropped
    <3>1. /\ phase = "stream" /\ step = "replaced" /\ f = Head(chain).file
          /\ UNCHANGED <<stores, staged, dropped>>
      BY <1>1, <1>2, <2>5, NextTrace
    <3>2. \A c \in Range(ChunksOf[tree[f]]) : staged[c] # NoRow
      BY <2>5, <3>1 DEF Knowledge, Replacing
    <3> QED
      BY <1>2, <3>1, <3>2 DEF Kept
  <2>6. ~Trace(f, tree[f]) /\ ReplaceChunks => f = Head(chain).file
    BY <1>1, <1>2, NextTrace
  <2> QED
    BY <2>2, <2>3, <2>4, <2>5, <2>6
<1>3. ASSUME NEW g \in Files, NEW v, Edit(g, v) PROVE Kept(f)'
  <2>1. /\ UNCHANGED <<cfg, sqlite, stores, queues, dropped>>
        /\ tree' = [tree EXCEPT ![g] = v] /\ <<g, tree[g], v>> \in Edits
    BY <1>3 DEF Edit
  <2>2. /\ v \in Contents \cup {Absent} /\ tree[g] \in Contents \cup {Absent}
        /\ \A h \in Files : tree'[h] = IF h = g THEN v ELSE tree[h]
    BY <2>1, ChoicesAssumption DEF Types, StoredTypes
  <2>3. rows' = rows /\ staged' = staged /\ revs' = revs /\ Queued' = Queued
    BY <2>1 DEF rows, sqlite, queues, Queued
  <2>4. Trace(f, tree'[f])
    BY <2>3 DEF Trace
  <2>5. f # g
    <3> SUFFICES ASSUME f = g PROVE FALSE
      OBVIOUS
    <3>1. Age[f][tree[f]] < Age[f][v] /\ Age[f][tree[f]] \in Nat /\ Age[f][v] \in Nat
      BY <2>1, <2>2, AgeProps
    <3>2. v \in Contents /\ tree'[f] = v
      BY <1>1, <2>2
    <3> QED
      BY <1>1, <2>4, <3>1, <3>2 DEF Knowledge, NotNewer
  <2>6. tree'[f] = tree[f] /\ f \in InTree
    BY <1>1, <2>2, <2>5 DEF InTree
  <2>7. Kept(f)
    BY <2>1, <2>4, <2>6 DEF KnownKept
  <2> QED
    BY <2>3, <2>6, <2>7 DEF Kept
<1> QED
  BY <1>2, <1>3, NextWorld

\* The steps that lead to a run that can still reach its final flush.
LEMMA MidwaySteps ==
  ASSUME PoolInv, Types, [Next]_vars, Midway'
  PROVE  \/ \E storeState \in StoreStates : Scan /\ Resumes(storeState)
         \/ /\ Midway /\ tree' = tree
            /\ \/ MidRun \/ PrepareUpdate \/ UNCHANGED vars
               \/ \E w \in Workers : ChunkerFails(w)
<1>1. CASE Scan
  BY <1>1, ScanCases DEF EndRun, Midway
<1>2. CASE MidRun
  BY <1>2, MidRunSame DEF Midway
<1>3. CASE PrepareUpdate \/ UNCHANGED vars \/ \E w \in Workers : ChunkerFails(w)
  BY <1>3 DEF PrepareUpdate, ChunkerFails, vars, env, Midway
<1>4. ~(JobFails \/ SkipJob)
  BY DEF JobFails, SkipJob, Midway
<1>5. ~(Throw \/ Finish \/ Crash \/ StoreFails \/ Killed)
  BY DEF Throw, Finish, Crash, StoreFails, Killed, EndRun, Midway
<1>6. ~(\E m \in Modes : Begin(m)) /\ ~(\E c \in Configs : Switch(c))
      /\ ~(\E f \in Files : \E v : Edit(f, v))
  BY DEF Begin, Switch, Edit, Midway
<1>7. ~(\E f \in Files : DeleteOrphans(f))
  BY DEF DeleteOrphans, Midway
<1> QED
  BY <1>1, <1>2, <1>3, <1>4, <1>5, <1>6, <1>7 DEF Next, Running, MidRun

\* In the middle of a run an open file stays open, or it is staged whole.
LEMMA NextOpenOrKept ==
  ASSUME OwnHashes, StoreTells, Unforced, PoolInv, Types, Types',
         Knowledge, [Next]_vars, switches \in Nat, switches' = switches,
         OfVersions, HashesWhole, KnownKept, OpenOrKept
  PROVE  OpenOrKept'
<1> SUFFICES ASSUME Midway', NEW f \in InTree', f \notin dropped'
             PROVE  Open(f)' \/ Kept(f)'
  BY DEF OpenOrKept
<1>1. ASSUME NEW storeState \in StoreStates, Scan, Resumes(storeState)
      PROVE  Open(f)' \/ Kept(f)'
  <2>1. /\ todo' = Changed(PreviousState(storeState))
        /\ UNCHANGED <<env, sqlite, stores, dropped>>
    BY <1>1, ScanCases DEF Resumes
  <2>2. tree' = tree /\ f \in InTree /\ f \in Files /\ tree[f] # Absent
    BY <2>1 DEF env, InTree
  <2>3. CASE f \in Range(todo')
    BY <2>3 DEF Open
  <2>4. CASE f \notin Range(todo')
    <3>1. f \notin Gone(PreviousState(storeState))
      BY <2>2 DEF Gone
    <3>2. Trace(f, tree[f])
      BY <2>1, <2>2, <2>4, <3>1, PassedOver DEF Knowledge
    <3>3. Kept(f)
      BY <2>1, <2>2, <3>2 DEF KnownKept
    <3> QED
      BY <2>1, <3>3 DEF Kept, rows, env, sqlite
  <2> QED
    BY <2>3, <2>4
<1>2. ASSUME Midway, tree' = tree,
             \/ MidRun \/ PrepareUpdate \/ UNCHANGED vars
             \/ \E w \in Workers : ChunkerFails(w)
      PROVE  Open(f)' \/ Kept(f)'
  <2>1. f \in InTree
    BY <1>2 DEF InTree
  <2>2. CASE f \in dropped
    <3>1. ReplaceChunks
      BY <2>2, DroppedBy
    <3>2. f = Head(chain).file
      BY <2>2, <3>1 DEF ReplaceChunks
    <3> QED
      BY <3>1, <3>2, StagedWhole
  <2>3. CASE f \notin dropped /\ Kept(f)
    BY <1>2, <2>1, <2>3, NothingLost
  <2>4. CASE f \notin dropped /\ Open(f)
    <3>1. CASE PrepareUpdate \/ UNCHANGED vars
      BY <2>4, <3>1 DEF PrepareUpdate, vars, pool, Open
    <3>2. CASE QueueChunks /\ chain # <<>> /\ f = Head(chain).file
      <4>1. /\ phase = "stream" /\ step = "replaced"
            /\ UNCHANGED <<env, stores, staged>>
        BY <3>2 DEF QueueChunks
      <4>2. \A c \in Range(ChunksOf[tree[f]]) : staged[c] # NoRow
        BY <2>4, <3>2, <4>1 DEF Knowledge, Replacing
      <4> QED
        BY <1>2, <4>1, <4>2 DEF Kept
    <3> QED
      BY <1>2, <2>4, <3>1, <3>2, OpenKept
  <2> QED
    BY <1>2, <2>1, <2>2, <2>3, <2>4 DEF OpenOrKept
<1> QED
  BY <1>1, <1>2, MidwaySteps

\* Every staged chunk of a file that is not skipped is resumed.
LEMMA ResumedEvery ==
  ASSUME StoredTypes, NEW skip, NEW vecs, NEW c \in Hashes,
         staged[c] # NoRow, staged[c].src \notin skip, staged[c].vec \in vecs
  PROVE  \E k \in Range(Resumed(skip, vecs)) : k.id = c
<1>1. Chunk(c, staged[c].src, staged[c].rev, staged[c].vec) \in Range(Resumed(skip, vecs))
  BY ResumedChunks, Zenon
<1>2. Chunk(c, staged[c].src, staged[c].rev, staged[c].vec).id = c
  BY DEF Chunk
<1> QED
  BY <1>1, <1>2

\* The staged chunks of the files that a run does not chunk are resumed.
LEMMA ResumedAll ==
  ASSUME Types, NEW storeState \in StoreStates, Resumes(storeState),
         NEW c \in Hashes, staged[c] # NoRow,
         staged[c].src \notin Range(todo') \cup toDelete'
  PROVE  \E k \in Queued' : k.id = c
<1> DEFINE previous == PreviousState(storeState)
           skip     == Range(Changed(previous)) \cup Gone(previous)
<1>1. /\ pendingEmbed' = Resumed(skip, {NoVector})
      /\ pendingUpload' = Resumed(skip, ModelNames)
      /\ staged[c].src \notin skip
  BY DEF Resumes
<1> HIDE DEF previous, skip
<1>2. staged[c].vec \in ModelNames \cup {NoVector}
  BY RowTypes DEF Types, StagedRows
<1>3. staged[c].vec \in {NoVector} =>
        \E k \in Range(Resumed(skip, {NoVector})) : k.id = c
  BY <1>1, ResumedEvery DEF Types
<1>4. staged[c].vec \in ModelNames =>
        \E k \in Range(Resumed(skip, ModelNames)) : k.id = c
  BY <1>1, ResumedEvery DEF Types
<1>5. \/ \E k \in Range(pendingEmbed') : k.id = c
      \/ \E k \in Range(pendingUpload') : k.id = c
  BY <1>1, <1>2, <1>3, <1>4
<1> QED
  BY <1>5 DEF Queued

\* Embedding moves a chunk from one queue to the other.
LEMMA EmbedMoves ==
  ASSUME Types, EmbedBatch
  PROVE  /\ Range(pendingUpload) \subseteq Range(pendingUpload')
         /\ \A e \in Range(pendingEmbed) :
              \/ e \in Range(pendingEmbed')
              \/ \E k \in Range(pendingUpload') : k.id = e.id
BY EmbedBatchTypes, Zenon

\* A chunk in memory leaves the queues of a run only for the store.
LEMMA QueuedKept ==
  ASSUME PoolInv, Types, cfg' = cfg,
         \/ MidRun \/ PrepareUpdate \/ UNCHANGED vars
         \/ \E w \in Workers : ChunkerFails(w),
         NEW c \in Hashes, \E k \in Queued : k.id = c
  PROVE  rows'[c] # NoRow \/ \E k \in Queued' : k.id = c
<1>1. CASE queues' = queues
  BY <1>1 DEF queues, Queued
<1>2. CASE EmbedBatch
  BY <1>2, EmbedMoves DEF Queued
<1>3. CASE QueueChunks
  BY <1>3, QueuedChunks DEF QueueChunks, PoolInv, JobHeld
<1>4. CASE UploadBatch \/ FlushUpload
  <2>1. /\ pendingEmbed' = pendingEmbed
        /\ pendingUpload' = pendingUpload \/ \E n \in 0..Len(pendingUpload) : UpsertBatch(n)
    <3>1. Len(pendingUpload) \in Nat
      BY DEF Types, RunTypes
    <3>2. UploadBatch => MinUploadBatch \in 0..Len(pendingUpload)
      BY <3>1, SizesAssumption DEF UploadBatch, UploadDue
    <3> QED
      BY <1>4, <3>1, <3>2 DEF UploadBatch, FlushUpload
  <2> QED
    BY <2>1, UploadMoves DEF Queued
<1>5. CASE \/ PreWarm \/ PrepareUpdate \/ UNCHANGED vars
           \/ (\E f \in Files : ForgetFile(f))
           \/ (\E w \in Workers : TakeTask(w) \/ ChunkFile(w) \/ ChunkerFails(w))
           \/ ReplaceChunks \/ UploadedEnough \/ JobDone \/ FlushRest
  <2>1. CASE \/ PreWarm \/ PrepareUpdate \/ UNCHANGED vars
             \/ (\E f \in Files : ForgetFile(f))
    BY <1>1, <2>1 DEF PreWarm, PrepareUpdate, vars, ForgetFile
  <2>2. CASE \E w \in Workers : TakeTask(w) \/ ChunkFile(w) \/ ChunkerFails(w)
    BY <1>1, <2>2 DEF TakeTask, ChunkFile, ChunkerFails
  <2>3. CASE ReplaceChunks \/ UploadedEnough \/ JobDone \/ FlushRest
    BY <1>1, <2>3 DEF ReplaceChunks, UploadedEnough, JobDone, FlushRest
  <2> QED
    BY <1>5, <2>1, <2>2, <2>3
<1> QED
  BY <1>2, <1>3, <1>4, <1>5 DEF MidRun

\* Every staged chunk is on its way to the store: a run resumes it, or queues it
\* when it stages the file.
LEMMA NextStagedCovered ==
  ASSUME OwnHashes, StoreTells, Unforced, PoolInv, Types,
         Knowledge, [Next]_vars, switches \in Nat, switches' = switches,
         OfVersions, StagedCovered
  PROVE  StagedCovered'
<1> SUFFICES ASSUME Midway', NEW c \in Hashes, staged'[c] # NoRow,
                    NEW f \in InTree', f = staged'[c].src
             PROVE  Open(f)' \/ rows'[c] # NoRow \/ \E k \in Queued' : k.id = c
  BY DEF StagedCovered
<1>1. ASSUME NEW storeState \in StoreStates, Scan, Resumes(storeState)
      PROVE  Open(f)' \/ rows'[c] # NoRow \/ \E k \in Queued' : k.id = c
  <2>1. /\ toDelete' = Gone(PreviousState(storeState))
        /\ UNCHANGED <<env, sqlite>>
    BY <1>1, ScanCases DEF Resumes
  <2>2. staged' = staged /\ f \notin toDelete'
    BY <2>1 DEF env, sqlite, InTree, Gone
  <2>3. f \in Range(todo') => Open(f)'
    BY DEF Open
  <2> QED
    BY <1>1, <2>2, <2>3, ResumedAll
<1>2. ASSUME Midway, tree' = tree,
             \/ MidRun \/ PrepareUpdate \/ UNCHANGED vars
             \/ \E w \in Workers : ChunkerFails(w)
      PROVE  Open(f)' \/ rows'[c] # NoRow \/ \E k \in Queued' : k.id = c
  <2>0. f \in InTree /\ cfg' = cfg
    BY <1>2, NextWorld DEF InTree
  <2>1. Open(f) => Open(f)' \/ (QueueChunks /\ chain # <<>> /\ f = Head(chain).file)
    <3>1. CASE PrepareUpdate \/ UNCHANGED vars
      BY <3>1 DEF PrepareUpdate, vars, pool, Open
    <3> QED
      BY <1>2, <3>1, OpenKept
  <2>2. CASE staged[c] # NoRow /\ staged[c].src = f
             /\ ~(QueueChunks /\ chain # <<>> /\ f = Head(chain).file)
    <3>1. rows[c] # NoRow => rows'[c] # NoRow
      <4>1. ~(\E g \in Files : DeleteOrphans(g))
        BY DEF DeleteOrphans, Midway
      <4>2. rows[c] # NoRow => rows[c].src = f
        BY <2>2, Owner DEF Knowledge
      <4> QED
        BY <2>0, <4>1, <4>2, RowsKept
    <3>2. Open(f) \/ rows[c] # NoRow \/ \E k \in Queued : k.id = c
      BY <1>2, <2>0, <2>2 DEF StagedCovered
    <3> QED
      BY <1>2, <2>0, <2>1, <2>2, <3>1, <3>2, QueuedKept
  <2>3. CASE QueueChunks /\ chain # <<>> /\ f = Head(chain).file
    <3>1. /\ phase = "stream" /\ step = "replaced" /\ staged' = staged
          /\ rows' = rows
      BY <2>3 DEF QueueChunks, env, rows
    <3>2. c \in Range(Head(chain).chunks)
      BY <2>3, <3>1 DEF Knowledge, Replacing
    <3>3. c \in Existing(f) => rows[c] # NoRow
      BY DEF Existing, StoreTells, Knowledge, SameConfiguration
    <3> QED
      BY <2>3, <3>1, <3>2, <3>3, QueuedChunks
  <2>4. CASE ReplaceChunks
    <3>1. /\ chain # <<>> /\ chain' = chain /\ step' = "replaced" /\ step = "idle"
      BY <2>4 DEF ReplaceChunks, pool
    <3>2. CASE f = Head(chain).file
      <4>1. 1 \in DOMAIN chain /\ chain[1] = Head(chain)
        <5>1. chain \in Seq(Jobs)
          BY DEF Types, PoolTypes
        <5> QED
          BY <3>1, <5>1
      <4> QED
        BY <3>1, <3>2, <4>1 DEF Open
    <3>3. CASE f # Head(chain).file
      <4>1. staged[c] # NoRow /\ staged[c].src = f
        BY <2>4, <3>3, ReplacedRows
      <4> QED
        BY <2>2, <3>3, <4>1
    <3> QED
      BY <3>2, <3>3
  <2>5. CASE ~ReplaceChunks
    <3>1. CASE QueueChunks
      <4>1. staged' = staged /\ chain # <<>>
        BY <3>1 DEF QueueChunks, PoolInv, JobHeld
      <4> QED
        BY <2>2, <2>3, <4>1
    <3>2. CASE ~QueueChunks
      <4>1. Settles
        BY <1>2, <2>5, <3>2, SettlingSteps DEF MidRun, Settling
      <4> QED
        BY <2>2, <3>2, <4>1 DEF Settles
    <3> QED
      BY <3>1, <3>2
  <2> QED
    BY <2>4, <2>5
<1> QED
  BY <1>1, <1>2, MidwaySteps

\* The steps after which a run is cleaning up.
LEMMA CleanupSteps ==
  ASSUME PoolInv, Types, [Next]_vars, phase' = "cleanup"
  PROVE  FlushUpload \/ (\E g \in Files : DeleteOrphans(g)) \/ UNCHANGED vars
<1>1. ~(\E f \in Files : \E v : Edit(f, v)) /\ ~(\E c \in Configs : Switch(c))
      /\ ~(\E m \in Modes : Begin(m))
  BY DEF Edit, Switch, Begin
<1>2. ~(Scan \/ PrepareUpdate \/ PreWarm \/ ReplaceChunks \/ QueueChunks)
  BY ScanCases DEF Resumes, EndRun, PrepareUpdate, PreWarm, ReplaceChunks, QueueChunks
<1>3. ~(EmbedBatch \/ UploadBatch \/ UploadedEnough)
  BY DEF EmbedBatch, EmbedDue, UploadBatch, UploadedEnough, PoolInv, JobHeld
<1>4. ~(JobDone \/ SkipJob \/ FlushRest)
  BY DEF JobDone, SkipJob, FlushRest
<1>5. ~(Throw \/ Finish \/ Crash \/ StoreFails \/ Killed)
  BY DEF Throw, Finish, Crash, StoreFails, Killed, EndRun
<1>6. ~JobFails /\ ~(\E f \in Files : ForgetFile(f))
      /\ ~(\E w \in Workers : TakeTask(w) \/ ChunkFile(w) \/ ChunkerFails(w))
  BY DEF JobFails, ForgetFile, TakeTask, ChunkFile, ChunkerFails
<1> QED
  BY <1>1, <1>2, <1>3, <1>4, <1>5, <1>6 DEF Next, Running

\* The last flush finds every file chunked, and sends what is left.
LEMMA FlushBringsAll ==
  ASSUME OwnHashes, PoolInv, Types, Knowledge, OfVersions, OpenOrKept,
         StagedCovered, FlushUpload, Uploads,
         NEW f \in InTree, f \notin dropped, NEW c \in Range(ChunksOf[tree[f]])
  PROVE  rows'[c] # NoRow
<1>1. /\ phase = "flush" /\ step = "embed" /\ ~EmbedDue /\ cfg' = cfg /\ Midway
  BY DEF FlushUpload, env, Midway, Types, Quiet
<1>2. c \in Hashes
  BY TreeContents DEF Types
<1>3. ~Open(f)
  <2>1. todo = <<>> /\ chain = <<>> /\ \A w \in Workers : busy[w] = <<>>
    BY <1>1 DEF Types, Quiet
  <2> QED
    BY <2>1, EmptyRange DEF Open
<1>4. pendingEmbed = <<>>
  <2>1. Len(pendingEmbed) \in Nat
    BY DEF Types, RunTypes
  <2> QED
    BY <1>1, <2>1 DEF EmbedDue, EmbedLimit
<1>5. rows[c] # NoRow \/ \E k \in Range(pendingUpload) : k.id = c
  <2>1. rows[c] # NoRow \/ staged[c] # NoRow
    BY <1>1, <1>3 DEF OpenOrKept, Kept
  <2>2. staged[c] # NoRow => staged[c].src = f
    BY <1>2, Owner DEF Knowledge
  <2>3. staged[c] # NoRow => rows[c] # NoRow \/ \E k \in Queued : k.id = c
    BY <1>1, <1>2, <1>3, <2>2 DEF StagedCovered
  <2> QED
    BY <1>4, <2>1, <2>3, EmptyRange DEF Queued
<1>6. CASE pendingUpload = <<>>
  <2>1. stores' = stores
    BY <1>6 DEF FlushUpload
  <2> QED
    BY <1>1, <1>5, <1>6, <2>1, EmptyRange DEF rows
<1>7. CASE pendingUpload # <<>>
  <2> DEFINE n == Len(pendingUpload)
  <2>1. n \in 0..Len(pendingUpload) /\ UpsertBatch(n)
    BY <1>7 DEF FlushUpload, Types, RunTypes
  <2>2. pendingUpload' = <<>>
    <3>1. pendingUpload' = SubSeq(pendingUpload, n + 1, n)
      BY <2>1 DEF UpsertBatch
    <3>2. pendingUpload \in Seq(ToUpload)
      BY DEF Types, RunTypes
    <3> QED
      BY <3>1, <3>2
  <2> HIDE DEF n
  <2> QED
    BY <1>1, <1>2, <1>5, <2>1, <2>2, UploadMoves, EmptyRange
<1> QED
  BY <1>6, <1>7

\* After the last flush nothing is missing, and the removal of orphans takes
\* nothing that is needed.
LEMMA NextFlushed ==
  ASSUME OwnHashes, PoolInv, Types, Knowledge, [Next]_vars, OfVersions, OpenOrKept,
         StagedCovered, HashesWhole, FlushedAll
  PROVE  FlushedAll'
<1> SUFFICES ASSUME phase' = "cleanup", Uploads', NEW f \in InTree', f \notin dropped'
             PROVE  Found(f)'
  BY DEF FlushedAll
<1>1. CASE FlushUpload
  <2>1. /\ tree' = tree /\ f \in InTree /\ f \notin dropped /\ Uploads
    BY <1>1 DEF FlushUpload, env, history, InTree, Uploads
  <2> QED
    BY <1>1, <2>1, FlushBringsAll DEF Found
<1>2. ASSUME NEW g \in Files, DeleteOrphans(g) PROVE Found(f)'
  <2>1. /\ tree' = tree /\ f \in InTree /\ f \notin dropped /\ Uploads
        /\ phase = "cleanup"
    BY <1>2 DEF DeleteOrphans, env, history, InTree, Uploads
  <2>2. Found(f)
    BY <2>1 DEF FlushedAll
  <2> QED
    BY <1>2, <2>1, <2>2, OrphansOnly DEF Found, Knowledge
<1>3. CASE UNCHANGED vars
  <2>1. /\ UNCHANGED <<tree, dropped, phase, mode>> /\ rows' = rows
    BY <1>3 DEF vars, env, history, rows
  <2> QED
    BY <2>1 DEF FlushedAll, Found, InTree, Uploads
<1> QED
  BY <1>1, <1>2, <1>3, CleanupSteps

\* The steps after which a run has returned without an error.
LEMMA OkSteps ==
  ASSUME PoolInv, Types, [Next]_vars, outcome' = "ok"
  PROVE  \/ Finish \/ UNCHANGED vars
         \/ Scan /\ \E storeState \in StoreStates : NothingToDo(storeState)
<1>1. ~(\E f \in Files : \E v : Edit(f, v)) /\ ~(\E c \in Configs : Switch(c))
      /\ ~(\E m \in Modes : Begin(m))
  BY DEF Edit, Switch, Begin
<1>2. ~(Throw \/ Crash \/ StoreFails \/ Killed)
  BY DEF Throw, Crash, StoreFails, Killed, EndRun
<1>3. phase # "idle" => outcome = "none"
  BY DEF Types, Quiet
<1>4. Scan => \E storeState \in StoreStates : NothingToDo(storeState)
  BY <1>3, ScanCases DEF Resumes, EndRun
<1>5. ~(PrepareUpdate \/ PreWarm \/ ReplaceChunks \/ QueueChunks)
  BY <1>3 DEF PrepareUpdate, PreWarm, ReplaceChunks, QueueChunks, history
<1>6. ~(EmbedBatch \/ UploadBatch \/ UploadedEnough)
  BY <1>3 DEF EmbedBatch, EmbedDue, UploadBatch, UploadedEnough, PoolInv, JobHeld, history
<1>7. ~(JobDone \/ SkipJob \/ FlushRest \/ FlushUpload)
  BY <1>3 DEF JobDone, SkipJob, FlushRest, StreamOver, FlushUpload, history
<1>8. ~JobFails /\ ~(\E f \in Files : ForgetFile(f) \/ DeleteOrphans(f))
      /\ ~(\E w \in Workers : TakeTask(w) \/ ChunkFile(w) \/ ChunkerFails(w))
  BY <1>3 DEF JobFails, ForgetFile, DeleteOrphans, TakeTask, ChunkFile, ChunkerFails, history
<1> QED
  BY <1>1, <1>2, <1>4, <1>5, <1>6, <1>7, <1>8 DEF Next, Running

\* A run that finds nothing to do finds every file in the store.
LEMMA NothingMissingYet ==
  ASSUME Types, Knowledge, KnownKept,
         NEW storeState \in StoreStates, NothingToDo(storeState),
         NEW f \in InTree, f \notin dropped
  PROVE  Found(f)
<1> DEFINE previous == PreviousState(storeState)
           skip     == Range(Changed(previous)) \cup Gone(previous)
<1>1. /\ skip = {} /\ f \notin Range(Changed(previous)) /\ f \notin Gone(previous)
      /\ Resumed(skip, {NoVector}) = <<>> /\ Resumed(skip, ModelNames) = <<>>
  BY DEF NothingToDo
<1>2. Trace(f, tree[f])
  BY <1>1, PassedOver DEF Knowledge, InTree
<1> HIDE DEF previous, skip
<1>3. ASSUME NEW c \in Hashes, staged[c] # NoRow PROVE FALSE
  <2>1. staged[c].vec \in ModelNames \cup {NoVector}
    BY <1>3, RowTypes DEF Types, StagedRows
  <2>2. staged[c].src \notin skip
    BY <1>1
  <2>3. ASSUME NEW vecs, staged[c].vec \in vecs
        PROVE  Resumed(skip, vecs) # <<>>
    <3>1. \E k \in Range(Resumed(skip, vecs)) : k.id = c
      BY <1>3, <2>2, <2>3, ResumedEvery DEF Types
    <3> QED
      BY <3>1, EmptyRange
  <2> QED
    BY <1>1, <2>1, <2>3
<1>4. Range(ChunksOf[tree[f]]) \subseteq Hashes
  BY TreeContents DEF Types
<1> QED
  BY <1>2, <1>3, <1>4 DEF KnownKept, Kept, Found

\* A run that returns without an error leaves nothing out.
LEMMA NextFound ==
  ASSUME PoolInv, Types, Knowledge, [Next]_vars, KnownKept, FlushedAll, FoundAll
  PROVE  FoundAll'
<1> SUFFICES ASSUME outcome' = "ok", Uploads', NEW f \in InTree', f \notin dropped'
             PROVE  Found(f)'
  BY DEF FoundAll
<1>1. CASE Finish
  <2>1. /\ UNCHANGED <<tree, dropped, mode>> /\ rows' = rows /\ phase = "cleanup"
    BY <1>1 DEF Finish, EndRun, env, rows
  <2> QED
    BY <2>1 DEF FlushedAll, Found, InTree, Uploads
<1>2. CASE UNCHANGED vars
  <2>1. /\ UNCHANGED <<tree, dropped, outcome, mode>> /\ rows' = rows
    BY <1>2 DEF vars, env, history, rows
  <2> QED
    BY <2>1 DEF FoundAll, Found, InTree, Uploads
<1>3. ASSUME Scan, NEW storeState \in StoreStates, NothingToDo(storeState)
      PROVE  Found(f)'
  <2>1. /\ UNCHANGED <<tree, dropped>> /\ rows' = rows
    BY <1>3, ScanCases DEF Resumes, EndRun, env, rows
  <2>2. Found(f)
    BY <1>3, <2>1, NothingMissingYet DEF InTree
  <2> QED
    BY <2>1, <2>2 DEF Found
<1> QED
  BY <1>1, <1>2, <1>3, OkSteps

\* The removal of orphans goes by all the chunks of a file that is whole.
LEMMA NextWhole ==
  ASSUME StoreTells, PoolInv, Types, Types', Knowledge, [Next]_vars, HashesWhole
  PROVE  HashesWhole'
<1> SUFFICES ASSUME ~failed', NEW f \in DOMAIN newHashes'
             PROVE  \/ newHashes'[f] = Range(ChunksOf[tree'[f]])
                    \/ f \in dropped'
                    \/ phase' = "stream" /\ step' = "replaced" /\ f = Head(chain').file
  BY DEF HashesWhole
<1>1. phase' \in {"stream", "flush", "cleanup"}
  BY DEF Types, Quiet
<1>2. CASE ReplaceChunks
  <2>1. /\ UNCHANGED <<tree, newHashes, chain, failed>> /\ step = "idle"
        /\ phase' = "stream" /\ step' = "replaced"
    BY <1>2 DEF ReplaceChunks, env, pool
  <2>2. f # Head(chain).file => (f \in dropped' <=> f \in dropped)
    BY <1>2 DEF ReplaceChunks
  <2> QED
    BY <2>1, <2>2 DEF HashesWhole
<1>3. CASE QueueChunks
  <2> DEFINE g == Head(chain).file
  <2>1. /\ UNCHANGED <<tree, failed, dropped>>
        /\ phase = "stream" /\ step = "replaced"
        /\ newHashes' = [h \in DOMAIN newHashes \cup {g} |->
                           IF h = g THEN Range(Head(chain).chunks) ELSE newHashes[h]]
    BY <1>3 DEF QueueChunks, env, history, StoreTells
  <2>2. Range(Head(chain).chunks) = Range(ChunksOf[tree[g]]) \/ g \in dropped
    BY <2>1 DEF Knowledge, Replacing
  <2>3. CASE f = g
    <3>1. newHashes'[f] = Range(Head(chain).chunks)
      BY <2>1, <2>3
    <3> QED
      BY <2>1, <2>2, <2>3, <3>1
  <2>4. CASE f # g
    <3>1. f \in DOMAIN newHashes /\ newHashes'[f] = newHashes[f]
      BY <2>1, <2>4
    <3> QED
      BY <2>1, <2>4, <3>1 DEF HashesWhole
  <2> QED
    BY <2>3, <2>4
<1>4. ASSUME UNCHANGED <<tree, newHashes, dropped, failed>>,
             phase = "stream" /\ step = "replaced" =>
               /\ phase' = "stream" /\ step' = "replaced"
               /\ Head(chain') = Head(chain)
      PROVE  \/ newHashes'[f] = Range(ChunksOf[tree'[f]])
             \/ f \in dropped'
             \/ phase' = "stream" /\ step' = "replaced" /\ f = Head(chain').file
  BY <1>4 DEF HashesWhole
<1>5. CASE \E w \in Workers : TakeTask(w) \/ ChunkFile(w) \/ ChunkerFails(w)
  <2>1. UNCHANGED <<tree, newHashes, dropped, failed, phase, step>>
    BY <1>5 DEF TakeTask, ChunkFile, ChunkerFails, env, history
  <2>2. phase = "stream" /\ step = "replaced" => Head(chain') = Head(chain)
    BY <1>5, <2>1, StagingSteps DEF Settling
  <2> QED
    BY <1>4, <2>1, <2>2
<1>6. CASE \/ PrepareUpdate \/ PreWarm \/ (\E g \in Files : ForgetFile(g))
           \/ EmbedBatch \/ UploadBatch \/ UploadedEnough
  <2>1. /\ UNCHANGED <<tree, newHashes, dropped, failed>>
        /\ ~(phase = "stream" /\ step = "replaced")
    BY <1>6 DEF PrepareUpdate, PreWarm, ForgetFile, EmbedBatch, EmbedDue,
                UploadBatch, UploadedEnough, env, history
  <2> QED
    BY <1>4, <2>1
<1>7. CASE JobDone \/ SkipJob \/ FlushRest \/ FlushUpload
  <2>1. /\ UNCHANGED <<tree, newHashes, dropped, failed>>
        /\ ~(phase = "stream" /\ step = "replaced")
    BY <1>7 DEF JobDone, SkipJob, FlushRest, StreamOver, FlushUpload, env, history
  <2> QED
    BY <1>4, <2>1
<1>8. CASE UNCHANGED vars
  <2>1. UNCHANGED <<tree, newHashes, dropped, failed, phase, step, chain>>
    BY <1>8 DEF vars, env, history, pool
  <2> QED
    BY <1>4, <2>1
<1>9. CASE \E g \in Files : DeleteOrphans(g)
  <2>1. /\ UNCHANGED <<tree, dropped, failed>> /\ phase = "cleanup"
        /\ f \in DOMAIN newHashes /\ newHashes'[f] = newHashes[f]
    BY <1>9 DEF DeleteOrphans, env, history
  <2> QED
    BY <2>1 DEF HashesWhole
<1>10. ~(Throw \/ Finish \/ Crash \/ StoreFails \/ Killed) /\ ~JobFails
  BY <1>1 DEF Throw, Finish, Crash, StoreFails, Killed, EndRun, JobFails
<1>11. ~Scan /\ ~(\E m \in Modes : Begin(m))
  BY <1>1, ScanCases DEF Resumes, EndRun, Begin
<1>12. ~(\E g \in Files : \E v : Edit(g, v)) /\ ~(\E c \in Configs : Switch(c))
  BY <1>1 DEF Edit, Switch
<1> QED
  BY <1>2, <1>3, <1>5, <1>6, <1>7, <1>8, <1>9, <1>10, <1>11, <1>12 DEF Next, Running

\* Every step under the first configuration keeps all of it, also one that fails.
LEMMA NextCovered ==
  ASSUME NothingReturns, OwnHashes, StoreTells, Unforced, PoolInv, Types, Types',
         Knowledge, Covered, [Next]_vars, switches \in Nat, switches' = switches
  PROVE  Covered'
<1> USE DEF Covered
<1>1. OfVersions'
  BY NextVersions
<1>2. KnownKept' /\ OpenOrKept' /\ StagedCovered'
  BY NextKept, NextOpenOrKept, NextStagedCovered
<1>3. FlushedAll' /\ FoundAll' /\ HashesWhole'
  BY NextFlushed, NextFound, NextWhole
<1> QED
  BY <1>1, <1>2, <1>3

\* It holds at the start.
LEMMA InitCovered ==
  ASSUME Init
  PROVE  Covered
<1>1. /\ staged = EmptyTable /\ revs = NoRevs
      /\ stores = [s \in StoreNames |-> EmptyTable]
      /\ phase = "idle" /\ Queued = {} /\ outcome = "none"
      /\ DOMAIN newHashes = {} /\ tree \in StartTrees
  BY EmptyRange DEF Init, Queued
<1>2. Types
  BY InitTypes
<1>3. /\ \A c \in Hashes : staged[c] = NoRow /\ rows[c] = NoRow
      /\ \A f \in Files : revs[f] = NoRev
  BY <1>1, <1>2, RowTypes DEF rows, EmptyTable, NoRevs, Types
<1>4. \A f \in Files, v \in Contents : ~Trace(f, v)
  BY <1>1, <1>3, ValuesAssumption DEF Trace
<1>5. \A f \in InTree : f \in Files /\ tree[f] \in Contents
  BY <1>2, TreeContents DEF Types, InTree
<1>6. OfVersions /\ KnownKept
  BY <1>1, <1>4, <1>5, ChoicesAssumption DEF OfVersions, KnownKept
<1>7. OpenOrKept /\ StagedCovered /\ FlushedAll /\ FoundAll /\ HashesWhole
  BY <1>1 DEF OpenOrKept, StagedCovered, FlushedAll, FoundAll, HashesWhole, Midway
<1> QED
  BY <1>6, <1>7 DEF Covered

\* The invariant of Searchable.
CoveredInv ==
  /\ PoolInv /\ Types /\ Knowledge /\ Covered
  /\ switches = 0

\* Whatever fails, and however often the process is killed between two writes or
\* in the middle of one, a run that uploads and returns without an error leaves
\* every chunk of every file in the store, but for the files whose chunker failed
\* (orchestrator.ts:151-628, the staging tables of virage-db.ts). The hypotheses
\* are needed: see the README for what happens without each of them.
THEOREM NothingMissing ==
  ASSUME NothingReturns, Unforced, OwnHashes, StoreTells, MaxSwitches = 0
  PROVE  Spec => []Searchable
<1>1. Init => CoveredInv
  BY InitFresh, InitCovered DEF CoveredInv
<1>2. ASSUME CoveredInv, [Next]_vars PROVE CoveredInv'
  <2> USE DEF CoveredInv
  <2>1. PoolInv' /\ Types'
    BY <1>2, NextPool, NextTypes
  <2>2. switches' = switches
    <3>1. ~(\E c \in Configs : Switch(c))
      BY <1>2 DEF Switch
    <3>2. CASE UNCHANGED counters
      BY <3>2 DEF counters
    <3>3. CASE \/ \E w \in Workers : ChunkerFails(w)
               \/ JobFails \/ Crash \/ StoreFails \/ Killed
               \/ \E f \in Files : \E v : Edit(f, v)
      BY <3>3 DEF ChunkerFails, JobFails, Crash, StoreFails, Killed, Edit
    <3>4. (\E m \in Modes : Begin(m)) \/ UNCHANGED vars => UNCHANGED counters
      BY DEF Begin, vars
    <3>5. Running => UNCHANGED counters
      BY RunningCounts
    <3> QED
      BY <1>2, <3>1, <3>2, <3>3, <3>4, <3>5 DEF Next
  <2>3. Knowledge'
    BY <1>2, <2>2, NextKnows
  <2>4. Covered'
    BY <1>2, <2>1, <2>2, NextCovered
  <2> QED
    BY <1>2, <2>1, <2>2, <2>3, <2>4
<1>3. CoveredInv => Searchable
  <2> SUFFICES ASSUME CoveredInv, outcome = "ok", Uploads, NEW f \in Files \ dropped,
                      tree[f] # Absent, NEW c \in Range(ChunksOf[tree[f]])
               PROVE  rows[c] # NoRow /\ rows[c].src = f
    BY DEF Searchable
  <2>1. f \in InTree /\ c \in Hashes
    BY TreeContents DEF InTree, CoveredInv, Types
  <2>2. rows[c] # NoRow
    BY <2>1 DEF CoveredInv, Covered, FoundAll, Found
  <2> QED
    BY <2>1, <2>2, Owner DEF CoveredInv, Covered, Knowledge
<1> QED
  BY <1>1, <1>2, <1>3, PTL DEF Spec

=============================================================================
