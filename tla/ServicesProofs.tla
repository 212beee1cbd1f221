--------------------------- MODULE ServicesProofs ----------------------------
(***************************************************************************)
(* Proofs about the long-running processes: every search that waits for    *)
(* the query daemon is owed an answer and the daemon implements            *)
(* SearchService, for any set of calls and any bounds; an operation        *)
(* started from a page of the dashboard is never lost or sent twice, for   *)
(* any number of pages, sockets and operations.                            *)
(***************************************************************************)
EXTENDS QueryDaemon, DashboardSocket, SequenceTheorems, FiniteSetTheorems, TLAPS

-----------------------------------------------------------------------------
(* The query daemon.                                                       *)

(* No call is in the queue twice.                                          *)
Distinct(s) == \A i, j \in 1..Len(s) : s[i] = s[j] => i = j

(* The calls that wait are those in the queue of the handle.               *)
WaitingQueued ==
  \A r \in Calls :
    (call[r] = "daemon") <=> \E i \in 1..Len(queue) : queue[i] = r

(* The answers to come, when b is still to be read and a still to be       *)
(* delivered.                                                              *)
Out(a, b) == [i \in 1..Len(a) |-> a[i].req] \o b

(* f places the queue s in the answers to come, t, in order. That f leaves *)
(* at least as much room between two requests as the queue does follows    *)
(* from the order; stated here, it needs no induction.                     *)
Places(f, s, t) ==
  /\ \A i \in 1..Len(s) : s[i] = t[f[i]]
  /\ \A i, j \in 1..Len(s) : i < j => f[j] - f[i] >= j - i

Placed(s, t) == \E f \in [1..Len(s) -> 1..Len(t)] : Places(f, s, t)

DaemonInv ==
  /\ DaemonTypeOK
  /\ Distinct(queue)
  /\ WaitingQueued
  /\ dead => queue = <<>>
  /\ ~dead => Placed(queue, Outstanding)

-----------------------------------------------------------------------------
(* The answers to come: those written, then those to requests not read.    *)
LEMMA OutIs ==
  ASSUME NEW a \in Seq(Lines), NEW b \in Seq(Calls)
  PROVE  /\ Out(a, b) \in Seq(Calls)
         /\ Len(Out(a, b)) = Len(a) + Len(b)
         /\ \A i \in 1..Len(a) + Len(b) :
              Out(a, b)[i] = IF i <= Len(a) THEN a[i].req
                               ELSE b[i - Len(a)]
<1> DEFINE s == [i \in 1..Len(a) |-> a[i].req]
<1>1. \A i \in 1..Len(a) : a[i].req \in Calls
  <2> SUFFICES ASSUME NEW i \in 1..Len(a) PROVE a[i].req \in Calls
    OBVIOUS
  <2>1. a[i] \in Lines
    BY ElementOfSeq
  <2> QED
    BY <2>1 DEF Lines
<1>2. s \in Seq(Calls) /\ Len(s) = Len(a)
  BY <1>1
<1> HIDE DEF s
<1>3. /\ s \o b \in Seq(Calls)
      /\ Len(s \o b) = Len(s) + Len(b)
      /\ \A i \in 1..Len(s) + Len(b) :
           (s \o b)[i] = IF i <= Len(s) THEN s[i] ELSE b[i - Len(s)]
  BY <1>2, ConcatProperties
<1>4. \A i \in 1..Len(a) : s[i] = a[i].req
  BY DEF s
<1>5. Out(a, b) = s \o b
  BY DEF Out, s
<1> QED
  BY <1>2, <1>3, <1>4, <1>5

(* RemoveFirst on a queue that holds the request once.                     *)
LEMMA RemoveFirstIs ==
  ASSUME NEW s \in Seq(Calls), NEW k \in 1..Len(s), Distinct(s)
  PROVE  /\ RemoveFirst(s, s[k]) \in Seq(Calls)
         /\ Len(RemoveFirst(s, s[k])) = Len(s) - 1
         /\ \A i \in 1..(Len(s) - 1) :
              RemoveFirst(s, s[k])[i] = IF i < k THEN s[i] ELSE s[i + 1]
<1>1. SelectInSeq(s, LAMBDA v : v = s[k]) = k
  <2> DEFINE I == {i \in 1..Len(s) : s[i] = s[k]}
  <2>1. I = {k}
    BY DEF Distinct
  <2>2. Min({k}) = k
    BY DEF Min
  <2>3. SelectInSeq(s, LAMBDA v : v = s[k]) = IF I # {} THEN Min(I) ELSE 0
    BY DEF SelectInSeq
  <2> QED
    BY <2>1, <2>2, <2>3
<1>2. RemoveFirst(s, s[k]) = SubSeq(s, 1, k - 1) \o SubSeq(s, k + 1, Len(s))
  BY <1>1 DEF RemoveFirst, RemoveAt
<1>3. /\ SubSeq(s, 1, k - 1) \in Seq(Calls)
      /\ Len(SubSeq(s, 1, k - 1)) = k - 1
      /\ \A i \in 1..(k - 1) : SubSeq(s, 1, k - 1)[i] = s[i]
  BY SubSeqProperties, ElementOfSeq
<1>4. /\ SubSeq(s, k + 1, Len(s)) \in Seq(Calls)
      /\ Len(SubSeq(s, k + 1, Len(s))) = Len(s) - k
      /\ \A i \in 1..(Len(s) - k) : SubSeq(s, k + 1, Len(s))[i] = s[k + i]
  BY SubSeqProperties, ElementOfSeq
<1> DEFINE a == SubSeq(s, 1, k - 1)
           b == SubSeq(s, k + 1, Len(s))
<1> HIDE DEF a, b
<1>5. /\ a \o b \in Seq(Calls)
      /\ Len(a \o b) = Len(a) + Len(b)
      /\ \A i \in 1..(Len(a) + Len(b)) :
           (a \o b)[i] = IF i <= Len(a) THEN a[i] ELSE b[i - Len(a)]
  BY <1>3, <1>4, ConcatProperties DEF a, b
<1>6. /\ Len(a) = k - 1 /\ \A i \in 1..(k - 1) : a[i] = s[i]
      /\ Len(b) = Len(s) - k /\ \A i \in 1..(Len(s) - k) : b[i] = s[k + i]
      /\ Len(s) \in Nat
  BY <1>3, <1>4 DEF a, b
<1>7. ASSUME NEW i \in 1..(Len(s) - 1)
      PROVE  (a \o b)[i] = IF i < k THEN s[i] ELSE s[i + 1]
  <2>1. CASE i < k
    BY <2>1, <1>5, <1>6
  <2>2. CASE ~(i < k)
    <3>1. (a \o b)[i] = b[i - (k - 1)]
      BY <2>2, <1>5, <1>6
    <3>2. b[i - (k - 1)] = s[k + (i - (k - 1))]
      BY <2>2, <1>6
    <3>3. k + (i - (k - 1)) = i + 1
      OBVIOUS
    <3> QED
      BY <2>2, <3>1, <3>2, <3>3
  <2> QED
    BY <2>1, <2>2
<1>8. RemoveFirst(s, s[k]) = a \o b
  BY <1>2 DEF a, b
<1>9. Len(a \o b) = Len(s) - 1
  BY <1>5, <1>6
<1> QED
  BY <1>5, <1>7, <1>8, <1>9

(* The answers to come when a request is written, when an answer is        *)
(* delivered and when the process answers a request.                       *)
LEMMA OutAppend ==
  ASSUME NEW a \in Seq(Lines), NEW b \in Seq(Calls), NEW r \in Calls
  PROVE  Out(a, Append(b, r)) = Append(Out(a, b), r)
<1>1. Append(b, r) \in Seq(Calls) /\ Len(Append(b, r)) = Len(b) + 1
  OBVIOUS
<1>2. /\ Append(Out(a, b), r) \in Seq(Calls)
      /\ Len(Append(Out(a, b), r)) = Len(a) + Len(b) + 1
      /\ Len(a) \in Nat /\ Len(b) \in Nat
  <2> DEFINE o == Out(a, b)
  <2>1. o \in Seq(Calls) /\ Len(o) = Len(a) + Len(b)
    BY OutIs
  <2> HIDE DEF o
  <2>2. Append(o, r) \in Seq(Calls) /\ Len(Append(o, r)) = Len(o) + 1
    BY <2>1
  <2> QED
    BY <2>1, <2>2 DEF o
<1>3. /\ Out(a, Append(b, r)) \in Seq(Calls)
      /\ Len(Out(a, Append(b, r))) = Len(a) + Len(b) + 1
  <2> DEFINE c == Append(b, r)
  <2>1. c \in Seq(Calls) /\ Len(c) = Len(b) + 1
    BY <1>1
  <2> HIDE DEF c
  <2>2. Out(a, c) \in Seq(Calls) /\ Len(Out(a, c)) = Len(a) + Len(c)
    BY <2>1, OutIs
  <2> QED
    BY <2>1, <2>2, <1>2 DEF c
<1>4. ASSUME NEW i \in 1..Len(Out(a, Append(b, r)))
      PROVE  Out(a, Append(b, r))[i] = Append(Out(a, b), r)[i]
  <2>1. Out(a, Append(b, r))[i] = IF i <= Len(a) THEN a[i].req
                                  ELSE Append(b, r)[i - Len(a)]
    BY <1>1, <1>2, <1>3, OutIs
  <2>2. CASE i <= Len(a) + Len(b)
    <3>1. Append(Out(a, b), r)[i] = Out(a, b)[i]
      BY <2>2, <1>2, <1>3, OutIs
    <3>2. Out(a, b)[i] = IF i <= Len(a) THEN a[i].req ELSE b[i - Len(a)]
      BY <2>2, <1>2, <1>3, OutIs
    <3>3. ~(i <= Len(a)) => Append(b, r)[i - Len(a)] = b[i - Len(a)]
      BY <2>2, <1>2, <1>3
    <3> QED
      BY <2>1, <3>1, <3>2, <3>3
  <2>3. CASE ~(i <= Len(a) + Len(b))
    <3>1. i = Len(a) + Len(b) + 1
      BY <2>3, <1>2, <1>3
    <3>2. Append(b, r)[i - Len(a)] = r
      BY <3>1, <1>2
    <3>3. Append(Out(a, b), r)[i] = r
      BY <3>1, OutIs
    <3> QED
      BY <2>1, <3>1, <3>2, <3>3, <1>2
  <2> QED
    BY <2>2, <2>3
<1> QED
  BY <1>2, <1>3, <1>4, SeqEqual

\* Delivering the oldest answer removes the first of those to come.
LEMMA OutTail ==
  ASSUME NEW a \in Seq(Lines), NEW b \in Seq(Calls), a # <<>>
  PROVE  /\ Out(Tail(a), b) = Tail(Out(a, b))
         /\ Out(a, b) # <<>>
         /\ Out(a, b)[1] = Head(a).req
<1>1. /\ Tail(a) \in Seq(Lines) /\ Len(Tail(a)) = Len(a) - 1
      /\ \A i \in 1..(Len(a) - 1) : Tail(a)[i] = a[i + 1]
      /\ Len(a) \in Nat \ {0} /\ Len(b) \in Nat /\ Head(a) = a[1]
  BY HeadTailProperties, EmptySeq
<1>2. /\ Out(a, b) \in Seq(Calls) /\ Len(Out(a, b)) = Len(a) + Len(b)
      /\ \A i \in 1..(Len(a) + Len(b)) :
           Out(a, b)[i] = IF i <= Len(a) THEN a[i].req ELSE b[i - Len(a)]
  BY OutIs
<1>3. Out(a, b) # <<>> /\ Out(a, b)[1] = Head(a).req
  <2>1. Len(Out(a, b)) # 0
    BY <1>1, <1>2
  <2> QED
    BY <1>1, <1>2, <2>1
<1>4. /\ Tail(Out(a, b)) \in Seq(Calls)
      /\ Len(Tail(Out(a, b))) = Len(a) + Len(b) - 1
      /\ \A i \in 1..(Len(a) + Len(b) - 1) :
           Tail(Out(a, b))[i] = Out(a, b)[i + 1]
  BY <1>2, <1>3, HeadTailProperties
<1>5. /\ Out(Tail(a), b) \in Seq(Calls)
      /\ Len(Out(Tail(a), b)) = Len(a) + Len(b) - 1
      /\ \A i \in 1..(Len(a) - 1 + Len(b)) :
           Out(Tail(a), b)[i] = IF i <= Len(a) - 1 THEN Tail(a)[i].req
                                ELSE b[i - (Len(a) - 1)]
  <2> DEFINE c == Tail(a)
  <2>1. c \in Seq(Lines) /\ Len(c) = Len(a) - 1
    BY <1>1
  <2> HIDE DEF c
  <2>2. /\ Out(c, b) \in Seq(Calls) /\ Len(Out(c, b)) = Len(c) + Len(b)
        /\ \A i \in 1..(Len(c) + Len(b)) :
             Out(c, b)[i] = IF i <= Len(c) THEN c[i].req ELSE b[i - Len(c)]
    BY <2>1, OutIs
  <2> QED
    BY <2>1, <2>2, <1>1 DEF c
<1>6. ASSUME NEW i \in 1..(Len(a) + Len(b) - 1)
      PROVE  Out(Tail(a), b)[i] = Tail(Out(a, b))[i]
  <2>1. Tail(Out(a, b))[i] = IF i + 1 <= Len(a) THEN a[i + 1].req
                             ELSE b[i + 1 - Len(a)]
    BY <1>1, <1>2, <1>4
  <2>2. i - (Len(a) - 1) = i + 1 - Len(a) /\ (i <= Len(a) - 1 <=> i + 1 <= Len(a))
    BY <1>1
  <2>3. i <= Len(a) - 1 => Tail(a)[i] = a[i + 1]
    BY <1>1
  <2>4. Out(Tail(a), b)[i] = IF i <= Len(a) - 1 THEN Tail(a)[i].req
                             ELSE b[i - (Len(a) - 1)]
    BY <1>1, <1>5
  <2>5. CASE i <= Len(a) - 1
    BY <2>1, <2>2, <2>3, <2>4, <2>5
  <2>6. CASE ~(i <= Len(a) - 1)
    BY <2>1, <2>2, <2>4, <2>6
  <2> QED
    BY <2>5, <2>6
<1> QED
  BY <1>3, <1>4, <1>5, <1>6, SeqEqual

\* Answering a request leaves the answers to come as they are.
LEMMA OutServe ==
  ASSUME NEW a \in Seq(Lines), NEW b \in Seq(Calls), b # <<>>,
         NEW l \in Lines, l.req = Head(b)
  PROVE  Out(Append(a, l), Tail(b)) = Out(a, b)
<1>1. /\ Tail(b) \in Seq(Calls) /\ Len(Tail(b)) = Len(b) - 1
      /\ \A i \in 1..(Len(b) - 1) : Tail(b)[i] = b[i + 1]
      /\ Len(b) \in Nat \ {0} /\ Len(a) \in Nat /\ Head(b) = b[1]
  BY HeadTailProperties, EmptySeq
<1>2. /\ Append(a, l) \in Seq(Lines) /\ Len(Append(a, l)) = Len(a) + 1
      /\ \A i \in 1..Len(a) : Append(a, l)[i] = a[i]
      /\ Append(a, l)[Len(a) + 1] = l
  OBVIOUS
<1>3. /\ Out(a, b) \in Seq(Calls) /\ Len(Out(a, b)) = Len(a) + Len(b)
      /\ \A i \in 1..(Len(a) + Len(b)) :
           Out(a, b)[i] = IF i <= Len(a) THEN a[i].req ELSE b[i - Len(a)]
  BY OutIs
<1>4. /\ Out(Append(a, l), Tail(b)) \in Seq(Calls)
      /\ Len(Out(Append(a, l), Tail(b))) = Len(a) + Len(b)
      /\ \A i \in 1..(Len(a) + 1 + (Len(b) - 1)) :
           Out(Append(a, l), Tail(b))[i] =
             IF i <= Len(a) + 1 THEN Append(a, l)[i].req
             ELSE Tail(b)[i - (Len(a) + 1)]
  <2> DEFINE c == Append(a, l)
             d == Tail(b)
  <2>1. /\ c \in Seq(Lines) /\ Len(c) = Len(a) + 1
        /\ d \in Seq(Calls) /\ Len(d) = Len(b) - 1
    BY <1>1, <1>2
  <2> HIDE DEF c, d
  <2>2. /\ Out(c, d) \in Seq(Calls) /\ Len(Out(c, d)) = Len(c) + Len(d)
        /\ \A i \in 1..(Len(c) + Len(d)) :
             Out(c, d)[i] = IF i <= Len(c) THEN c[i].req ELSE d[i - Len(c)]
    BY <2>1, OutIs
  <2> QED
    BY <2>1, <2>2, <1>1 DEF c, d
<1>5. ASSUME NEW i \in 1..(Len(a) + Len(b))
      PROVE  Out(Append(a, l), Tail(b))[i] = Out(a, b)[i]
  <2>0. i \in 1..(Len(a) + 1 + (Len(b) - 1))
    BY <1>1
  <2>1. CASE i <= Len(a)
    <3>1. i \in 1..Len(a) /\ i <= Len(a) + 1
      BY <2>1, <1>1
    <3>2. Out(a, b)[i] = a[i].req
      BY <2>1, <1>3
    <3>3. Out(Append(a, l), Tail(b))[i] = Append(a, l)[i].req
      BY <2>0, <3>1, <1>4
    <3>4. Append(a, l)[i] = a[i]
      BY <3>1, <1>2
    <3> QED
      BY <3>2, <3>3, <3>4
  <2>2. CASE i = Len(a) + 1
    <3>1. Out(Append(a, l), Tail(b))[i] = Append(a, l)[i].req
      BY <2>0, <2>2, <1>1, <1>4
    <3>2. Append(a, l)[i].req = b[1]
      BY <2>2, <1>1, <1>2
    <3>3. Out(a, b)[i] = b[i - Len(a)] /\ i - Len(a) = 1
      BY <2>2, <1>1, <1>3
    <3> QED
      BY <3>1, <3>2, <3>3
  <2>3. CASE ~(i <= Len(a) + 1)
    <3>1. Out(Append(a, l), Tail(b))[i] = Tail(b)[i - (Len(a) + 1)]
      BY <2>0, <2>3, <1>4
    <3>2. Tail(b)[i - (Len(a) + 1)] = b[i - (Len(a) + 1) + 1]
      BY <2>3, <1>1
    <3>3. i - (Len(a) + 1) + 1 = i - Len(a)
      BY <1>1
    <3>4. Out(a, b)[i] = b[i - Len(a)]
      BY <2>3, <1>1, <1>3
    <3> QED
      BY <3>1, <3>2, <3>3, <3>4
  <2> QED
    BY <2>1, <2>2, <2>3, <1>1
<1> QED
  BY <1>3, <1>4, <1>5, SeqEqual

-----------------------------------------------------------------------------
(* What Placed says of the lengths and of the first answer.                *)
LEMMA PlacedFirst ==
  ASSUME NEW s \in Seq(Calls), NEW t \in Seq(Calls), Placed(s, t)
  PROVE  /\ Len(s) <= Len(t)
         /\ s # <<>> /\ Len(s) = Len(t) => s[1] = t[1]
<1>1. PICK f \in [1..Len(s) -> 1..Len(t)] : Places(f, s, t)
  BY DEF Placed
<1>2. Len(s) \in Nat /\ Len(t) \in Nat
  OBVIOUS
<1>3. CASE Len(s) = 0
  BY <1>2, <1>3
<1>4. CASE Len(s) > 0
  <2>1. 1 \in 1..Len(s) /\ Len(s) \in 1..Len(s)
    BY <1>2, <1>4
  <2>2. f[1] \in 1..Len(t) /\ f[Len(s)] \in 1..Len(t) /\ s[1] = t[f[1]]
    BY <1>1, <2>1 DEF Places
  <2>3. f[Len(s)] - f[1] >= Len(s) - 1
    BY <1>1, <1>2, <1>4, <2>1, <2>2 DEF Places
  <2>4. ASSUME NEW x \in 1..Len(t), NEW y \in 1..Len(t), y - x >= Len(s) - 1
        PROVE  Len(s) <= Len(t) /\ (Len(s) = Len(t) => x = 1)
    BY <1>2, <2>4
  <2>5. Len(s) <= Len(t) /\ (Len(s) = Len(t) => f[1] = 1)
    BY <2>2, <2>3, <2>4
  <2> QED
    BY <2>2, <2>5
<1> QED
  BY <1>2, <1>3, <1>4

\* An empty queue is placed anywhere.
LEMMA PlacedEmpty ==
  ASSUME NEW t \in Seq(Calls)
  PROVE  Placed(<<>>, t)
<1> DEFINE f == [i \in 1..0 |-> 1]
<1>1. Len(<<>>) = 0 /\ f \in [1..0 -> 1..Len(t)]
  OBVIOUS
<1>2. Places(f, <<>>, t)
  BY <1>1 DEF Places
<1> QED
  BY <1>1, <1>2 DEF Placed

\* A request joins the queue and the answers to come at once.
LEMMA PlacedAppend ==
  ASSUME NEW s \in Seq(Calls), NEW t \in Seq(Calls), NEW e \in Calls,
         Placed(s, t)
  PROVE  Placed(Append(s, e), Append(t, e))
<1> DEFINE m == Len(s)
           n == Len(t)
<1>1. PICK f \in [1..m -> 1..n] : Places(f, s, t)
  BY DEF Placed
<1>2. m \in Nat /\ n \in Nat
  OBVIOUS
<1>3. /\ Len(Append(s, e)) = m + 1 /\ Len(Append(t, e)) = n + 1
      /\ \A i \in 1..m : Append(s, e)[i] = s[i]
      /\ \A i \in 1..n : Append(t, e)[i] = t[i]
      /\ Append(s, e)[m + 1] = e /\ Append(t, e)[n + 1] = e
  OBVIOUS
<1>4. /\ \A i \in 1..m : s[i] = t[f[i]]
      /\ \A i, j \in 1..m : i < j => f[j] - f[i] >= j - i
  BY <1>1 DEF Places
<1> HIDE DEF m, n
<1> DEFINE g == [i \in 1..(m + 1) |-> IF i <= m THEN f[i] ELSE n + 1]
<1>5. g \in [1..(m + 1) -> 1..(n + 1)]
  BY <1>1, <1>2
<1>6. \A i \in 1..(m + 1) : Append(s, e)[i] = Append(t, e)[g[i]]
  <2> SUFFICES ASSUME NEW i \in 1..(m + 1)
               PROVE  Append(s, e)[i] = Append(t, e)[g[i]]
    OBVIOUS
  <2>1. CASE i <= m
    <3>1. i \in 1..m /\ g[i] = f[i] /\ f[i] \in 1..n
      BY <2>1, <1>1, <1>2
    <3> QED
      BY <3>1, <1>3, <1>4
  <2>2. CASE ~(i <= m)
    <3>1. i = m + 1 /\ g[i] = n + 1
      BY <2>2, <1>2
    <3> QED
      BY <3>1, <1>3
  <2> QED
    BY <2>1, <2>2
<1>7. ASSUME NEW i \in 1..(m + 1), NEW j \in 1..(m + 1), i < j
      PROVE  g[j] - g[i] >= j - i
  <2>1. i \in 1..m /\ g[i] = f[i] /\ f[i] \in 1..n
    BY <1>7, <1>1, <1>2
  <2>2. CASE j <= m
    BY <2>1, <2>2, <1>7, <1>1, <1>2, <1>4
  <2>3. CASE ~(j <= m)
    <3>1. j = m + 1 /\ g[j] = n + 1 /\ m \in 1..m /\ f[m] \in 1..n
      BY <2>1, <2>3, <1>1, <1>2
    <3>2. f[m] - f[i] >= m - i
      BY <2>1, <3>1, <1>2, <1>4
    <3> QED
      BY <3>1, <3>2, <2>1, <1>2
  <2> QED
    BY <2>2, <2>3
<1> HIDE DEF g
<1>8. Places(g, Append(s, e), Append(t, e))
  BY <1>3, <1>6, <1>7 DEF Places
<1> QED
  BY <1>3, <1>5, <1>8 DEF Placed

\* An answer is delivered to the head of the queue.
LEMMA PlacedTail ==
  ASSUME NEW s \in Seq(Calls), NEW t \in Seq(Calls), s # <<>>, t # <<>>,
         Placed(s, t)
  PROVE  Placed(Tail(s), Tail(t))
<1> DEFINE m == Len(s)
           n == Len(t)
<1>1. PICK f \in [1..m -> 1..n] : Places(f, s, t)
  BY DEF Placed
<1>2. m \in Nat \ {0} /\ n \in Nat \ {0}
  BY EmptySeq
<1>3. /\ Len(Tail(s)) = m - 1 /\ Len(Tail(t)) = n - 1
      /\ \A i \in 1..(m - 1) : Tail(s)[i] = s[i + 1]
      /\ \A i \in 1..(n - 1) : Tail(t)[i] = t[i + 1]
  BY HeadTailProperties
<1>4. /\ \A i \in 1..m : s[i] = t[f[i]]
      /\ \A i, j \in 1..m : i < j => f[j] - f[i] >= j - i
  BY <1>1 DEF Places
<1> HIDE DEF m, n
<1> DEFINE g == [i \in 1..(m - 1) |-> f[i + 1] - 1]
<1>5. ASSUME NEW i \in 1..(m - 1)
      PROVE  /\ i + 1 \in 1..m /\ f[i + 1] \in 2..n
             /\ g[i] = f[i + 1] - 1 /\ g[i] \in 1..(n - 1)
  <2>1. 1 \in 1..m /\ i + 1 \in 1..m /\ f[1] \in 1..n /\ f[i + 1] \in 1..n
    BY <1>1, <1>2
  <2>2. f[i + 1] - f[1] >= i
    BY <2>1, <1>2, <1>4
  <2> QED
    BY <2>1, <2>2, <1>2
<1>6. \A i \in 1..(m - 1) : Tail(s)[i] = Tail(t)[g[i]]
  <2> SUFFICES ASSUME NEW i \in 1..(m - 1)
               PROVE  Tail(s)[i] = Tail(t)[g[i]]
    OBVIOUS
  <2>1. Tail(s)[i] = t[f[i + 1]]
    BY <1>3, <1>4, <1>5
  <2>2. Tail(t)[g[i]] = t[g[i] + 1] /\ g[i] + 1 = f[i + 1]
    BY <1>2, <1>3, <1>5
  <2> QED
    BY <2>1, <2>2
<1>7. ASSUME NEW i \in 1..(m - 1), NEW j \in 1..(m - 1), i < j
      PROVE  g[j] - g[i] >= j - i
  <2>1. f[j + 1] - f[i + 1] >= (j + 1) - (i + 1)
    BY <1>7, <1>5, <1>4, <1>2
  <2>2. /\ g[i] = f[i + 1] - 1 /\ g[j] = f[j + 1] - 1
        /\ f[i + 1] \in Int /\ f[j + 1] \in Int
    BY <1>5, <1>2
  <2> HIDE DEF g
  <2> QED
    BY <2>1, <2>2
<1>8. g \in [1..(m - 1) -> 1..(n - 1)]
  BY <1>5
<1> HIDE DEF g
<1>9. Places(g, Tail(s), Tail(t))
  BY <1>3, <1>6, <1>7 DEF Places
<1> QED
  BY <1>3, <1>8, <1>9 DEF Placed

\* A caller that gives up leaves the queue; its answer is still to come.
LEMMA PlacedRemove ==
  ASSUME NEW s \in Seq(Calls), NEW t \in Seq(Calls), NEW k \in 1..Len(s),
         Placed(s, t), NEW u \in Seq(Calls), Len(u) = Len(s) - 1,
         \A i \in 1..(Len(s) - 1) : u[i] = IF i < k THEN s[i] ELSE s[i + 1]
  PROVE  Placed(u, t)
<1> DEFINE m == Len(s)
           n == Len(t)
<1>1. PICK f \in [1..m -> 1..n] : Places(f, s, t)
  BY DEF Placed
<1>2. m \in Nat \ {0} /\ n \in Nat
  OBVIOUS
<1>4. /\ \A i \in 1..m : s[i] = t[f[i]]
      /\ \A i, j \in 1..m : i < j => f[j] - f[i] >= j - i
  BY <1>1 DEF Places
<1>3. k \in 1..m
  OBVIOUS
<1> HIDE DEF m, n
<1> DEFINE h(i) == IF i < k THEN i ELSE i + 1
           g == [i \in 1..(m - 1) |-> f[h(i)]]
<1>5. ASSUME NEW i \in 1..(m - 1)
      PROVE  h(i) \in 1..m /\ g[i] = f[h(i)] /\ g[i] \in 1..n
  <2>1. h(i) \in 1..m
    BY <1>2, <1>3
  <2> HIDE DEF h
  <2> QED
    BY <2>1, <1>1
<1>6. \A i \in 1..(m - 1) : u[i] = t[g[i]]
  <2> SUFFICES ASSUME NEW i \in 1..(m - 1) PROVE u[i] = t[g[i]]
    OBVIOUS
  <2>1. u[i] = s[h(i)]
    BY DEF m
  <2> HIDE DEF h, g
  <2> QED
    BY <2>1, <1>4, <1>5
<1>7. ASSUME NEW i \in 1..(m - 1), NEW j \in 1..(m - 1), i < j
      PROVE  g[j] - g[i] >= j - i
  <2>1. h(i) < h(j) /\ h(j) - h(i) >= j - i
    BY <1>7, <1>2, <1>3
  <2>2. h(i) \in 1..m /\ h(j) \in 1..m
    BY <1>5
  <2> HIDE DEF h
  <2>3. f[h(j)] - f[h(i)] >= h(j) - h(i)
    BY <1>4, <2>1, <2>2
  <2>4. g[i] = f[h(i)] /\ g[j] = f[h(j)] /\ f[h(i)] \in 1..n /\ f[h(j)] \in 1..n
    BY <1>5
  <2>5. ASSUME NEW x \in Int, NEW y \in Int, NEW v \in Int, NEW w \in Int,
               y - x >= w - v, w - v >= j - i
        PROVE  y - x >= j - i
    BY <2>5
  <2>6. f[h(j)] - f[h(i)] >= j - i
    BY <2>1, <2>2, <2>3, <2>4, <2>5
  <2> HIDE DEF g
  <2> QED
    BY <2>4, <2>6
<1>8. g \in [1..(m - 1) -> 1..n]
  BY <1>5
<1> HIDE DEF g
<1>9. Places(g, u, t)
  BY <1>6, <1>7 DEF Places, m
<1> QED
  BY <1>8, <1>9 DEF Placed, m, n

-----------------------------------------------------------------------------
(* Every step keeps the types.                                             *)
LEMMA TypeStep ==
  ASSUME DaemonTypeOK, Distinct(queue), WaitingQueued, [DaemonNext]_daemonVars
  PROVE  DaemonTypeOK'
<1> USE DaemonBounds DEF DaemonTypeOK
<1>1. ASSUME NEW r \in Calls, Search(r) PROVE DaemonTypeOK'
  <2>1. CASE SendToNew(r)
    <3>1. queue' \in Seq(Calls) /\ stdin' \in Seq(Calls) /\ stdout' \in Seq(Lines)
      BY <2>1 DEF SendToNew
    <3>2. call' \in [Calls -> {"idle", "daemon", "oneshot", "rows", "failed", "lost"}]
      BY <1>1 DEF Search
    <3>3. spawns' \in 0..MaxSpawns
      BY <2>1 DEF SendToNew
    <3>6. dead' \in BOOLEAN
      BY <2>1 DEF SendToNew
    <3>4. proc' \in {"none", "cold", "warm", "gone"}
      BY <2>1 DEF SendToNew
    <3>5. answer' = answer /\ timeouts' = timeouts
      BY <1>1 DEF Search
    <3> QED
      BY <3>1, <3>2, <3>3, <3>4, <3>5, <3>6
  <2>2. CASE SendToWarm(r)
    BY <1>1, <2>2 DEF Search, SendToWarm
  <2> QED
    BY <1>1, <2>1, <2>2 DEF Search
<1>2. ASSUME NEW r \in Calls, Timeout(r) PROVE DaemonTypeOK'
  <2>1. RemoveFirst(queue, r) \in Seq(Calls)
    BY <1>2, RemoveFirstIs DEF Timeout, WaitingQueued
  <2> QED
    BY <1>2, <2>1 DEF Timeout
<1>3. ASSUME NEW r \in Calls, OneShot(r) PROVE DaemonTypeOK'
  BY <1>3 DEF OneShot
<1>4. CASE OnLine
  <2>1. Head(stdout) \in Lines /\ Tail(stdout) \in Seq(Lines)
    BY <1>4, HeadTailProperties DEF OnLine
  <2>2. queue # <<>> => Head(queue) \in Calls /\ Tail(queue) \in Seq(Calls)
    BY HeadTailProperties
  <2> QED
    BY <1>4, <2>1, <2>2 DEF OnLine, Lines
<1>5. CASE OnExit
  BY <1>5 DEF OnExit
<1>6. CASE EngineWarm \/ ProcessEnds \/ UNCHANGED daemonVars
  BY <1>6 DEF EngineWarm, ProcessEnds, daemonVars
<1>7. CASE Serve
  <2>1. Head(stdin) \in Calls /\ Tail(stdin) \in Seq(Calls)
    BY <1>7, HeadTailProperties DEF Serve
  <2>2. \A ok \in BOOLEAN : [req |-> Head(stdin), ok |-> ok] \in Lines
    BY <2>1 DEF Lines
  <2> QED
    BY <1>7, <2>1, <2>2 DEF Serve
<1>8. ASSUME NEW r \in Calls, SendToGone(r) PROVE DaemonTypeOK'
  BY <1>8 DEF SendToGone
<1> QED
  BY <1>1, <1>2, <1>3, <1>4, <1>5, <1>6, <1>7, <1>8 DEF DaemonNext

(* A step that leaves the queue and the waiting calls alone.               *)
LEMMA Kept ==
  ASSUME DaemonInv, DaemonTypeOK', queue' = queue, dead' = dead,
         \A r \in Calls : (call'[r] = "daemon") <=> (call[r] = "daemon"),
         ~dead => Placed(queue', Out(stdout', stdin'))
  PROVE  DaemonInv'
<1>1. Distinct(queue') /\ (dead' => queue' = <<>>)
  BY DEF DaemonInv
<1>2. WaitingQueued'
  BY DEF DaemonInv, WaitingQueued
<1>3. ~dead' => Placed(queue, Outstanding)'
  BY DEF Outstanding, Out
<1> QED
  BY <1>1, <1>2, <1>3 DEF DaemonInv

(* daemonSearch with a new handle, and with the live one.                  *)
LEMMA KeepSearch ==
  ASSUME DaemonInv, DaemonTypeOK', NEW r \in Calls, Search(r)
  PROVE  DaemonInv'
<1> USE DEF DaemonTypeOK
<1>1. \A x \in Calls : call'[x] = IF x = r THEN "daemon" ELSE call[x]
  BY DEF Search, DaemonInv
<1>2. call[r] = "idle"
  BY DEF Search
<1>3. CASE SendToNew(r)
  <2>1. queue = <<>> /\ Len(queue) = 0
    BY <1>3 DEF SendToNew, DaemonInv
  <2>2. queue' = <<r>> /\ ~dead' /\ stdin' = <<r>> /\ stdout' = <<>>
    BY <1>3 DEF SendToNew
  <2>3. Distinct(queue')
    BY <2>2 DEF Distinct
  <2>4. WaitingQueued'
    BY <1>1, <2>1, <2>2 DEF WaitingQueued, DaemonInv
  <2>5. <<>> \in Seq(Calls) /\ <<>> \in Seq(Lines) /\ <<r>> = Append(<<>>, r)
    OBVIOUS
  <2>6. Out(<<>>, <<>>) \in Seq(Calls)
    BY <2>5, OutIs
  <2>7. Placed(<<r>>, Out(<<>>, <<r>>))
    <3>1. Out(<<>>, <<r>>) = Append(Out(<<>>, <<>>), r)
      <4>1. Out(<<>>, Append(<<>>, r)) = Append(Out(<<>>, <<>>), r)
        BY <2>5, OutAppend, Zenon
      <4> QED
        BY <4>1, <2>5, Zenon
    <3>2. Placed(<<>>, Out(<<>>, <<>>))
      BY <2>6, PlacedEmpty
    <3>3. Placed(Append(<<>>, r), Append(Out(<<>>, <<>>), r))
      BY <2>5, <2>6, <3>2, PlacedAppend
    <3> QED
      BY <2>5, <3>1, <3>3
  <2> QED
    BY <2>2, <2>3, <2>4, <2>7 DEF DaemonInv, Outstanding, Out
<1>4. CASE SendToWarm(r)
  <2>1. /\ queue' = Append(queue, r) /\ stdin' = Append(stdin, r)
        /\ stdout' = stdout /\ ~dead /\ ~dead'
    BY <1>4 DEF SendToWarm
  <2>2. /\ Len(queue') = Len(queue) + 1 /\ queue'[Len(queue) + 1] = r
        /\ \A i \in 1..Len(queue) : queue'[i] = queue[i]
        /\ Len(queue) \in Nat
    BY <2>1 DEF DaemonInv
  <2>3. \A i \in 1..Len(queue) : queue[i] # r
    BY <1>2 DEF DaemonInv, WaitingQueued
  <2>4. Distinct(queue')
    <3> SUFFICES ASSUME NEW i \in 1..Len(queue'), NEW j \in 1..Len(queue'),
                        queue'[i] = queue'[j]
                 PROVE  i = j
      BY DEF Distinct
    <3>1. CASE i \in 1..Len(queue) /\ j \in 1..Len(queue)
      BY <3>1, <2>2 DEF DaemonInv, Distinct
    <3>2. CASE i = Len(queue) + 1 \/ j = Len(queue) + 1
      BY <3>2, <2>2, <2>3
    <3> QED
      BY <3>1, <3>2, <2>2
  <2>5. WaitingQueued'
    <3> SUFFICES ASSUME NEW x \in Calls
                 PROVE  (call'[x] = "daemon")
                          <=> \E i \in 1..Len(queue') : queue'[i] = x
      BY DEF WaitingQueued
    <3>1. CASE x = r
      <4>1. Len(queue) + 1 \in 1..Len(queue')
        BY <2>2
      <4> QED
        BY <3>1, <4>1, <1>1, <2>2
    <3>2. CASE x # r
      <4>1. (\E i \in 1..Len(queue') : queue'[i] = x)
              <=> (\E i \in 1..Len(queue) : queue[i] = x)
        <5>1. \A i \in 1..Len(queue') : i \in 1..Len(queue) \/ i = Len(queue) + 1
          BY <2>2
        <5>2. \A i \in 1..Len(queue) : i \in 1..Len(queue')
          BY <2>2
        <5> QED
          BY <3>2, <2>2, <5>1, <5>2
      <4> QED
        BY <3>2, <4>1, <1>1 DEF DaemonInv, WaitingQueued
    <3> QED
      BY <3>1, <3>2
  <2>6. Out(stdout, stdin) \in Seq(Calls)
    BY OutIs DEF DaemonInv
  <2>7. Placed(queue, Out(stdout, stdin))
    BY <2>1 DEF DaemonInv, Outstanding, Out
  <2>8. Placed(queue', Out(stdout', stdin'))
    <3>1. queue \in Seq(Calls) /\ stdin \in Seq(Calls) /\ stdout \in Seq(Lines)
      BY DEF DaemonInv
    <3>2. Placed(Append(queue, r), Append(Out(stdout, stdin), r))
      BY <3>1, <2>6, <2>7, PlacedAppend, Zenon
    <3>3. Out(stdout, Append(stdin, r)) = Append(Out(stdout, stdin), r)
      BY <3>1, OutAppend, Zenon
    <3> QED
      BY <2>1, <3>2, <3>3, Zenon
  <2> QED
    BY <2>1, <2>4, <2>5, <2>8 DEF DaemonInv, Outstanding, Out
<1> QED
  BY <1>3, <1>4 DEF Search

(* The head of the queue gets the answer line.                             *)
LEMMA KeepOnLine ==
  ASSUME DaemonInv, DaemonTypeOK', OnLine
  PROVE  DaemonInv'
<1> USE DEF DaemonTypeOK
<1>1. stdout # <<>> /\ stdout' = Tail(stdout) /\ dead' = dead /\ stdin' = stdin
  BY DEF OnLine
<1>2. Out(stdout, stdin) \in Seq(Calls) /\ Out(stdout', stdin') \in Seq(Calls)
  BY OutIs DEF DaemonInv
<1>3. /\ Out(stdout, stdin) # <<>>
      /\ Out(stdout', stdin') = Tail(Out(stdout, stdin))
  BY <1>1, OutTail DEF DaemonInv
<1>4. CASE queue = <<>>
  <2>1. queue' = <<>> /\ call' = call
    BY <1>4 DEF OnLine
  <2>2. Placed(queue', Out(stdout', stdin'))
    BY <2>1, <1>2, PlacedEmpty
  <2> QED
    BY <1>1, <1>4, <2>1, <2>2, Kept
<1>5. CASE queue # <<>>
  <2>1. queue' = Tail(queue) /\ ~dead
    BY <1>5 DEF OnLine, DaemonInv
  <2>2. \A x \in Calls :
          /\ x # Head(queue) => call'[x] = call[x]
          /\ x = Head(queue) => call'[x] # "daemon"
    BY <1>5 DEF OnLine, DaemonInv
  <2>3. /\ Len(queue') = Len(queue) - 1 /\ Len(queue) \in Nat \ {0}
        /\ \A i \in 1..(Len(queue) - 1) : queue'[i] = queue[i + 1]
        /\ Head(queue) = queue[1]
    BY <1>5, <2>1, HeadTailProperties, EmptySeq DEF DaemonInv
  <2>4. Distinct(queue')
    <3> SUFFICES ASSUME NEW i \in 1..Len(queue'), NEW j \in 1..Len(queue'),
                        queue'[i] = queue'[j]
                 PROVE  i = j
      BY DEF Distinct
    <3>1. i + 1 \in 1..Len(queue) /\ j + 1 \in 1..Len(queue)
      BY <2>3
    <3>2. queue[i + 1] = queue[j + 1]
      BY <2>3
    <3>3. i + 1 = j + 1
      BY <3>1, <3>2 DEF DaemonInv, Distinct
    <3> QED
      BY <2>3, <3>3
  <2>5. WaitingQueued'
    <3> SUFFICES ASSUME NEW x \in Calls
                 PROVE  (call'[x] = "daemon")
                          <=> \E i \in 1..Len(queue') : queue'[i] = x
      BY DEF WaitingQueued
    <3>1. CASE x = queue[1]
      <4>1. ASSUME NEW i \in 1..Len(queue'), queue'[i] = x PROVE FALSE
        <5>1. i + 1 \in 1..Len(queue) /\ queue[i + 1] = queue[1] /\ 1 \in 1..Len(queue)
          BY <2>3, <3>1, <4>1
        <5>2. i + 1 = 1
          BY <5>1 DEF DaemonInv, Distinct
        <5> QED
          BY <5>2, <2>3
      <4> QED
        BY <4>1, <3>1, <2>2, <2>3
    <3>2. CASE x # queue[1]
      <4>1. ASSUME NEW i \in 1..Len(queue), queue[i] = x
            PROVE  \E j \in 1..Len(queue') : queue'[j] = x
        <5>1. i # 1
          BY <3>2, <4>1
        <5>2. i - 1 \in 1..Len(queue') /\ (i - 1) + 1 = i
          BY <5>1, <2>3
        <5>3. queue'[i - 1] = queue[i]
          BY <5>2, <2>3
        <5> QED
          BY <5>2, <5>3, <4>1
      <4>2. ASSUME NEW i \in 1..Len(queue'), queue'[i] = x
            PROVE  \E j \in 1..Len(queue) : queue[j] = x
        <5>1. i + 1 \in 1..Len(queue) /\ queue[i + 1] = x
          BY <4>2, <2>3
        <5> QED
          BY <5>1
      <4> QED
        BY <4>1, <4>2, <3>2, <2>2, <2>3 DEF DaemonInv, WaitingQueued
    <3> QED
      BY <3>1, <3>2
  <2>6. Placed(queue, Out(stdout, stdin))
    BY <2>1 DEF DaemonInv, Outstanding, Out
  <2>7. Placed(queue', Out(stdout', stdin'))
    BY <1>2, <1>3, <1>5, <2>1, <2>6, PlacedTail DEF DaemonInv
  <2> QED
    BY <1>1, <2>1, <2>4, <2>5, <2>7 DEF DaemonInv, Outstanding, Out
<1> QED
  BY <1>4, <1>5

(* A timer fires: its request is spliced out.                              *)
LEMMA KeepTimeout ==
  ASSUME DaemonInv, DaemonTypeOK', NEW r \in Calls, Timeout(r)
  PROVE  DaemonInv'
<1> USE DEF DaemonTypeOK
<1>1. PICK k \in 1..Len(queue) : queue[k] = r
  BY DEF Timeout, DaemonInv, WaitingQueued
<1>2. /\ Len(queue') = Len(queue) - 1 /\ Len(queue) \in Nat
      /\ \A i \in 1..(Len(queue) - 1) :
           queue'[i] = IF i < k THEN queue[i] ELSE queue[i + 1]
  <2>1. queue' = RemoveFirst(queue, queue[k])
    BY <1>1 DEF Timeout
  <2>2. queue \in Seq(Calls) /\ Distinct(queue)
    BY DEF DaemonInv
  <2>3. /\ Len(RemoveFirst(queue, queue[k])) = Len(queue) - 1
        /\ \A i \in 1..(Len(queue) - 1) :
             RemoveFirst(queue, queue[k])[i]
               = IF i < k THEN queue[i] ELSE queue[i + 1]
    BY <2>2, RemoveFirstIs
  <2>4. Len(queue) \in Nat
    BY <2>2
  <2> QED
    BY <2>1, <2>3, <2>4, Zenon
<1>3. \A x \in Calls : call'[x] = IF x = r THEN "oneshot" ELSE call[x]
  BY DEF Timeout, DaemonInv
<1>4. dead' = dead /\ stdin' = stdin /\ stdout' = stdout
  BY DEF Timeout
<1>5. Distinct(queue')
  <2> DEFINE h(i) == IF i < k THEN i ELSE i + 1
  <2> SUFFICES ASSUME NEW i \in 1..Len(queue'), NEW j \in 1..Len(queue'),
                      queue'[i] = queue'[j]
               PROVE  i = j
    BY DEF Distinct
  <2>1. h(i) \in 1..Len(queue) /\ h(j) \in 1..Len(queue)
    BY <1>2
  <2>2. queue[h(i)] = queue[h(j)]
    BY <1>2
  <2>3. h(i) = h(j)
    BY <2>1, <2>2 DEF DaemonInv, Distinct
  <2> QED
    BY <2>3, <1>2
<1>6. WaitingQueued'
  <2> SUFFICES ASSUME NEW x \in Calls
               PROVE  (call'[x] = "daemon")
                        <=> \E i \in 1..Len(queue') : queue'[i] = x
    BY DEF WaitingQueued
  <2>1. ASSUME NEW i \in 1..Len(queue'), queue'[i] = x
        PROVE  x # r /\ \E j \in 1..Len(queue) : queue[j] = x
    <3>1. PICK j \in 1..Len(queue) : j # k /\ queue[j] = x
      <4>1. CASE i < k
        BY <4>1, <2>1, <1>2
      <4>2. CASE ~(i < k)
        <5>1. i + 1 \in 1..Len(queue) /\ i + 1 # k /\ queue[i + 1] = x
          BY <4>2, <2>1, <1>2
        <5> QED
          BY <5>1
      <4> QED
        BY <4>1, <4>2
    <3> QED
      BY <3>1, <1>1 DEF DaemonInv, Distinct
  <2>2. ASSUME NEW j \in 1..Len(queue), queue[j] = x, x # r
        PROVE  \E i \in 1..Len(queue') : queue'[i] = x
    <3>1. j # k
      BY <2>2, <1>1
    <3>2. CASE j < k
      <4>1. j \in 1..Len(queue') /\ queue'[j] = queue[j]
        BY <3>2, <1>2
      <4> QED
        BY <4>1, <2>2
    <3>3. CASE ~(j < k)
      <4>1. j - 1 \in 1..(Len(queue) - 1) /\ ~(j - 1 < k) /\ (j - 1) + 1 = j
        BY <3>1, <3>3, <1>2
      <4>2. queue'[j - 1] = queue[(j - 1) + 1]
        BY <4>1, <1>2
      <4> QED
        BY <4>1, <4>2, <2>2, <1>2
    <3> QED
      BY <3>2, <3>3
  <2> QED
    BY <2>1, <2>2, <1>3 DEF DaemonInv, WaitingQueued
<1>7. ~dead
  BY <1>1 DEF DaemonInv
<1>8. Out(stdout, stdin) \in Seq(Calls) /\ Placed(queue, Out(stdout, stdin))
  BY <1>7, OutIs DEF DaemonInv, Outstanding, Out
<1>9. Placed(queue', Out(stdout', stdin'))
  BY <1>2, <1>4, <1>8, PlacedRemove DEF DaemonInv
<1> QED
  BY <1>4, <1>5, <1>6, <1>7, <1>9 DEF DaemonInv, Outstanding, Out

(* killAllPending.                                                         *)
LEMMA KeepOnExit ==
  ASSUME DaemonInv, DaemonTypeOK', OnExit
  PROVE  DaemonInv'
<1>1. queue' = <<>> /\ dead' /\ Len(queue') = 0
  BY DEF OnExit
<1>2. Distinct(queue')
  BY <1>1 DEF Distinct
<1>3. \A x \in Calls : call'[x] # "daemon"
  BY DEF OnExit, Contains, DaemonInv, WaitingQueued
<1>4. WaitingQueued'
  BY <1>1, <1>3 DEF WaitingQueued
<1> QED
  BY <1>1, <1>2, <1>4 DEF DaemonInv

(* A server that ends has no queue and no call that waits.                 *)
LEMMA KeepSendToGone ==
  ASSUME DaemonInv, DaemonTypeOK', NEW r \in Calls, SendToGone(r)
  PROVE  DaemonInv'
<1>1. queue' = <<>> /\ dead' /\ Len(queue') = 0
  BY DEF SendToGone
<1>2. Distinct(queue')
  BY <1>1 DEF Distinct
<1>3. \A x \in Calls : call'[x] # "daemon"
  BY DEF SendToGone
<1>4. WaitingQueued'
  BY <1>1, <1>3 DEF WaitingQueued
<1> QED
  BY <1>1, <1>2, <1>4 DEF DaemonInv

(* One turn of the process, its start and its end, and the one-shot path.  *)
LEMMA KeepOthers ==
  ASSUME DaemonInv, DaemonTypeOK',
         \/ Serve \/ EngineWarm \/ ProcessEnds \/ UNCHANGED daemonVars
         \/ \E r \in Calls : OneShot(r)
  PROVE  DaemonInv'
<1> USE DEF DaemonTypeOK
<1>1. queue' = queue /\ dead' = dead
  BY DEF Serve, EngineWarm, ProcessEnds, OneShot, daemonVars
<1>2. \A r \in Calls : (call'[r] = "daemon") <=> (call[r] = "daemon")
  BY DEF Serve, EngineWarm, ProcessEnds, OneShot, daemonVars, DaemonInv
<1>3. Out(stdout', stdin') = Out(stdout, stdin)
  <2>1. CASE Serve
    <3>1. PICK ok \in BOOLEAN :
            stdout' = Append(stdout, [req |-> Head(stdin), ok |-> ok])
      BY <2>1 DEF Serve
    <3>2. stdin # <<>> /\ stdin' = Tail(stdin) /\ Head(stdin) \in Calls
      BY <2>1, HeadTailProperties DEF Serve, DaemonInv
    <3>3. [req |-> Head(stdin), ok |-> ok] \in Lines
      BY <3>2 DEF Lines
    <3> QED
      BY <3>1, <3>2, <3>3, OutServe DEF DaemonInv
  <2>2. CASE ~Serve
    BY <2>2 DEF EngineWarm, ProcessEnds, OneShot, daemonVars
  <2> QED
    BY <2>1, <2>2
<1>4. ~dead => Placed(queue, Out(stdout, stdin))
  BY DEF DaemonInv, Outstanding, Out
<1> QED
  BY <1>1, <1>2, <1>3, <1>4, Kept

(***************************************************************************)
(* The inductive invariant.                                                *)
(***************************************************************************)
LEMMA Inductive == DaemonSpec => []DaemonInv
<1>1. DaemonInit => DaemonInv
  <2> SUFFICES ASSUME DaemonInit PROVE DaemonInv
    OBVIOUS
  <2>1. DaemonTypeOK
    BY DaemonBounds DEF DaemonInit, DaemonTypeOK
  <2>2. queue = <<>> /\ Len(queue) = 0 /\ dead
    BY DEF DaemonInit
  <2> QED
    BY <2>1, <2>2 DEF DaemonInit, DaemonInv, Distinct, WaitingQueued
<1>2. DaemonInv /\ [DaemonNext]_daemonVars => DaemonInv'
  <2> SUFFICES ASSUME DaemonInv, [DaemonNext]_daemonVars PROVE DaemonInv'
    OBVIOUS
  <2>1. DaemonTypeOK'
    BY TypeStep DEF DaemonInv
  <2> QED
    BY <2>1, KeepSearch, KeepOnLine, KeepTimeout, KeepOnExit,
       KeepSendToGone, KeepOthers
    DEF DaemonNext
<1> QED
  BY <1>1, <1>2, PTL DEF DaemonSpec

(* The invariant implies what the runs check.                              *)
LEMMA IInvOwed == DaemonInv => WaitersAreOwed
<1> SUFFICES ASSUME DaemonInv PROVE WaitersAreOwed
  OBVIOUS
<1>1. \A r \in Calls : (call[r] = "daemon") <=> Contains(queue, r)
  BY DEF DaemonInv, WaitingQueued, Contains
<1>2. Cardinality(ToSet(queue)) = Len(queue)
  <2>1. queue \in [1..Len(queue) -> Calls] /\ DOMAIN queue = 1..Len(queue)
        /\ Len(queue) \in Nat
    BY LenProperties DEF DaemonInv, DaemonTypeOK
  <2>2. queue \in Bijection(1..Len(queue), ToSet(queue))
    <3>1. queue \in [1..Len(queue) -> ToSet(queue)]
      BY <2>1 DEF ToSet
    <3>2. \A x \in ToSet(queue) : \E i \in 1..Len(queue) : queue[i] = x
      BY <2>1 DEF ToSet
    <3>3. queue \in Injection(1..Len(queue), ToSet(queue))
      BY <3>1 DEF DaemonInv, Distinct, Injection, IsInjective
    <3>4. queue \in Surjection(1..Len(queue), ToSet(queue))
      BY <3>1, <3>2 DEF Surjection
    <3> QED
      BY <3>3, <3>4 DEF Bijection
  <2>3. IsFiniteSet(1..Len(queue)) /\ Cardinality(1..Len(queue)) = Len(queue)
    <3>1. 1 \in Int /\ Len(queue) \in Int
      BY <2>1
    <3>2. /\ IsFiniteSet(1..Len(queue))
          /\ Cardinality(1..Len(queue))
               = IF 1 > Len(queue) THEN 0 ELSE Len(queue) - 1 + 1
      BY <3>1, FS_Interval
    <3> QED
      BY <3>2, <2>1
  <2> QED
    BY <2>2, <2>3, FS_Bijection DEF ExistsBijection
<1>3. ~dead => SubsequenceOf(queue, Outstanding)
  <2> SUFFICES ASSUME ~dead PROVE SubsequenceOf(queue, Outstanding)
    OBVIOUS
  <2>1. PICK f \in [1..Len(queue) -> 1..Len(Outstanding)] :
          Places(f, queue, Outstanding)
    BY DEF DaemonInv, Placed
  <2>2. Len(queue) \in Nat /\ Len(Outstanding) \in Nat
    BY OutIs, LenProperties DEF DaemonInv, DaemonTypeOK, Outstanding, Out
  <2>3. ASSUME NEW i \in 1..Len(queue), NEW j \in 1..Len(queue), i < j
        PROVE  f[i] < f[j]
    <3>1. f[i] \in 1..Len(Outstanding) /\ f[j] \in 1..Len(Outstanding)
      BY <2>1
    <3>2. f[j] - f[i] >= j - i
      BY <2>1, <2>3 DEF Places
    <3>3. ASSUME NEW x \in 1..Len(Outstanding), NEW y \in 1..Len(Outstanding),
                 y - x >= j - i
          PROVE  x < y
      BY <2>2, <2>3, <3>3
    <3> QED
      BY <3>1, <3>2, <3>3
  <2> QED
    BY <2>1, <2>3 DEF SubsequenceOf, Places
<1> QED
  BY <1>1, <1>2, <1>3 DEF DaemonInv, WaitersAreOwed

(***************************************************************************)
(* Every call that waits for the daemon is in the queue of the live handle *)
(* exactly once and its answer is among those still to come, whatever      *)
(* exits, timers, respawns and late lines happen.                          *)
(***************************************************************************)
THEOREM EveryWaiterIsOwed == DaemonSpec => []WaitersAreOwed
BY Inductive, IInvOwed, PTL

-----------------------------------------------------------------------------
(* The abstract state of a call follows its state.                         *)
LEMMA StatusIs ==
  ASSUME NEW r \in Calls, NEW v,
         call \in [Calls -> {"idle", "daemon", "oneshot", "rows", "failed", "lost"}],
         call' = [call EXCEPT ![r] = v]
  PROVE  Status' = [Status EXCEPT ![r] = StatusOf(v)]
BY DEF Status

\* What the steps of a call are in the abstract service.
LEMMA StatusValues ==
  /\ StatusOf("daemon") = "waiting" /\ StatusOf("oneshot") = "retrying"
  /\ StatusOf("idle") = "idle" /\ StatusOf("rows") = "rows"
  /\ StatusOf("failed") = "failed"
  /\ StatusOf("lost") = "lost"
BY DEF StatusOf

(* How long the queue and the answers to come are.                         *)
LEMMA LengthsAre ==
  ASSUME DaemonInv
  PROVE  /\ Len(queue) \in Nat /\ Len(stdout) \in Nat /\ Len(stdin) \in Nat
         /\ Outstanding \in Seq(Calls)
         /\ Len(Outstanding) = Len(stdout) + Len(stdin)
         /\ ~dead => Len(queue) <= Len(Outstanding)
<1>1. /\ queue \in Seq(Calls) /\ stdout \in Seq(Lines) /\ stdin \in Seq(Calls)
      /\ ~dead => Placed(queue, Outstanding)
  BY DEF DaemonInv, DaemonTypeOK
<1>2. Outstanding = Out(stdout, stdin)
  BY DEF Outstanding, Out
<1>3. Outstanding \in Seq(Calls) /\ Len(Outstanding) = Len(stdout) + Len(stdin)
  BY <1>1, <1>2, OutIs
<1> QED
  BY <1>1, <1>3, PlacedFirst

(* daemonSearch opens the call; the handle stays in step or out of step.   *)
LEMMA SearchOpens ==
  ASSUME DaemonInv, DaemonInv', NEW r \in Calls, Search(r)
  PROVE  Service!Open(r)
<1> USE DEF DaemonTypeOK
<1>1. Status[r] = "idle" /\ Status' = [Status EXCEPT ![r] = "waiting"]
  <2>1. call' = [call EXCEPT ![r] = "daemon"] /\ call[r] = "idle"
    BY DEF Search
  <2>2. Status' = [Status EXCEPT ![r] = StatusOf("daemon")]
    BY <2>1, StatusIs DEF DaemonInv
  <2>3. Status[r] = StatusOf(call[r])
    BY DEF Status
  <2> QED
    BY <2>1, <2>2, <2>3, StatusValues
<1>2. InStep' <=> InStep
  <2>1. CASE SendToNew(r)
    <3>1. dead /\ ~dead' /\ queue' = <<r>> /\ stdin' = <<r>> /\ stdout' = <<>>
      BY <2>1 DEF SendToNew
    <3>2. Len(Out(stdout', stdin')) = Len(stdout') + Len(stdin')
      BY OutIs DEF DaemonInv
    <3>3. Len(queue') = 1 /\ Len(stdin') = 1 /\ Len(stdout') = 0
      BY <3>1
    <3>4. Outstanding' = Out(stdout', stdin')
      BY DEF Outstanding, Out
    <3> QED
      BY <3>1, <3>2, <3>3, <3>4 DEF InStep
  <2>2. CASE SendToWarm(r)
    <3>1. /\ ~dead /\ ~dead' /\ stdout' = stdout
          /\ queue' = Append(queue, r) /\ stdin' = Append(stdin, r)
      BY <2>2 DEF SendToWarm
    <3>2. Len(Out(stdout', stdin')) = Len(stdout') + Len(stdin')
      BY OutIs DEF DaemonInv
    <3>3. Len(queue') = Len(queue) + 1 /\ Len(stdin') = Len(stdin) + 1
      BY <3>1 DEF DaemonInv
    <3>4. Outstanding' = Out(stdout', stdin')
      BY DEF Outstanding, Out
    <3>5. Len(Outstanding') = Len(Outstanding) + 1
      <4>1. Len(Outstanding') = Len(stdout) + (Len(stdin) + 1)
        BY <3>1, <3>2, <3>3, <3>4
      <4> QED
        BY <4>1, LengthsAre
    <3> QED
      BY <3>1, <3>3, <3>5, LengthsAre DEF InStep
  <2> QED
    BY <2>1, <2>2 DEF Search
<1>3. answer' = answer
  BY DEF Search
<1> QED
  BY <1>1, <1>2, <1>3 DEF Service!Open

(* The one-shot path is the retry.                                         *)
LEMMA OneShotRetries ==
  ASSUME DaemonInv, NEW r \in Calls, OneShot(r)
  PROVE  Service!Retry(r)
<1>1. Status[r] = "retrying"
  <2>1. Status[r] = StatusOf(call[r])
    BY DEF Status
  <2> QED
    BY <2>1, StatusValues DEF OneShot
<1>2. InStep' <=> InStep
  BY DEF OneShot, InStep, Outstanding
<1>3. CASE call' = [call EXCEPT ![r] = "rows"] /\ answer' = [answer EXCEPT ![r] = r]
  <2>1. Status' = [Status EXCEPT ![r] = StatusOf("rows")]
    BY <1>3, StatusIs DEF DaemonInv, DaemonTypeOK
  <2> QED
    BY <1>1, <1>2, <1>3, <2>1, StatusValues DEF Service!Retry
<1>4. CASE call' = [call EXCEPT ![r] = "failed"] /\ answer' = answer
  <2>1. Status' = [Status EXCEPT ![r] = StatusOf("failed")]
    BY <1>4, StatusIs DEF DaemonInv, DaemonTypeOK
  <2> QED
    BY <1>1, <1>2, <1>4, <2>1, StatusValues DEF Service!Retry
<1> QED
  BY <1>3, <1>4 DEF OneShot

(* One call gives up waiting.                                              *)
LEMMA OneGivesUp ==
  ASSUME DaemonInv, NEW r \in Calls, call[r] = "daemon", answer' = answer,
         call' = [call EXCEPT ![r] = "oneshot"],
         (InStep' <=> InStep) \/ ~InStep'
  PROVE  Service!GiveUp({r})
<1>1. Status[r] = "waiting"
  BY StatusValues DEF Status
<1>2. Status' = [Status EXCEPT ![r] = "retrying"]
  <2>1. Status' = [Status EXCEPT ![r] = StatusOf("oneshot")]
    BY StatusIs DEF DaemonInv, DaemonTypeOK
  <2> QED
    BY <2>1, StatusValues
<1>3. Status' = [x \in Calls |-> IF x \in {r} THEN "retrying" ELSE Status[x]]
  BY <1>2 DEF Status
<1>4. InStep' \in {InStep, FALSE}
  BY DEF InStep
<1> QED
  BY <1>1, <1>3, <1>4 DEF Service!GiveUp

(* A timer takes the handle out of step.                                   *)
LEMMA TimeoutGivesUp ==
  ASSUME DaemonInv, NEW r \in Calls, Timeout(r)
  PROVE  Service!GiveUp({r})
<1>1. /\ call[r] = "daemon" /\ call' = [call EXCEPT ![r] = "oneshot"]
      /\ answer' = answer /\ dead' = dead
      /\ stdin' = stdin /\ stdout' = stdout /\ queue' = RemoveFirst(queue, r)
  BY DEF Timeout
<1>2. PICK k \in 1..Len(queue) : queue[k] = r
  BY <1>1 DEF DaemonInv, WaitingQueued
<1>3. Len(queue') = Len(queue) - 1
  <2>1. queue \in Seq(Calls) /\ Distinct(queue) /\ queue' = RemoveFirst(queue, queue[k])
    BY <1>1, <1>2 DEF DaemonInv, DaemonTypeOK
  <2> QED
    BY <2>1, RemoveFirstIs
<1>4. ~dead
  BY <1>2 DEF DaemonInv
<1>5. Outstanding' = Outstanding
  BY <1>1 DEF Outstanding
<1>6. ~InStep'
  BY <1>1, <1>3, <1>4, <1>5, LengthsAre DEF InStep
<1> QED
  BY <1>1, <1>6, OneGivesUp

(* The exit of the process leaves nobody waiting.                          *)
LEMMA ExitGivesUp ==
  ASSUME DaemonInv, OnExit
  PROVE  \E R \in SUBSET Calls : Service!GiveUp(R)
<1> DEFINE R == {r \in Calls : Contains(queue, r)}
<1>1. \A r \in Calls : (call[r] = "daemon") <=> r \in R
  BY DEF DaemonInv, WaitingQueued, Contains
<1>2. /\ call' = [r \in Calls |-> IF Contains(queue, r) THEN "oneshot" ELSE call[r]]
      /\ answer' = answer /\ dead'
  BY DEF OnExit
<1>3. \A r \in R : Status[r] = "waiting"
  BY <1>1, StatusValues DEF Status
<1>4. Status' = [r \in Calls |-> IF r \in R THEN "retrying" ELSE Status[r]]
  BY <1>2, StatusValues DEF Status
<1>5. \A r \in Calls : Status'[r] # "waiting"
  <2> SUFFICES ASSUME NEW r \in Calls PROVE Status'[r] # "waiting"
    OBVIOUS
  <2>1. CASE r \in R
    BY <2>1, <1>4
  <2>2. CASE r \notin R
    <3>1. call[r] \in {"idle", "oneshot", "rows", "failed", "lost"}
      BY <1>1, <2>2 DEF DaemonInv, DaemonTypeOK
    <3>2. Status'[r] = StatusOf(call[r])
      BY <1>4, <2>2 DEF Status
    <3> QED
      BY <3>1, <3>2, StatusValues
  <2> QED
    BY <2>1, <2>2
<1>6. InStep' /\ Service!Nobody'
  BY <1>2, <1>5 DEF InStep, Service!Nobody
<1>7. Service!GiveUp(R)
  BY <1>2, <1>3, <1>4, <1>6 DEF Service!GiveUp
<1> QED
  BY <1>7

(* A request written to a process that is gone ends the server.            *)
LEMMA WriteCrashes ==
  ASSUME DaemonInv, NEW r \in Calls, SendToGone(r)
  PROVE  Service!Crash(r)
<1>1. call \in [Calls -> {"idle", "daemon", "oneshot", "rows", "failed", "lost"}]
  BY DEF DaemonInv, DaemonTypeOK
<1>2. Status[r] = "idle"
  BY <1>1, StatusValues DEF Status, SendToGone
<1>3. ASSUME NEW q \in Calls
      PROVE  (call[q] \in {"daemon", "oneshot"})
               <=> (Status[q] \in {"waiting", "retrying"})
  BY <1>1 DEF Status, StatusOf
<1>4. \A q \in Calls :
        Status'[q] = IF q = r \/ Status[q] \in {"waiting", "retrying"}
                     THEN "lost" ELSE Status[q]
  BY <1>3, StatusValues DEF SendToGone, Status
<1>5. Status' = [q \in Calls |->
                   IF q = r \/ Status[q] \in {"waiting", "retrying"}
                   THEN "lost" ELSE Status[q]]
  BY <1>4 DEF Status
<1>6. InStep' = TRUE /\ answer' = answer
  BY DEF SendToGone, InStep
<1> QED
  BY <1>2, <1>5, <1>6 DEF Service!Crash

(* The first of the queue gets rows or gives up; a line that nobody waits  *)
(* for may be the last one to come.                                        *)
LEMMA LineAnswers ==
  ASSUME DaemonInv, OnLine, queue # <<>>
  PROVE  \E r \in Calls : Service!Answer(r) \/ Service!GiveUp({r})
<1> DEFINE r == Head(queue)
           l == Head(stdout)
<1>1. /\ queue \in Seq(Calls) /\ stdout \in Seq(Lines) /\ stdin \in Seq(Calls)
      /\ stdout # <<>> /\ ~dead /\ call \in [Calls -> {"idle", "daemon",
                                            "oneshot", "rows", "failed", "lost"}]
  BY DEF DaemonInv, DaemonTypeOK, OnLine
<1>2. /\ r \in Calls /\ r = queue[1] /\ 1 \in 1..Len(queue)
      /\ Len(Tail(queue)) = Len(queue) - 1
  BY <1>1, HeadTailProperties, EmptySeq
<1>3. l \in Lines /\ l.req \in Calls /\ Len(Tail(stdout)) = Len(stdout) - 1
      /\ Tail(stdout) \in Seq(Lines)
  <2>1. l \in Lines /\ Len(Tail(stdout)) = Len(stdout) - 1
        /\ Tail(stdout) \in Seq(Lines)
    BY <1>1, HeadTailProperties
  <2> QED
    BY <2>1 DEF Lines
<1>4. call[r] = "daemon"
  BY <1>2 DEF DaemonInv, WaitingQueued
<1>5. /\ queue' = Tail(queue) /\ stdout' = Tail(stdout)
      /\ stdin' = stdin /\ dead' = dead
  BY DEF OnLine
<1>6. InStep' <=> InStep
  <2>1. Outstanding' = Out(Tail(stdout), stdin)
    BY <1>5 DEF Outstanding, Out
  <2>2. Len(Outstanding') = (Len(stdout) - 1) + Len(stdin)
    BY <1>1, <1>3, <2>1, OutIs
  <2>3. Len(Outstanding') = Len(Outstanding) - 1
    BY <2>2, LengthsAre
  <2>4. Len(queue') = Len(queue) - 1
    BY <1>2, <1>5
  <2>5. ~dead /\ ~dead'
    BY <1>1, <1>5
  <2> QED
    BY <2>3, <2>4, <2>5, LengthsAre DEF InStep
<1>7. InStep => l.req = r
  <2>1. Placed(queue, Outstanding) /\ Outstanding = Out(stdout, stdin)
    BY <1>1 DEF DaemonInv, Outstanding, Out
  <2>2. Outstanding[1] = l.req
    BY <1>1, <2>1, OutTail
  <2>3. Len(queue) = Len(Outstanding) => queue[1] = Outstanding[1]
    BY <1>1, <2>1, PlacedFirst, LengthsAre
  <2> QED
    BY <1>1, <1>2, <2>2, <2>3 DEF InStep
<1>8. Status[r] = "waiting"
  BY <1>2, <1>4, StatusValues DEF Status
<1>9. CASE l.ok
  <2>1. /\ call' = [call EXCEPT ![r] = "rows"]
        /\ answer' = [answer EXCEPT ![r] = l.req]
    BY <1>9 DEF OnLine
  <2>2. Status' = [Status EXCEPT ![r] = StatusOf("rows")]
    BY <1>1, <1>2, <2>1, StatusIs
  <2>3. Service!Answer(r)
    <3> HIDE DEF r, l
    <3> QED
      BY <1>3, <1>6, <1>7, <1>8, <2>1, <2>2, StatusValues DEF Service!Answer
  <2> QED
    BY <1>2, <2>3
<1>10. CASE ~l.ok
  <2>1. call' = [call EXCEPT ![r] = "oneshot"] /\ answer' = answer
    BY <1>10 DEF OnLine
  <2>2. Service!GiveUp({r})
    <3> HIDE DEF r, l
    <3> QED
      BY <1>2, <1>4, <1>6, <2>1, OneGivesUp
  <2> QED
    BY <1>2, <2>2
<1> QED
  BY <1>9, <1>10

\* An answer nobody waits for brings questions and answers into step, or nothing.
LEMMA StrayLine ==
  ASSUME DaemonInv, OnLine, queue = <<>>
  PROVE  Service!Resync \/ UNCHANGED Service!vars
<1>1. UNCHANGED <<queue, call, answer, dead>> /\ Status' = Status
  BY DEF OnLine, Status
<1>2. Service!Nobody
  <2> SUFFICES ASSUME NEW r \in Calls PROVE Status[r] # "waiting"
    BY DEF Service!Nobody
  <2>1. call[r] \in {"idle", "oneshot", "rows", "failed", "lost"}
    <3>1. Len(queue) = 0
      OBVIOUS
    <3> QED
      BY <3>1 DEF DaemonInv, DaemonTypeOK, WaitingQueued
  <2> QED
    BY <2>1, StatusValues DEF Status
<1>3. CASE InStep'
  BY <1>1, <1>2, <1>3 DEF Service!Resync
<1>4. CASE ~InStep'
  <2>1. ~dead /\ Len(queue) = 0 /\ stdout # <<>> /\ stdout \in Seq(Lines)
    BY <1>1, <1>4 DEF InStep, OnLine, DaemonInv, DaemonTypeOK
  <2>2. Len(stdout) > 0
    BY <2>1
  <2>3. ~InStep
    BY <2>1, <2>2, LengthsAre DEF InStep
  <2>4. InStep' = InStep
    BY <1>4, <2>3 DEF InStep
  <2> QED
    BY <1>1, <2>4 DEF Service!vars
<1> QED
  BY <1>3, <1>4

(* The process itself is not visible.                                      *)
LEMMA ProcessHidden ==
  ASSUME DaemonInv, Serve \/ EngineWarm \/ ProcessEnds \/ UNCHANGED daemonVars
  PROVE  UNCHANGED Service!vars
<1>1. UNCHANGED <<call, answer, queue, dead>>
  BY DEF Serve, EngineWarm, ProcessEnds, daemonVars
<1>2. Outstanding' = Outstanding
  <2>1. CASE Serve
    <3>1. PICK ok \in BOOLEAN :
            stdout' = Append(stdout, [req |-> Head(stdin), ok |-> ok])
      BY <2>1 DEF Serve
    <3>2. stdin # <<>> /\ stdin' = Tail(stdin) /\ Head(stdin) \in Calls
      BY <2>1, HeadTailProperties DEF Serve, DaemonInv, DaemonTypeOK
    <3>3. [req |-> Head(stdin), ok |-> ok] \in Lines
      BY <3>2 DEF Lines
    <3>4. Out(stdout', stdin') = Out(stdout, stdin)
      BY <3>1, <3>2, <3>3, OutServe DEF DaemonInv, DaemonTypeOK
    <3> QED
      BY <3>4 DEF Outstanding, Out
  <2>2. CASE ~Serve
    BY <2>2 DEF EngineWarm, ProcessEnds, daemonVars, Outstanding
  <2> QED
    BY <2>1, <2>2
<1>3. Status' = Status
  BY <1>1 DEF Status
<1>4. InStep' <=> InStep
  BY <1>1, <1>2 DEF InStep
<1> QED
  BY <1>1, <1>3, <1>4 DEF Service!vars

(***************************************************************************)
(* The daemon with its handle, queue, timers, deaths and respawns          *)
(* implements the search service: every call is answered once or lost with *)
(* the server, and answered with the rows of its own query as long as the  *)
(* handle is in step.                                                      *)
(***************************************************************************)
THEOREM DaemonImplementsService == DaemonSpec => ImplementsService
<1>1. DaemonInit => Service!Init
  <2> SUFFICES ASSUME DaemonInit PROVE Service!Init
    OBVIOUS
  <2>1. Status = [r \in Calls |-> "idle"]
    BY StatusValues DEF DaemonInit, Status
  <2>2. InStep
    BY DEF DaemonInit, InStep
  <2> QED
    BY <2>1, <2>2 DEF DaemonInit, Service!Init
<1>2. DaemonInv /\ DaemonInv' /\ [DaemonNext]_daemonVars => [Service!Next]_(Service!vars)
  <2> SUFFICES ASSUME DaemonInv, DaemonInv', [DaemonNext]_daemonVars
               PROVE  [Service!Next]_(Service!vars)
    OBVIOUS
  <2>1. ASSUME NEW r \in Calls, Search(r) PROVE Service!Next
    BY <2>1, SearchOpens DEF Service!Next
  <2>2. ASSUME NEW r \in Calls, Timeout(r) PROVE Service!Next
    BY <2>2, TimeoutGivesUp DEF Service!Next
  <2>3. ASSUME NEW r \in Calls, OneShot(r) PROVE Service!Next
    BY <2>3, OneShotRetries DEF Service!Next
  <2>4. CASE OnLine /\ queue # <<>>
    BY <2>4, LineAnswers DEF Service!Next
  <2>5. CASE OnLine /\ queue = <<>>
    BY <2>5, StrayLine DEF Service!Next
  <2>6. CASE OnExit
    BY <2>6, ExitGivesUp DEF Service!Next
  <2>7. CASE EngineWarm \/ Serve \/ ProcessEnds \/ UNCHANGED daemonVars
    BY <2>7, ProcessHidden
  <2>8. ASSUME NEW r \in Calls, SendToGone(r) PROVE Service!Next
    BY <2>8, WriteCrashes DEF Service!Next
  <2> QED
    BY <2>1, <2>2, <2>3, <2>4, <2>5, <2>6, <2>7, <2>8 DEF DaemonNext
<1> QED
  BY <1>1, <1>2, Inductive, PTL DEF DaemonSpec, ImplementsService, Service!Spec

-----------------------------------------------------------------------------
(* The operations of the dashboard.                                        *)

Terminal == {"done", "error", "busy"}
SocketStates == {"none", "connecting", "open", "closed"}

(* The types of all variables.                                             *)
Types ==
    /\ socket \in [Pages -> [Sockets -> SocketStates]]
    /\ current \in [Pages -> 0..MaxSockets]
    /\ retry \in [Pages -> BOOLEAN]
    /\ pending \in [Pages -> BOOLEAN]
    /\ running \in [Pages -> BOOLEAN]
    /\ carrier \in [Pages -> 0..MaxSockets]
    /\ started \in [Pages -> Nat]
    /\ toServer \subseteq Pages \X Sockets
    /\ toPage \subseteq Pages \X Sockets \X Terminal
    /\ operation = NoOp \/ operation \in Pages \X Sockets

(* What is under way for a page is its operation, on the socket that       *)
(* carried it; the page is disabled, and nothing waits for a connection.   *)
UnderWay(p, n) == n = carrier[p] /\ running[p] /\ ~pending[p]

(* A message on its way to the server: nothing has been made of it yet.    *)
ToServerOK ==
    \A p \in Pages, n \in Sockets : <<p, n>> \in toServer =>
        /\ UnderWay(p, n)
        /\ socket[p][n] = "open"
        /\ operation # <<p, n>>
        /\ \A t \in Terminal : <<p, n, t>> \notin toPage

(* The operation the server works on: its socket was open.                 *)
OperationOK ==
    \A p \in Pages, n \in Sockets : operation = <<p, n>> =>
        /\ UnderWay(p, n)
        /\ socket[p][n] \in {"open", "closed"}
        /\ \A t \in Terminal : <<p, n, t>> \notin toPage

(* The answer: there is one.                                               *)
ToPageOK ==
    \A p \in Pages, n \in Sockets, t \in Terminal : <<p, n, t>> \in toPage =>
        /\ UnderWay(p, n)
        /\ socket[p][n] = "open"
        /\ \A u \in Terminal : <<p, n, u>> \in toPage => u = t

(* A message waits for a connection only while its operation is shown.     *)
PendingOK ==
    \A p \in Pages : pending[p] => running[p]

(* The places of an operation that the n-th socket of page p carries.      *)
Place(p, n) ==
    \/ <<p, n>> \in toServer
    \/ operation = <<p, n>>
    \/ \E t \in Terminal : <<p, n, t>> \in toPage
    \/ socket[p][n] = "closed"

(* Where the operation of a disabled page is.                              *)
Accounted ==
    \A p \in Pages : running[p] =>
        \/ pending[p]
        \/ \E n \in Sockets : n = carrier[p] /\ Place(p, n)

SocketInv ==
    /\ Types /\ ToServerOK /\ OperationOK /\ ToPageOK /\ PendingOK /\ Accounted

-----------------------------------------------------------------------------
(* The state of one socket changes.                                        *)
LEMMA OneSocket ==
    ASSUME NEW S, NEW f \in [Pages -> [Sockets -> S]], NEW v \in S,
           NEW q \in Pages, NEW k \in Sockets
    PROVE  [f EXCEPT ![q][k] = v] \in [Pages -> [Sockets -> S]]
OBVIOUS

(* connect() keeps the types.                                              *)
LEMMA ConnectTypes ==
    ASSUME Types, NEW q \in Pages, Connect(q)
    PROVE  /\ socket' \in [Pages -> [Sockets -> SocketStates]]
           /\ current' \in [Pages -> 0..MaxSockets]
<1>1. CASE IsOpen(q)
  BY <1>1 DEF Connect, Types
<1>2. CASE ~IsOpen(q)
  <2>1. PICK n \in Sockets :
          /\ socket' = [socket EXCEPT ![q][n] = "connecting"]
          /\ current' = [current EXCEPT ![q] = n]
    BY <1>2 DEF Connect
  <2>2. socket' \in [Pages -> [Sockets -> SocketStates]]
    BY <2>1, OneSocket DEF Types, SocketStates
  <2>3. current' \in [Pages -> 0..MaxSockets]
    BY <2>1, SocketBounds DEF Types, Sockets
  <2> QED
    BY <2>2, <2>3
<1> QED
  BY <1>1, <1>2

(* Every step keeps the types.                                             *)
LEMMA TypesStep ==
    ASSUME Types, [SocketNext]_socketVars
    PROVE  Types'
<1> USE SocketBounds DEF Types, Terminal, SocketStates, Sockets, NoOp
<1>1. ASSUME NEW q \in Pages, StartOp(q) PROVE Types'
  <2>1. socket' \in [Pages -> [Sockets -> SocketStates]] /\ current' \in [Pages -> 0..MaxSockets]
    BY ConnectTypes, <1>1 DEF StartOp, IsOpen
  <2>2. /\ toServer' \in SUBSET (Pages \X Sockets)
        /\ carrier' \in [Pages -> 0..MaxSockets]
    <3>1. CASE IsOpen(q)
      <4>1. current[q] \in Sockets
        BY <3>1 DEF IsOpen
      <4>2. /\ toServer' = toServer \cup {<<q, current[q]>>}
            /\ carrier' = [carrier EXCEPT ![q] = current[q]]
        BY <1>1, <3>1 DEF StartOp, Send
      <4> QED
        BY <4>1, <4>2
    <3>2. CASE ~IsOpen(q)
      <4>1. toServer' = toServer /\ carrier' = [carrier EXCEPT ![q] = 0]
        BY <1>1, <3>2 DEF StartOp
      <4> QED
        BY <4>1
    <3> QED
      BY <3>1, <3>2
  <2>3. pending' \in [Pages -> BOOLEAN] /\ running' \in [Pages -> BOOLEAN]
    BY <1>1 DEF StartOp
  <2>4. UNCHANGED <<retry, toPage, operation>>
    BY <1>1 DEF StartOp
  <2>5. started' \in [Pages -> Nat]
    BY <1>1 DEF StartOp
  <2> HIDE DEF Sockets, Terminal, SocketStates, NoOp
  <2> QED
    BY <2>1, <2>2, <2>3, <2>4, <2>5
<1>2. ASSUME NEW q \in Pages, Reconnect(q) PROVE Types'
  <2>1. socket' \in [Pages -> [Sockets -> SocketStates]] /\ current' \in [Pages -> 0..MaxSockets]
    BY ConnectTypes, <1>2 DEF Reconnect
  <2> QED
    BY <1>2, <2>1 DEF Reconnect, IsOpen
<1>3. ASSUME NEW q \in Pages, NEW k \in Sockets, OnOpen(q, k) PROVE Types'
  <2>1. socket' \in [Pages -> [Sockets -> SocketStates]]
    BY <1>3, OneSocket DEF OnOpen
  <2>2. k \in 0..MaxSockets
    OBVIOUS
  <2>3. UNCHANGED <<current, retry, running, started, toPage, operation>>
    BY <1>3 DEF OnOpen
  <2>4. \/ toServer' = toServer \cup {<<q, k>>} /\ carrier' = [carrier EXCEPT ![q] = k]
        \/ toServer' = toServer /\ carrier' = carrier
    BY <1>3 DEF OnOpen, Send
  <2>5. pending' \in [Pages -> BOOLEAN]
    BY <1>3 DEF OnOpen
  <2> HIDE DEF Sockets, Terminal, SocketStates, NoOp
  <2>6. toServer' \in SUBSET (Pages \X Sockets)
    BY <2>4
  <2>7. carrier' \in [Pages -> 0..MaxSockets]
    BY <2>2, <2>4
  <2> QED
    BY <2>1, <2>3, <2>5, <2>6, <2>7
<1>4. ASSUME NEW q \in Pages, NEW k \in Sockets, OnTerminal(q, k) PROVE Types'
  BY <1>4 DEF OnTerminal
<1>5. ASSUME NEW q \in Pages, NEW k \in Sockets, OnClose(q, k) PROVE Types'
  <2>1. socket' \in [Pages -> [Sockets -> SocketStates]]
    BY <1>5, OneSocket DEF OnClose
  <2>2. current' \in [Pages -> 0..MaxSockets] /\ retry' \in [Pages -> BOOLEAN]
    <3>1. \/ /\ current' = [current EXCEPT ![q] = 0]
             /\ retry' = [retry EXCEPT ![q] = TRUE]
          \/ UNCHANGED <<current, retry>>
      BY <1>5 DEF OnClose
    <3>2. current' \in [Pages -> 0..MaxSockets]
      <4>1. CASE current' = [current EXCEPT ![q] = 0]
        BY <4>1
      <4> QED
        BY <3>1, <4>1
    <3>3. retry' \in [Pages -> BOOLEAN]
      BY <3>1
    <3> QED
      BY <3>2, <3>3
  <2>3. /\ toServer' \in SUBSET (Pages \X Sockets)
        /\ toPage' \in SUBSET (Pages \X Sockets \X Terminal)
    <3> HIDE DEF Sockets, Terminal
    <3> QED
      BY <1>5 DEF OnClose
  <2> QED
    BY <1>5, <2>1, <2>2, <2>3 DEF OnClose
<1>6. ASSUME NEW q \in Pages, NEW k \in Sockets, OnMessage(q, k) PROVE Types'
  <2>1. /\ toServer' = toServer \ {<<q, k>>}
        /\ UNCHANGED <<socket, current, retry, pending, running, carrier, started>>
    BY <1>6 DEF OnMessage
  <2>2. \/ toPage' = toPage \cup {<<q, k, "busy">>} /\ operation' = operation
        \/ toPage' = toPage /\ operation' = operation
        \/ toPage' = toPage /\ operation' = <<q, k>>
    BY <1>6 DEF OnMessage, SafeSend
  <2>3. "busy" \in Terminal
    OBVIOUS
  <2> HIDE DEF Sockets, Terminal, SocketStates, NoOp
  <2>4. toPage' \in SUBSET (Pages \X Sockets \X Terminal)
    BY <2>2, <2>3
  <2> QED
    BY <2>1, <2>2, <2>4
<1>7. ASSUME HandleWsOperation PROVE Types'
  BY <1>7 DEF HandleWsOperation, SafeSend
<1>8. CASE UNCHANGED socketVars
  BY <1>8 DEF socketVars
<1> QED
  BY <1>1, <1>2, <1>3, <1>4, <1>5, <1>6, <1>7, <1>8 DEF SocketNext

(***************************************************************************)
(* The invariant holds initially.                                          *)
(***************************************************************************)
LEMMA IInvInit == SocketInit => SocketInv
BY SocketBounds DEF SocketInit, SocketInv, Types, ToServerOK, OperationOK, ToPageOK,
    PendingOK, Accounted, Place, UnderWay, SocketStates, Terminal, Sockets, NoOp

(* Effects of connect(): a socket that is in use stays as it is.           *)
LEMMA ConnectKeeps ==
    ASSUME Types, NEW q \in Pages, Connect(q)
    PROVE  \A p \in Pages, n \in Sockets :
             socket[p][n] # "none" => socket'[p][n] = socket[p][n]
BY DEF Connect, Types

(* startOp on an open connection.                                          *)
LEMMA KeepStartOpen ==
    ASSUME SocketInv, Types', NEW q \in Pages, StartOp(q), IsOpen(q)
    PROVE  SocketInv'
<1> DEFINE c == current[q]
<1>1. c \in Sockets /\ socket[q][c] = "open" /\ ~running[q]
  BY SocketBounds DEF StartOp, IsOpen, SocketInv, Types, Sockets
<1>2. \A p \in Pages, n \in Sockets :
        <<p, n>> \in toServer' <=> <<p, n>> \in toServer \/ (p = q /\ n = c)
  BY DEF StartOp, Send
<1>3. \A p \in Pages : carrier'[p] = IF p = q THEN c ELSE carrier[p]
  BY DEF StartOp, Send, SocketInv, Types
<1>4. \A p \in Pages : running'[p] <=> p = q \/ running[p]
  BY DEF StartOp, SocketInv, Types
<1>5. UNCHANGED <<socket, pending, toPage, operation>>
  BY DEF StartOp
<1> HIDE DEF c
<1>6. ToServerOK'
  BY <1>1, <1>2, <1>3, <1>4, <1>5
  DEF SocketInv, ToServerOK, OperationOK, ToPageOK, PendingOK, UnderWay
<1>7. OperationOK'
  BY <1>1, <1>2, <1>3, <1>4, <1>5
  DEF SocketInv, ToServerOK, OperationOK, ToPageOK, PendingOK, UnderWay
<1>8. ToPageOK'
  BY <1>1, <1>2, <1>3, <1>4, <1>5
  DEF SocketInv, ToServerOK, OperationOK, ToPageOK, PendingOK, UnderWay
<1>9. PendingOK'
  BY <1>1, <1>2, <1>3, <1>4, <1>5
  DEF SocketInv, ToServerOK, OperationOK, ToPageOK, PendingOK, UnderWay
<1>10. Accounted'
  <2> SUFFICES ASSUME NEW p \in Pages, running'[p], ~pending'[p]
               PROVE  \E n \in Sockets : n = carrier'[p] /\ Place(p, n)'
    BY DEF Accounted
  <2>1. CASE p = q
    BY <2>1, <1>1, <1>2, <1>3, <1>4, <1>5 DEF SocketInv, Place
  <2>2. CASE p # q
    <3>3. PICK n \in Sockets : n = carrier[p] /\ Place(p, n)
      BY <2>2, <1>1, <1>2, <1>3, <1>4, <1>5 DEF SocketInv, Accounted
    <3>4. n = carrier'[p]
      BY <2>2, <3>3, <1>1, <1>2, <1>3, <1>4, <1>5
    <3>5. Place(p, n)'
      BY <2>2, <3>3, <1>1, <1>2, <1>3, <1>4, <1>5 DEF Place, SocketInv, OperationOK
    <3> QED
      BY <3>4, <3>5
  <2> QED
    BY <2>1, <2>2
<1> QED
  BY <1>6, <1>7, <1>8, <1>9, <1>10 DEF SocketInv

(* startOp without a connection: the message waits.                        *)
LEMMA KeepStartPending ==
    ASSUME SocketInv, Types', NEW q \in Pages, StartOp(q), ~IsOpen(q)
    PROVE  SocketInv'
<1>1. ~running[q] /\ UNCHANGED <<toServer, toPage, operation>>
  BY DEF StartOp
<1>2. \A p \in Pages, n \in Sockets :
        socket[p][n] # "none" => socket'[p][n] = socket[p][n]
  BY ConnectKeeps DEF StartOp, SocketInv
<1>3. \A p \in Pages : carrier'[p] = IF p = q THEN 0 ELSE carrier[p]
  BY DEF StartOp, SocketInv, Types
<1>4. \A p \in Pages : running'[p] <=> p = q \/ running[p]
  BY DEF StartOp, SocketInv, Types
<1>5. \A p \in Pages : pending'[p] <=> p = q \/ pending[p]
  BY DEF StartOp, SocketInv, Types
<1>6. ToServerOK'
  BY <1>1, <1>2, <1>3, <1>4, <1>5
  DEF SocketInv, ToServerOK, OperationOK, ToPageOK, PendingOK, UnderWay
<1>7. OperationOK'
  BY <1>1, <1>2, <1>3, <1>4, <1>5
  DEF SocketInv, ToServerOK, OperationOK, ToPageOK, PendingOK, UnderWay
<1>8. ToPageOK'
  BY <1>1, <1>2, <1>3, <1>4, <1>5
  DEF SocketInv, ToServerOK, OperationOK, ToPageOK, PendingOK, UnderWay
<1>9. PendingOK'
  BY <1>1, <1>2, <1>3, <1>4, <1>5
  DEF SocketInv, ToServerOK, OperationOK, ToPageOK, PendingOK, UnderWay
<1>10. Accounted'
  <2> SUFFICES ASSUME NEW p \in Pages, running'[p], ~pending'[p]
               PROVE  \E n \in Sockets : n = carrier'[p] /\ Place(p, n)'
    BY DEF Accounted
  <2>1. CASE p = q
    BY <2>1, <1>1, <1>2, <1>3, <1>4, <1>5 DEF SocketInv, Place
  <2>2. CASE p # q
    <3>3. PICK n \in Sockets : n = carrier[p] /\ Place(p, n)
      BY <2>2, <1>1, <1>2, <1>3, <1>4, <1>5 DEF SocketInv, Accounted
    <3>4. n = carrier'[p]
      BY <2>2, <3>3, <1>1, <1>2, <1>3, <1>4, <1>5
    <3>5. Place(p, n)'
      BY <2>2, <3>3, <1>1, <1>2, <1>3, <1>4, <1>5 DEF Place, SocketInv, OperationOK
    <3> QED
      BY <3>4, <3>5
  <2> QED
    BY <2>1, <2>2
<1> QED
  BY <1>6, <1>7, <1>8, <1>9, <1>10 DEF SocketInv

(* The timer of ws.onclose.                                                *)
LEMMA KeepReconnect ==
    ASSUME SocketInv, Types', NEW q \in Pages, Reconnect(q)
    PROVE  SocketInv'
<1>1. UNCHANGED <<pending, running, carrier, toServer, toPage, operation>>
  BY DEF Reconnect
<1>2. \A p \in Pages, n \in Sockets :
        socket[p][n] # "none" => socket'[p][n] = socket[p][n]
  BY ConnectKeeps DEF Reconnect, SocketInv
<1>3. ToServerOK'
  BY <1>1, <1>2
  DEF SocketInv, ToServerOK, OperationOK, ToPageOK, PendingOK, UnderWay
<1>4. OperationOK'
  BY <1>1, <1>2
  DEF SocketInv, ToServerOK, OperationOK, ToPageOK, PendingOK, UnderWay
<1>5. ToPageOK'
  BY <1>1, <1>2
  DEF SocketInv, ToServerOK, OperationOK, ToPageOK, PendingOK, UnderWay
<1>6. PendingOK'
  BY <1>1, <1>2
  DEF SocketInv, ToServerOK, OperationOK, ToPageOK, PendingOK, UnderWay
<1>7. Accounted'
  <2> SUFFICES ASSUME NEW p \in Pages, running'[p], ~pending'[p]
               PROVE  \E n \in Sockets : n = carrier'[p] /\ Place(p, n)'
    BY DEF Accounted
  <2>3. PICK n \in Sockets : n = carrier[p] /\ Place(p, n)
    BY <1>1, <1>2 DEF SocketInv, Accounted
  <2>4. n = carrier'[p]
    BY <2>3, <1>1, <1>2
  <2>5. Place(p, n)'
    BY <2>3, <1>1, <1>2 DEF Place, SocketInv, OperationOK
  <2> QED
    BY <2>4, <2>5
<1> QED
  BY <1>3, <1>4, <1>5, <1>6, <1>7 DEF SocketInv

(* A socket opens; what waited is sent on it.                              *)
LEMMA KeepOnOpen ==
    ASSUME SocketInv, Types', NEW q \in Pages, NEW k \in Sockets, OnOpen(q, k)
    PROVE  SocketInv'
<1>1. \A p \in Pages, n \in Sockets :
        socket'[p][n] = IF p = q /\ n = k THEN "open" ELSE socket[p][n]
  BY DEF OnOpen, SocketInv, Types
<1>2. \A p \in Pages, n \in Sockets :
        <<p, n>> \in toServer'
          <=> <<p, n>> \in toServer \/ (pending[q] /\ p = q /\ n = k)
  BY DEF OnOpen, Send
<1>3. \A p \in Pages :
        carrier'[p] = IF p = q /\ pending[q] THEN k ELSE carrier[p]
  BY DEF OnOpen, Send, SocketInv, Types
<1>4. \A p \in Pages : pending'[p] <=> p # q /\ pending[p]
  BY DEF OnOpen, SocketInv, Types
<1>5. socket[q][k] = "connecting" /\ UNCHANGED <<running, toPage, operation>>
  BY DEF OnOpen
<1>6. ToServerOK'
  BY <1>1, <1>2, <1>3, <1>4, <1>5
  DEF SocketInv, ToServerOK, OperationOK, ToPageOK, PendingOK, UnderWay
<1>7. OperationOK'
  BY <1>1, <1>2, <1>3, <1>4, <1>5
  DEF SocketInv, ToServerOK, OperationOK, ToPageOK, PendingOK, UnderWay
<1>8. ToPageOK'
  BY <1>1, <1>2, <1>3, <1>4, <1>5
  DEF SocketInv, ToServerOK, OperationOK, ToPageOK, PendingOK, UnderWay
<1>9. PendingOK'
  BY <1>1, <1>2, <1>3, <1>4, <1>5
  DEF SocketInv, ToServerOK, OperationOK, ToPageOK, PendingOK, UnderWay
<1>10. Accounted'
  <2> SUFFICES ASSUME NEW p \in Pages, running'[p], ~pending'[p]
               PROVE  \E n \in Sockets : n = carrier'[p] /\ Place(p, n)'
    BY DEF Accounted
  <2>1. CASE p = q
    <3>1. CASE pending[q]
      BY <2>1, <3>1, <1>2, <1>3 DEF Place
    <3>2. CASE ~pending[q]
      <4>1. PICK n \in Sockets : n = carrier[p] /\ Place(p, n)
        BY <2>1, <3>2, <1>5 DEF SocketInv, Accounted
      <4>2. n = carrier'[p]
        BY <4>1, <3>2, <1>3
      <4>3. Place(p, n)'
        BY <4>1, <3>2, <1>1, <1>2, <1>5 DEF Place
      <4> QED
        BY <4>2, <4>3
    <3> QED
      BY <3>1, <3>2
  <2>2. CASE p # q
    <3>3. PICK n \in Sockets : n = carrier[p] /\ Place(p, n)
      BY <2>2, <1>1, <1>2, <1>3, <1>4, <1>5 DEF SocketInv, Accounted
    <3>4. n = carrier'[p]
      BY <2>2, <3>3, <1>1, <1>2, <1>3, <1>4, <1>5
    <3>5. Place(p, n)'
      BY <2>2, <3>3, <1>1, <1>2, <1>3, <1>4, <1>5 DEF Place, SocketInv, OperationOK
    <3> QED
      BY <3>4, <3>5
  <2> QED
    BY <2>1, <2>2
<1> QED
  BY <1>6, <1>7, <1>8, <1>9, <1>10 DEF SocketInv

(* The answer arrives and enables the page.                                *)
LEMMA KeepOnTerminal ==
    ASSUME SocketInv, Types', NEW q \in Pages, NEW k \in Sockets, OnTerminal(q, k)
    PROVE  SocketInv'
<1>1. PICK u \in Terminal :
        <<q, k, u>> \in toPage /\ toPage' = toPage \ {<<q, k, u>>}
  BY DEF OnTerminal, Terminal
<1>2. \A p \in Pages, n \in Sockets, t \in Terminal :
        <<p, n, t>> \in toPage'
          <=> <<p, n, t>> \in toPage /\ ~(p = q /\ n = k /\ t = u)
  BY <1>1
<1>3. \A p \in Pages : running'[p] <=> p # q /\ running[p]
  BY DEF OnTerminal, SocketInv, Types
<1>4. UNCHANGED <<socket, pending, carrier, toServer, operation>>
  BY DEF OnTerminal
<1>5. <<q, k, u>> \in toPage
  BY <1>1
<1>6. ToServerOK'
  BY <1>2, <1>3, <1>4, <1>5
  DEF SocketInv, ToServerOK, OperationOK, ToPageOK, PendingOK, UnderWay
<1>7. OperationOK'
  BY <1>2, <1>3, <1>4, <1>5
  DEF SocketInv, ToServerOK, OperationOK, ToPageOK, PendingOK, UnderWay
<1>8. ToPageOK'
  BY <1>2, <1>3, <1>4, <1>5
  DEF SocketInv, ToServerOK, OperationOK, ToPageOK, PendingOK, UnderWay
<1>9. PendingOK'
  BY <1>2, <1>3, <1>4, <1>5
  DEF SocketInv, ToServerOK, OperationOK, ToPageOK, PendingOK, UnderWay
<1>10. Accounted'
  <2> SUFFICES ASSUME NEW p \in Pages, running'[p], ~pending'[p]
               PROVE  \E n \in Sockets : n = carrier'[p] /\ Place(p, n)'
    BY DEF Accounted
  <2>1. CASE p = q
    BY <2>1, <1>2, <1>3, <1>4, <1>5 DEF SocketInv, Place
  <2>2. CASE p # q
    <3>3. PICK n \in Sockets : n = carrier[p] /\ Place(p, n)
      BY <2>2, <1>2, <1>3, <1>4, <1>5 DEF SocketInv, Accounted
    <3>4. n = carrier'[p]
      BY <2>2, <3>3, <1>2, <1>3, <1>4, <1>5
    <3>5. Place(p, n)'
      BY <2>2, <3>3, <1>2, <1>3, <1>4, <1>5 DEF Place, SocketInv, OperationOK
    <3> QED
      BY <3>4, <3>5
  <2> QED
    BY <2>1, <2>2
<1> QED
  BY <1>6, <1>7, <1>8, <1>9, <1>10 DEF SocketInv

(* A connection is lost with what was on it.                               *)
LEMMA KeepOnClose ==
    ASSUME SocketInv, Types', NEW q \in Pages, NEW k \in Sockets, OnClose(q, k)
    PROVE  SocketInv'
<1>1. \A p \in Pages, n \in Sockets :
        socket'[p][n] = IF p = q /\ n = k THEN "closed" ELSE socket[p][n]
  BY DEF OnClose, SocketInv, Types
<1>2. \A p \in Pages, n \in Sockets :
        <<p, n>> \in toServer' <=> <<p, n>> \in toServer /\ ~(p = q /\ n = k)
  BY DEF OnClose
<1>3. \A p \in Pages, n \in Sockets, t \in Terminal :
        <<p, n, t>> \in toPage' <=> <<p, n, t>> \in toPage /\ ~(p = q /\ n = k)
  BY DEF OnClose
<1>4. UNCHANGED <<pending, running, carrier, operation>>
  BY DEF OnClose
<1>5. ToServerOK'
  BY <1>1, <1>2, <1>3, <1>4
  DEF SocketInv, ToServerOK, OperationOK, ToPageOK, PendingOK, UnderWay
<1>6. OperationOK'
  BY <1>1, <1>2, <1>3, <1>4
  DEF SocketInv, ToServerOK, OperationOK, ToPageOK, PendingOK, UnderWay
<1>7. ToPageOK'
  BY <1>1, <1>2, <1>3, <1>4
  DEF SocketInv, ToServerOK, OperationOK, ToPageOK, PendingOK, UnderWay
<1>8. PendingOK'
  BY <1>1, <1>2, <1>3, <1>4
  DEF SocketInv, ToServerOK, OperationOK, ToPageOK, PendingOK, UnderWay
<1>9. Accounted'
  <2> SUFFICES ASSUME NEW p \in Pages, running'[p], ~pending'[p]
               PROVE  \E n \in Sockets : n = carrier'[p] /\ Place(p, n)'
    BY DEF Accounted
  <2>3. PICK n \in Sockets : n = carrier[p] /\ Place(p, n)
    BY <1>1, <1>2, <1>3, <1>4 DEF SocketInv, Accounted
  <2>4. n = carrier'[p]
    BY <2>3, <1>1, <1>2, <1>3, <1>4
  <2>5. Place(p, n)'
    BY <2>3, <1>1, <1>2, <1>3, <1>4 DEF Place, SocketInv, OperationOK
  <2> QED
    BY <2>4, <2>5
<1> QED
  BY <1>5, <1>6, <1>7, <1>8, <1>9 DEF SocketInv

(* The server takes a message: busy, or its operation begins.              *)
LEMMA KeepOnMessage ==
    ASSUME SocketInv, Types', NEW q \in Pages, NEW k \in Sockets, OnMessage(q, k)
    PROVE  SocketInv'
<1>1. /\ <<q, k>> \in toServer /\ socket[q][k] = "open"
      /\ UNCHANGED <<socket, pending, running, carrier>>
  BY DEF OnMessage, SocketInv, ToServerOK
<1>2. \A p \in Pages, n \in Sockets :
        <<p, n>> \in toServer' <=> <<p, n>> \in toServer /\ ~(p = q /\ n = k)
  BY DEF OnMessage
<1>3. CASE operation # NoOp
  <2>1. operation' = operation
    BY <1>3 DEF OnMessage
  <2>2. \A p \in Pages, n \in Sockets, t \in Terminal :
          <<p, n, t>> \in toPage'
            <=> <<p, n, t>> \in toPage \/ (p = q /\ n = k /\ t = "busy")
    BY <1>1, <1>3 DEF OnMessage, SafeSend
  <2>6. "busy" \in Terminal
    BY DEF Terminal
  <2>7. ToServerOK'
    BY <1>1, <1>2, <2>1, <2>2, <2>6
    DEF SocketInv, ToServerOK, OperationOK, ToPageOK, PendingOK, UnderWay
  <2>8. OperationOK'
    BY <1>1, <1>2, <2>1, <2>2, <2>6
    DEF SocketInv, ToServerOK, OperationOK, ToPageOK, PendingOK, UnderWay
  <2>9. ToPageOK'
    BY <1>1, <1>2, <2>1, <2>2, <2>6
    DEF SocketInv, ToServerOK, OperationOK, ToPageOK, PendingOK, UnderWay
  <2>10. PendingOK'
    BY <1>1, <1>2, <2>1, <2>2, <2>6
    DEF SocketInv, ToServerOK, OperationOK, ToPageOK, PendingOK, UnderWay
  <2>11. Accounted'
    <3> SUFFICES ASSUME NEW p \in Pages, running'[p], ~pending'[p]
                 PROVE  \E n \in Sockets : n = carrier'[p] /\ Place(p, n)'
      BY DEF Accounted
    <3>3. PICK n \in Sockets : n = carrier[p] /\ Place(p, n)
      BY <1>1, <1>2, <2>1, <2>2, <2>6 DEF SocketInv, Accounted
    <3>4. n = carrier'[p]
      BY <3>3, <1>1, <1>2, <2>1, <2>2, <2>6
    <3>5. Place(p, n)'
      BY <3>3, <1>1, <1>2, <2>1, <2>2, <2>6 DEF Place, SocketInv, OperationOK
    <3> QED
      BY <3>4, <3>5
  <2> QED
    BY <2>7, <2>8, <2>9, <2>10, <2>11 DEF SocketInv
<1>4. CASE operation = NoOp
  <2>1. operation' = <<q, k>> /\ toPage' = toPage
    BY <1>4 DEF OnMessage
  <2>2. \A p \in Pages, n \in Sockets : operation' = <<p, n>> <=> p = q /\ n = k
    BY <2>1
  <2>3. \A p \in Pages, n \in Sockets : operation # <<p, n>>
    BY <1>4 DEF NoOp
  <2>4. ToServerOK'
    BY <1>1, <1>2, <2>1, <2>2, <2>3
    DEF SocketInv, ToServerOK, OperationOK, ToPageOK, PendingOK, UnderWay
  <2>5. OperationOK'
    BY <1>1, <1>2, <2>1, <2>2, <2>3
    DEF SocketInv, ToServerOK, OperationOK, ToPageOK, PendingOK, UnderWay
  <2>6. ToPageOK'
    BY <1>1, <1>2, <2>1, <2>2, <2>3
    DEF SocketInv, ToServerOK, OperationOK, ToPageOK, PendingOK, UnderWay
  <2>7. PendingOK'
    BY <1>1, <1>2, <2>1, <2>2, <2>3
    DEF SocketInv, ToServerOK, OperationOK, ToPageOK, PendingOK, UnderWay
  <2>8. Accounted'
    <3> SUFFICES ASSUME NEW p \in Pages, running'[p], ~pending'[p]
                 PROVE  \E n \in Sockets : n = carrier'[p] /\ Place(p, n)'
      BY DEF Accounted
    <3>3. PICK n \in Sockets : n = carrier[p] /\ Place(p, n)
      BY <1>1, <1>2, <2>1, <2>2, <2>3 DEF SocketInv, Accounted
    <3>4. n = carrier'[p]
      BY <3>3, <1>1, <1>2, <2>1, <2>2, <2>3
    <3>5. Place(p, n)'
      BY <3>3, <1>1, <1>2, <2>1, <2>2, <2>3 DEF Place, SocketInv, OperationOK
    <3> QED
      BY <3>4, <3>5
  <2> QED
    BY <2>4, <2>5, <2>6, <2>7, <2>8 DEF SocketInv
<1> QED
  BY <1>3, <1>4

(* The operation ends; its answer is sent when the socket is still open.   *)
LEMMA KeepHandle ==
    ASSUME SocketInv, Types', HandleWsOperation
    PROVE  SocketInv'
<1>1. PICK q \in Pages, k \in Sockets : operation = <<q, k>>
  BY DEF HandleWsOperation, SocketInv, Types
<1>2. PICK u \in Terminal :
        toPage' = IF socket[q][k] = "open" THEN toPage \cup {<<q, k, u>>} ELSE toPage
  BY <1>1 DEF HandleWsOperation, SafeSend, Terminal
<1>3. \A p \in Pages, n \in Sockets, t \in Terminal :
        <<p, n, t>> \in toPage'
          <=> \/ <<p, n, t>> \in toPage
              \/ socket[q][k] = "open" /\ p = q /\ n = k /\ t = u
  BY <1>2
<1>4. \A p \in Pages, n \in Sockets : operation = <<p, n>> <=> p = q /\ n = k
  BY <1>1
<1>5. \A p \in Pages, n \in Sockets : operation' # <<p, n>>
  BY DEF HandleWsOperation, NoOp
<1>6. UNCHANGED <<socket, pending, running, carrier, toServer>>
  BY DEF HandleWsOperation
<1>7. ToServerOK'
  BY <1>3, <1>4, <1>5, <1>6
  DEF SocketInv, ToServerOK, OperationOK, ToPageOK, PendingOK, UnderWay
<1>8. OperationOK'
  BY <1>3, <1>4, <1>5, <1>6
  DEF SocketInv, ToServerOK, OperationOK, ToPageOK, PendingOK, UnderWay
<1>9. ToPageOK'
  BY <1>3, <1>4, <1>5, <1>6
  DEF SocketInv, ToServerOK, OperationOK, ToPageOK, PendingOK, UnderWay
<1>10. PendingOK'
  BY <1>3, <1>4, <1>5, <1>6
  DEF SocketInv, ToServerOK, OperationOK, ToPageOK, PendingOK, UnderWay
<1>11. Accounted'
  <2> SUFFICES ASSUME NEW p \in Pages, running'[p], ~pending'[p]
               PROVE  \E n \in Sockets : n = carrier'[p] /\ Place(p, n)'
    BY DEF Accounted
  <2>3. PICK n \in Sockets : n = carrier[p] /\ Place(p, n)
    BY <1>3, <1>4, <1>5, <1>6 DEF SocketInv, Accounted
  <2>4. n = carrier'[p]
    BY <2>3, <1>3, <1>4, <1>5, <1>6
  <2>5. Place(p, n)'
    BY <2>3, <1>3, <1>4, <1>5, <1>6 DEF Place, SocketInv, OperationOK
  <2> QED
    BY <2>4, <2>5
<1> QED
  BY <1>7, <1>8, <1>9, <1>10, <1>11 DEF SocketInv

(***************************************************************************)
(* Every step keeps the invariant.                                         *)
(***************************************************************************)
LEMMA IInvStep ==
    ASSUME SocketInv, [SocketNext]_socketVars
    PROVE  SocketInv'
<1>1. Types'
  BY TypesStep DEF SocketInv
<1>2. CASE UNCHANGED socketVars
  <2>1. /\ ToServerOK' /\ OperationOK' /\ ToPageOK' /\ PendingOK'
    BY <1>2 DEF socketVars, SocketInv, ToServerOK, OperationOK, ToPageOK,
                PendingOK, UnderWay
  <2>2. Accounted'
    BY <1>2 DEF socketVars, SocketInv, Accounted, Place
  <2> QED
    BY <1>1, <2>1, <2>2 DEF SocketInv
<1> QED
  BY <1>1, <1>2, KeepStartOpen, KeepStartPending, KeepReconnect, KeepOnOpen,
     KeepOnTerminal, KeepOnClose, KeepOnMessage, KeepHandle DEF SocketNext

-----------------------------------------------------------------------------
(* A set without two different members has at most one.                    *)
LEMMA AtMostOne ==
    ASSUME NEW S, \A x, y \in S : x = y
    PROVE  Cardinality(S) \in Nat /\ Cardinality(S) <= 1
<1>1. CASE S = {}
  BY <1>1, FS_EmptySet
<1>2. CASE S # {}
  <2>1. PICK x \in S : TRUE
    BY <1>2
  <2>2. S = {x}
    BY <2>1
  <2> QED
    BY <2>2, FS_Singleton
<1> QED
  BY <1>1, <1>2

(***************************************************************************)
(* The invariant says where an operation is, and so that it is never lost  *)
(* and sent by one socket only.                                            *)
(***************************************************************************)
LEMMA IInvAccounted == SocketInv => OperationAccounted
<1> SUFFICES ASSUME SocketInv PROVE OperationAccounted
  OBVIOUS
<1>1. SocketTypeOK
  <2>1. \A p \in Pages : current[p] \in 0..MaxSockets
    BY DEF SocketInv, Types
  <2>2. \A m \in toServer : socket[m[1]][m[2]] = "open"
    BY DEF SocketInv, Types, ToServerOK
  <2>3. \A m \in toPage : socket[m[1]][m[2]] = "open"
    BY DEF SocketInv, Types, ToPageOK
  <2> QED
    BY <2>1, <2>2, <2>3 DEF SocketInv, Types, SocketTypeOK
<1>2. SentOnce
  <2> SUFFICES ASSUME NEW p \in Pages
               PROVE  Cardinality({n \in Sockets : <<p, n>> \in toServer})
                        + (IF pending[p] THEN 1 ELSE 0) <= 1
    BY DEF SentOnce
  <2> DEFINE S == {n \in Sockets : <<p, n>> \in toServer}
  <2>1. \A x, y \in S : x = y
    BY DEF SocketInv, ToServerOK, UnderWay
  <2>2. CASE pending[p]
    <3>1. S = {}
      BY <2>2 DEF SocketInv, ToServerOK, UnderWay
    <3>2. Cardinality(S) = 0
      BY <3>1, FS_EmptySet
    <3> QED
      BY <3>2, <2>2
  <2>3. CASE ~pending[p]
    <3>1. Cardinality(S) \in Nat /\ Cardinality(S) <= 1
      BY <2>1, AtMostOne
    <3> QED
      BY <3>1, <2>3
  <2> QED
    BY <2>2, <2>3
<1>3. ASSUME NEW p \in Pages, running[p]
      PROVE  Owed(p) \/ (carrier[p] # 0 /\ socket[p][carrier[p]] = "closed")
  <2>1. CASE pending[p]
    BY <2>1 DEF Owed
  <2>2. CASE ~pending[p]
    <3>1. PICK n \in Sockets : n = carrier[p] /\ Place(p, n)
      BY <1>3, <2>2 DEF SocketInv, Accounted
    <3>2. n # 0
      BY SocketBounds DEF Sockets
    <3>3. ASSUME NEW t \in Terminal, <<p, n, t>> \in toPage
          PROVE  \E m \in toPage : m[1] = p /\ m[2] = n
      BY <3>3
    <3> QED
      BY <3>1, <3>2, <3>3 DEF Place, Owed
  <2> QED
    BY <2>1, <2>2
<1> QED
  BY <1>1, <1>2, <1>3 DEF OperationAccounted

(***************************************************************************)
(* An operation started from a page is waiting for a connection, on its    *)
(* way, in the server or on its way back, or the socket that carried it    *)
(* broke; a page never sends it twice, although several of its sockets may *)
(* be connecting when ws.onopen sends what waited.                         *)
(***************************************************************************)
THEOREM OperationsAreAccounted == SocketSpec => []OperationAccounted
<1>1. SocketInv /\ [SocketNext]_socketVars => SocketInv'
  BY IInvStep
<1> QED
  BY IInvInit, <1>1, IInvAccounted, PTL DEF SocketSpec
=============================================================================
