------------------------ MODULE FileToFileFlowProofs ------------------------
(***************************************************************************)
(* Where the frames are: for every video, every size of the buffers, every *)
(* order in which evaluations end and every interleaving of the threads,   *)
(* no two results of a stage have the same number, and none is lost as     *)
(* long as only opening files may fail.                                    *)
(*                                                                         *)
(* The properties (NoNumberTwice, NoFrameLost) are not inductive: why the  *)
(* number of the next result is new depends on the counters of the source  *)
(* and of the inter-frame stage, on the order of the frames in the queue   *)
(* of the thread, on the frame that the inter-frame stage keeps between    *)
(* two rounds, and on there being one flush frame, which has the last      *)
(* number. The invariant FlowInv says this of each stage:                  *)
(*  - the frames on their way to it are numbered without a gap and in      *)
(*    order, from what it has taken on to what was handed to it (Stream);  *)
(*  - each number below is that of one evaluation, or of one result on its *)
(*    way, or known to the handler (Balanced), and of one of them if       *)
(*    nothing fails (Complete);                                            *)
(*  - the buffer of the inter-frame stage and its two counters belong to   *)
(*    the last frame that it took (Buffered).                              *)
(* ScriptsInv adds that no evaluation fails for want of its script then.   *)
(* FlowInv is FlowWith({}): the same is shown of FlowWith(L), which counts *)
(* evaluations L that have failed as if they went on (Pending).            *)
(*                                                                         *)
(* The first parts are about queues and handlers only. Then each operation *)
(* of a stage is followed from the leaf of its calls to the root, and each *)
(* job of a thread is shown to keep the invariant.                         *)
(***************************************************************************)
EXTENDS FileToFileProofs

-----------------------------------------------------------------------------
(* Part 1: frames in queues of calls.                                      *)

(* The frames that the calls M carry in the queue q, by their numbers, and *)
(* that they are the frames from .. to - 1 of A, in this order.            *)
Carried(q, M) ==
    {n \in Nat : \E i \in DOMAIN q : q[i] \in M /\ \E k \in DOMAIN q[i].load : q[i].load[k].number = n}

Ascending(q, M) ==
    \A i, j \in DOMAIN q : q[i] \in M /\ q[j] \in M =>
        \A k \in DOMAIN q[i].load, l \in DOMAIN q[j].load :
            i < j \/ (i = j /\ k < l) => q[i].load[k].number < q[j].load[l].number

Loaded(q, M, A) == \A i \in DOMAIN q : q[i] \in M => Range(q[i].load) \subseteq A

Stream(q, M, from, to, A) ==
    /\ from \in Nat /\ to \in Nat /\ from <= to
    /\ Carried(q, M) = from .. to - 1
    /\ Ascending(q, M)
    /\ Loaded(q, M, A)

(* One load is such a part of a stream.                                    *)
Batch(load, from, to, A) ==
    /\ from \in Nat /\ to \in Nat /\ from <= to
    /\ NumbersOf(Range(load)) = from .. to - 1
    /\ \A k, l \in DOMAIN load : k < l => load[k].number < load[l].number
    /\ Range(load) \subseteq A

(* The queues of the threads, one behind the other.                        *)
LEMMA ConcatPlaces ==
    ASSUME NEW S, NEW a \in Seq(S), NEW b \in Seq(S)
    PROVE  /\ Len(a) \in Nat /\ Len(b) \in Nat /\ DOMAIN a = 1 .. Len(a) /\ DOMAIN b = 1 .. Len(b)
           /\ DOMAIN (a \o b) = 1 .. Len(a) + Len(b)
           /\ \A i \in 1 .. Len(a) : (a \o b)[i] = a[i]
           /\ \A i \in 1 .. Len(b) : (a \o b)[Len(a) + i] = b[i]
           /\ \A i \in DOMAIN (a \o b) :
                 \/ i \in DOMAIN a /\ (a \o b)[i] = a[i]
                 \/ i - Len(a) \in DOMAIN b /\ (a \o b)[i] = b[i - Len(a)]
<1> DEFINE q == a \o b
           m == Len(a)
<1>1. /\ m \in Nat /\ Len(b) \in Nat /\ DOMAIN a = 1 .. m /\ DOMAIN b = 1 .. Len(b)
      /\ DOMAIN q = 1 .. m + Len(b)
      /\ \A i \in 1 .. m : q[i] = a[i]
      /\ \A i \in 1 .. Len(b) : q[m + i] = b[i]
  OBVIOUS
<1> HIDE DEF q, m
<1>2. \A i \in DOMAIN q : (i \in DOMAIN a /\ q[i] = a[i]) \/ (i - m \in DOMAIN b /\ q[i] = b[i - m])
  <2> SUFFICES ASSUME NEW i \in DOMAIN q, i \notin DOMAIN a
               PROVE  i - m \in 1 .. Len(b) /\ q[i] = b[i - m]
    BY <1>1
  <2>1. i - m \in 1 .. Len(b) /\ m + (i - m) = i
    BY <1>1
  <2> QED BY <1>1, <2>1
<1> QED BY <1>1, <1>2 DEF q, m

(* What is carried in both, and in their order.                            *)
LEMMA CarriedConcat ==
    ASSUME NEW S, NEW a \in Seq(S), NEW b \in Seq(S), NEW M
    PROVE  /\ Carried(a \o b, M) = Carried(a, M) \union Carried(b, M)
           /\ \A A : Loaded(a \o b, M, A) <=> Loaded(a, M, A) /\ Loaded(b, M, A)
           /\ Ascending(a \o b, M) <=>
                 /\ Ascending(a, M) /\ Ascending(b, M)
                 /\ \A i \in DOMAIN a, j \in DOMAIN b : a[i] \in M /\ b[j] \in M =>
                       \A k \in DOMAIN a[i].load, l \in DOMAIN b[j].load :
                           a[i].load[k].number < b[j].load[l].number
<1> DEFINE q == a \o b
           m == Len(a)
<1>1. /\ m \in Nat /\ Len(b) \in Nat /\ DOMAIN a = 1 .. m /\ DOMAIN b = 1 .. Len(b)
      /\ DOMAIN q = 1 .. m + Len(b)
      /\ \A i \in 1 .. m : i \in DOMAIN q /\ q[i] = a[i]
      /\ \A i \in 1 .. Len(b) : m + i \in DOMAIN q /\ q[m + i] = b[i]
      /\ \A i \in DOMAIN q : \/ i \in DOMAIN a /\ q[i] = a[i]
                             \/ i - m \in DOMAIN b /\ q[i] = b[i - m]
  BY ConcatPlaces
<1> HIDE DEF q, m
<1>2. Carried(q, M) = Carried(a, M) \union Carried(b, M)
  <2>1. Carried(q, M) \subseteq Carried(a, M) \union Carried(b, M)
    BY <1>1 DEF Carried
  <2>2. Carried(a, M) \subseteq Carried(q, M)
    BY <1>1 DEF Carried
  <2>3. Carried(b, M) \subseteq Carried(q, M)
    BY <1>1 DEF Carried
  <2> QED BY <2>1, <2>2, <2>3
<1>3. ASSUME NEW A PROVE Loaded(q, M, A) <=> Loaded(a, M, A) /\ Loaded(b, M, A)
  <2>1. Loaded(q, M, A) => Loaded(a, M, A)
    BY <1>1 DEF Loaded
  <2>2. Loaded(q, M, A) => Loaded(b, M, A)
    BY <1>1 DEF Loaded
  <2>3. Loaded(a, M, A) /\ Loaded(b, M, A) => Loaded(q, M, A)
    BY <1>1 DEF Loaded
  <2> QED BY <2>1, <2>2, <2>3
<1> DEFINE Across == \A i \in DOMAIN a, j \in DOMAIN b : a[i] \in M /\ b[j] \in M =>
                         \A k \in DOMAIN a[i].load, l \in DOMAIN b[j].load :
                             a[i].load[k].number < b[j].load[l].number
<1>4. ASSUME Ascending(q, M) PROVE Ascending(a, M) /\ Ascending(b, M) /\ Across
  <2>1. Ascending(a, M)
    BY <1>1, <1>4 DEF Ascending
  <2>2. Ascending(b, M)
    <3> SUFFICES ASSUME NEW i \in DOMAIN b, NEW j \in DOMAIN b, b[i] \in M, b[j] \in M,
                        NEW k \in DOMAIN b[i].load, NEW l \in DOMAIN b[j].load,
                        i < j \/ (i = j /\ k < l)
                 PROVE  b[i].load[k].number < b[j].load[l].number
      BY DEF Ascending
    <3>1. /\ m + i \in DOMAIN q /\ q[m + i] = b[i]
          /\ m + j \in DOMAIN q /\ q[m + j] = b[j]
          /\ (m + i < m + j \/ (m + i = m + j /\ k < l))
      BY <1>1
    <3> QED BY <3>1, <1>4 DEF Ascending
  <2>3. Across
    <3> SUFFICES ASSUME NEW i \in DOMAIN a, NEW j \in DOMAIN b, a[i] \in M, b[j] \in M,
                        NEW k \in DOMAIN a[i].load, NEW l \in DOMAIN b[j].load
                 PROVE  a[i].load[k].number < b[j].load[l].number
      OBVIOUS
    <3>1. /\ i \in DOMAIN q /\ q[i] = a[i]
          /\ m + j \in DOMAIN q /\ q[m + j] = b[j]
          /\ i < m + j
      BY <1>1
    <3> QED BY <3>1, <1>4 DEF Ascending
  <2> QED BY <2>1, <2>2, <2>3
<1>5. ASSUME Ascending(a, M), Ascending(b, M), Across PROVE Ascending(q, M)
  <2> SUFFICES ASSUME NEW i \in DOMAIN q, NEW j \in DOMAIN q, q[i] \in M, q[j] \in M,
                      NEW k \in DOMAIN q[i].load, NEW l \in DOMAIN q[j].load,
                      i < j \/ (i = j /\ k < l)
               PROVE  q[i].load[k].number < q[j].load[l].number
    BY DEF Ascending
  <2>1. CASE i \in DOMAIN a /\ j \in DOMAIN a
    BY <1>1, <1>5, <2>1 DEF Ascending
  <2>2. CASE i \notin DOMAIN a /\ j \notin DOMAIN a
    <3>1. /\ i - m \in DOMAIN b /\ q[i] = b[i - m] /\ j - m \in DOMAIN b /\ q[j] = b[j - m]
          /\ (i - m < j - m \/ (i - m = j - m /\ k < l))
      BY <1>1, <2>2
    <3> QED BY <3>1, <1>5 DEF Ascending
  <2>3. CASE i \in DOMAIN a /\ j \notin DOMAIN a
    <3>1. q[i] = a[i] /\ j - m \in DOMAIN b /\ q[j] = b[j - m]
      BY <1>1, <2>3
    <3> QED BY <2>3, <3>1, <1>5
  <2>4. CASE i \notin DOMAIN a /\ j \in DOMAIN a
    BY <1>1, <2>4
  <2> QED BY <2>1, <2>2, <2>3, <2>4
<1> QED BY <1>2, <1>3, <1>4, <1>5 DEF q

(* One part of a stream behind the other.                                  *)
LEMMA StreamConcat ==
    ASSUME NEW S, NEW a \in Seq(S), NEW b \in Seq(S), NEW M, NEW x, NEW y, NEW z, NEW A,
           \A f \in A : f.number \in Nat,
           Stream(a, M, x, y, A), Stream(b, M, y, z, A)
    PROVE  Stream(a \o b, M, x, z, A)
<1>1. /\ x \in Nat /\ y \in Nat /\ z \in Nat /\ x <= y /\ y <= z
      /\ Carried(a, M) = x .. y - 1 /\ Carried(b, M) = y .. z - 1
  BY DEF Stream
<1>2. Carried(a \o b, M) = x .. z - 1
  <2>1. x .. z - 1 = (x .. y - 1) \union (y .. z - 1)
    BY <1>1
  <2>2. Carried(a \o b, M) = Carried(a, M) \union Carried(b, M)
    BY CarriedConcat
  <2> QED BY <1>1, <2>1, <2>2
<1>3. Loaded(a \o b, M, A)
  BY CarriedConcat DEF Stream
<1>4. ASSUME NEW i \in DOMAIN a, NEW j \in DOMAIN b, a[i] \in M, b[j] \in M,
             NEW k \in DOMAIN a[i].load, NEW l \in DOMAIN b[j].load
      PROVE  a[i].load[k].number < b[j].load[l].number
  <2>1. a[i].load[k] \in A /\ b[j].load[l] \in A
    BY <1>4 DEF Stream, Loaded, Range
  <2>2. a[i].load[k].number \in Carried(a, M) /\ b[j].load[l].number \in Carried(b, M)
    BY <1>4, <2>1 DEF Carried
  <2> QED BY <1>1, <2>2
<1>5. Ascending(a \o b, M)
  <2>1. Ascending(a, M) /\ Ascending(b, M)
    BY DEF Stream
  <2> QED BY <1>4, <2>1, CarriedConcat
<1> QED BY <1>1, <1>2, <1>3, <1>5 DEF Stream

(* Calls of other operations carry nothing.                                *)
LEMMA SilentStream ==
    ASSUME NEW q, NEW M, \A i \in DOMAIN q : q[i] \notin M
    PROVE  /\ Carried(q, M) = {}
           /\ \A n \in Nat : \A A : Stream(q, M, n, n, A)
<1>1. Carried(q, M) = {} /\ Ascending(q, M) /\ \A A : Loaded(q, M, A)
  BY DEF Carried, Ascending, Loaded
<1>2. \A n \in Nat : n .. n - 1 = {}
  OBVIOUS
<1> QED BY <1>1, <1>2 DEF Stream

(* A queue of one call.                                                    *)
LEMMA SingleStream ==
    ASSUME NEW m, NEW M, m \in M, NEW A, \A f \in A : f.number \in Nat, NEW x, NEW y
    PROVE  Stream(<<m>>, M, x, y, A) <=> Batch(m.load, x, y, A)
<1>1. DOMAIN <<m>> = {1} /\ <<m>>[1] = m
  OBVIOUS
<1>2. ASSUME Range(m.load) \subseteq A
      PROVE  Carried(<<m>>, M) = NumbersOf(Range(m.load))
  <2>1. \A k \in DOMAIN m.load : m.load[k].number \in Nat
    BY <1>2 DEF Range
  <2>2. Carried(<<m>>, M) = {n \in Nat : \E k \in DOMAIN m.load : m.load[k].number = n}
    BY <1>1 DEF Carried
  <2> QED BY <2>1, <2>2 DEF NumbersOf, Range
<1>3. Loaded(<<m>>, M, A) <=> Range(m.load) \subseteq A
  BY <1>1 DEF Loaded
<1>4. Ascending(<<m>>, M) <=> \A k, l \in DOMAIN m.load : k < l => m.load[k].number < m.load[l].number
  BY <1>1 DEF Ascending
<1> QED BY <1>2, <1>3, <1>4 DEF Stream, Batch

(* The first call of a queue and the rest.                                 *)
LEMMA HeadAndTail ==
    ASSUME NEW S, NEW q \in Seq(S), q # <<>>
    PROVE  /\ Head(q) \in S /\ <<Head(q)>> \in Seq(S) /\ Tail(q) \in Seq(S)
           /\ q = <<Head(q)>> \o Tail(q)
<1>1. Head(q) \in S /\ <<Head(q)>> \in Seq(S) /\ Tail(q) \in Seq(S)
  OBVIOUS
<1>2. /\ Len(q) \in Nat \ {0} /\ Len(Tail(q)) = Len(q) - 1 /\ Head(q) = q[1]
      /\ \A i \in 1 .. Len(q) - 1 : Tail(q)[i] = q[i + 1]
  OBVIOUS
<1>3. ASSUME NEW i \in 1 .. Len(q) PROVE (<<Head(q)>> \o Tail(q))[i] = q[i]
  <2>1. CASE i = 1
    BY <1>1, <1>2, <2>1
  <2>2. CASE i # 1
    <3>1. i - 1 \in 1 .. Len(q) - 1
      BY <1>2, <2>2
    <3>2. (<<Head(q)>> \o Tail(q))[i] = Tail(q)[i - 1]
      BY <1>1, <1>2, <3>1
    <3>3. Tail(q)[i - 1] = q[(i - 1) + 1]
      BY <1>2, <3>1
    <3> QED BY <3>2, <3>3
  <2> QED BY <2>1, <2>2
<1>4. Len(<<Head(q)>> \o Tail(q)) = Len(q)
  BY <1>1, <1>2
<1> QED BY <1>1, <1>3, <1>4

(* When another call is the first one, the stream is in the rest.          *)
LEMMA StreamPassed ==
    ASSUME NEW S, NEW q \in Seq(S), q # <<>>, NEW M, Head(q) \notin M
    PROVE  /\ Carried(Tail(q), M) = Carried(q, M)
           /\ \A x, z, A : Stream(q, M, x, z, A) => Stream(Tail(q), M, x, z, A)
<1> DEFINE h == <<Head(q)>>
           r == Tail(q)
<1>1. h \in Seq(S) /\ r \in Seq(S) /\ q = h \o r
  BY HeadAndTail
<1>2. \A i \in DOMAIN h : h[i] \notin M
  OBVIOUS
<1> HIDE DEF h, r
<1>3. Carried(h, M) = {}
  BY <1>2, SilentStream
<1>4. /\ Carried(h \o r, M) = Carried(h, M) \union Carried(r, M)
      /\ \A A : Loaded(h \o r, M, A) => Loaded(r, M, A)
      /\ Ascending(h \o r, M) => Ascending(r, M)
  BY <1>1, CarriedConcat
<1>5. \A x, z, A : Stream(h \o r, M, x, z, A) => Stream(r, M, x, z, A)
  BY <1>3, <1>4 DEF Stream
<1> QED BY <1>1, <1>3, <1>4, <1>5 DEF r

(* Else it carries the next frames of the stream.                          *)
LEMMA StreamTaken ==
    ASSUME NEW S, NEW q \in Seq(S), q # <<>>, NEW M, Head(q) \in M,
           NEW A, \A f \in A : f.number \in Nat, NEW x, NEW z, Stream(q, M, x, z, A)
    PROVE  \E y \in x .. z : Batch(Head(q).load, x, y, A) /\ Stream(Tail(q), M, y, z, A)
<1> DEFINE h == <<Head(q)>>
           r == Tail(q)
<1>1. h \in Seq(S) /\ r \in Seq(S) /\ q = h \o r /\ h[1] = Head(q) /\ 1 \in DOMAIN h
  BY HeadAndTail
<1> HIDE DEF h, r
<1>2. /\ Carried(q, M) = Carried(h, M) \union Carried(r, M)
      /\ Loaded(h, M, A) /\ Loaded(r, M, A)
      /\ Ascending(h, M) /\ Ascending(r, M)
      /\ \A i \in DOMAIN h, j \in DOMAIN r : h[i] \in M /\ r[j] \in M =>
            \A k \in DOMAIN h[i].load, l \in DOMAIN r[j].load :
                h[i].load[k].number < r[j].load[l].number
  BY <1>1, CarriedConcat DEF Stream
<1>3. /\ x \in Nat /\ z \in Nat /\ x <= z /\ Carried(q, M) = x .. z - 1
  BY DEF Stream
<1>4. ASSUME NEW m \in Carried(h, M), NEW n \in Carried(r, M) PROVE m < n
  BY <1>2 DEF Carried
<1>5. \E y \in x .. z : Carried(h, M) = x .. y - 1 /\ Carried(r, M) = y .. z - 1
  <2>1. Carried(h, M) \union Carried(r, M) = x .. z - 1
    BY <1>2, <1>3
  <2>2. CASE Carried(r, M) = {}
    <3>1. Carried(h, M) = x .. z - 1 /\ z .. z - 1 = {}
      BY <1>3, <2>1, <2>2
    <3> QED BY <1>3, <2>2, <3>1
  <2>3. CASE Carried(r, M) # {}
    <3>1. Carried(r, M) \in SUBSET Nat
      BY DEF Carried
    <3> DEFINE y == Min(Carried(r, M))
    <3>2. y \in Carried(r, M) /\ \A n \in Carried(r, M) : y <= n
      BY <2>3, <3>1, MinOfNumbers
    <3> HIDE DEF y
    <3>3. y \in x .. z - 1
      BY <2>1, <3>2
    <3>4. Carried(r, M) = y .. z - 1
      <4>1. \A n \in y .. z - 1 : n \in Carried(h, M) => n < y
        BY <1>4, <3>2
      <4>2. \A n \in y .. z - 1 : n \in x .. z - 1 /\ ~(n < y)
        BY <1>3, <3>3
      <4>3. y .. z - 1 \subseteq Carried(r, M)
        BY <2>1, <4>1, <4>2
      <4>4. Carried(r, M) \subseteq y .. z - 1
        BY <1>3, <2>1, <3>1, <3>2, <3>3
      <4> QED BY <4>3, <4>4
    <3>5. Carried(h, M) = x .. y - 1
      <4>1. Carried(h, M) \subseteq x .. y - 1
        BY <1>3, <1>4, <2>1, <3>2, <3>3
      <4>2. \A n \in x .. y - 1 : n \in x .. z - 1 /\ n \notin y .. z - 1
        BY <1>3, <3>3
      <4>3. x .. y - 1 \subseteq Carried(h, M)
        BY <2>1, <3>4, <4>2
      <4> QED BY <4>1, <4>3
    <3>6. y \in x .. z
      BY <1>3, <3>3
    <3> QED BY <3>4, <3>5, <3>6
  <2> QED BY <2>2, <2>3
<1>6. PICK y \in x .. z : Carried(h, M) = x .. y - 1 /\ Carried(r, M) = y .. z - 1
  BY <1>5
<1>7. Stream(h, M, x, y, A) /\ Stream(r, M, y, z, A)
  BY <1>2, <1>3, <1>6 DEF Stream
<1>8. Batch(Head(q).load, x, y, A)
  BY <1>7, SingleStream DEF h
<1> QED BY <1>7, <1>8 DEF r

(* A stream of some frames is one of more frames.                          *)
LEMMA StreamWider ==
    ASSUME NEW q, NEW M, NEW x, NEW y, NEW A, NEW B, A \subseteq B, Stream(q, M, x, y, A)
    PROVE  Stream(q, M, x, y, B)
<1>1. Loaded(q, M, B)
  BY DEF Stream, Loaded
<1> QED BY <1>1 DEF Stream

(* The frames of a batch have different numbers.                           *)
LEMMA BatchNumbers ==
    ASSUME NEW S, NEW load \in Seq(S), NEW x, NEW y, NEW A, Batch(load, x, y, A)
    PROVE  /\ \A e, f \in Range(load) : e.number = f.number => e = f
           /\ \A e \in Range(load) : e.number \in x .. y - 1 /\ e \in A
           /\ load # <<>> => x < y
<1>1. DOMAIN load = 1 .. Len(load) /\ Len(load) \in Nat
  OBVIOUS
<1>2. \A e \in Range(load) : e.number \in x .. y - 1 /\ e \in A
  BY DEF Batch, NumbersOf
<1>3. ASSUME NEW k \in DOMAIN load, NEW l \in DOMAIN load, load[k].number = load[l].number
      PROVE  load[k] = load[l]
  <2>1. load[k].number \in Int
    BY <1>2 DEF Range, Batch
  <2>2. k < l \/ l < k \/ k = l
    BY <1>1
  <2> QED BY <1>3, <2>1, <2>2 DEF Batch
<1>4. \A e, f \in Range(load) : e.number = f.number => e = f
  BY <1>3 DEF Range
<1>5. load # <<>> => x < y
  <2>1. load # <<>> => load[1] \in Range(load)
    BY <1>1 DEF Range
  <2> QED BY <1>2, <2>1 DEF Batch
<1> QED BY <1>2, <1>4, <1>5
-----------------------------------------------------------------------------
(* The results M that are on their way in q: frames of A, one in a call,   *)
(* no two with the same number.                                            *)
Answers(q, M, A) ==
    /\ \A i \in DOMAIN q : q[i] \in M => q[i].load[1] \in A
    /\ \A i, j \in DOMAIN q :
          q[i] \in M /\ q[j] \in M /\ q[i].load[1].number = q[j].load[1].number => i = j

OneEach(M) == \A m \in M : DOMAIN m.load = {1}

(* What they carry.                                                        *)
LEMMA AnswersCarried ==
    ASSUME NEW q, NEW M, OneEach(M), NEW A, \A f \in A : f.number \in Nat, Answers(q, M, A)
    PROVE  \A n : n \in Carried(q, M) <=> \E i \in DOMAIN q : q[i] \in M /\ q[i].load[1].number = n
<1>1. ASSUME NEW i \in DOMAIN q, q[i] \in M
      PROVE  DOMAIN q[i].load = {1} /\ q[i].load[1].number \in Nat
  BY <1>1 DEF Answers, OneEach
<1> QED BY <1>1 DEF Carried

(* More results behind them.                                               *)
LEMMA AnswersConcat ==
    ASSUME NEW S, NEW a \in Seq(S), NEW b \in Seq(S), NEW M, OneEach(M),
           NEW A, \A f \in A : f.number \in Nat,
           Answers(a, M, A), Answers(b, M, A), Carried(a, M) \intersect Carried(b, M) = {}
    PROVE  Answers(a \o b, M, A)
<1> DEFINE q == a \o b
           m == Len(a)
<1>1. /\ m \in Nat
      /\ \A i \in DOMAIN q : \/ i \in DOMAIN a /\ q[i] = a[i]
                             \/ i - m \in DOMAIN b /\ q[i] = b[i - m]
      /\ DOMAIN q = 1 .. m + Len(b) /\ Len(b) \in Nat
  BY ConcatPlaces
<1> HIDE DEF q, m
<1>2. \A i \in DOMAIN q : q[i] \in M => q[i].load[1] \in A
  BY <1>1 DEF Answers
<1>3. ASSUME NEW i \in DOMAIN q, NEW j \in DOMAIN q, q[i] \in M, q[j] \in M,
             q[i].load[1].number = q[j].load[1].number
      PROVE  i = j
  <2>1. CASE i \in DOMAIN a /\ q[i] = a[i]
    <3>1. q[i].load[1].number \in Carried(a, M)
      BY <1>3, <2>1, AnswersCarried
    <3>2. CASE j \in DOMAIN a /\ q[j] = a[j]
      BY <1>3, <2>1, <3>2 DEF Answers
    <3>3. CASE j - m \in DOMAIN b /\ q[j] = b[j - m]
      <4>1. q[j].load[1].number \in Carried(b, M)
        BY <1>3, <3>3, AnswersCarried
      <4> QED BY <1>3, <3>1, <4>1
    <3> QED BY <1>1, <3>2, <3>3
  <2>2. CASE i - m \in DOMAIN b /\ q[i] = b[i - m]
    <3>1. q[i].load[1].number \in Carried(b, M)
      BY <1>3, <2>2, AnswersCarried
    <3>2. CASE j \in DOMAIN a /\ q[j] = a[j]
      <4>1. q[j].load[1].number \in Carried(a, M)
        BY <1>3, <3>2, AnswersCarried
      <4> QED BY <1>3, <3>1, <4>1
    <3>3. CASE j - m \in DOMAIN b /\ q[j] = b[j - m]
      <4>1. i - m = j - m
        BY <1>3, <2>2, <3>3 DEF Answers
      <4> QED BY <1>1, <4>1
    <3> QED BY <1>1, <3>2, <3>3
  <2> QED BY <1>1, <2>1, <2>2
<1> QED BY <1>2, <1>3 DEF Answers, q

(* Other calls are no results; a single result is one.                     *)
LEMMA AnswersSmall ==
    ASSUME NEW M, NEW A
    PROVE  /\ \A q : (\A i \in DOMAIN q : q[i] \notin M) => Answers(q, M, A)
           /\ \A m \in M : m.load[1] \in A => Answers(<<m>>, M, A)
           /\ \A q, B : Answers(q, M, A) /\ A \subseteq B => Answers(q, M, B)
<1>1. ASSUME NEW m \in M, m.load[1] \in A PROVE Answers(<<m>>, M, A)
  <2>1. DOMAIN <<m>> = {1} /\ <<m>>[1] = m
    OBVIOUS
  <2> QED BY <1>1, <2>1 DEF Answers
<1>2. ASSUME NEW q, \A i \in DOMAIN q : q[i] \notin M PROVE Answers(q, M, A)
  BY <1>2 DEF Answers
<1>3. ASSUME NEW q, NEW B, Answers(q, M, A), A \subseteq B PROVE Answers(q, M, B)
  BY <1>3 DEF Answers
<1> QED BY <1>1, <1>2, <1>3

(* The rest of the queue.                                                  *)
LEMMA AnswersTail ==
    ASSUME NEW S, NEW q \in Seq(S), q # <<>>, NEW M, OneEach(M),
           NEW A, \A f \in A : f.number \in Nat, Answers(q, M, A)
    PROVE  /\ Answers(Tail(q), M, A)
           /\ Head(q) \notin M => Carried(Tail(q), M) = Carried(q, M)
           /\ Head(q) \in M =>
                 /\ Head(q).load[1] \in A
                 /\ Head(q).load[1].number \notin Carried(Tail(q), M)
                 /\ Carried(q, M) = Carried(Tail(q), M) \union {Head(q).load[1].number}
<1> DEFINE r == Tail(q)
           n == Head(q).load[1].number
<1>1. /\ DOMAIN q = 1 .. Len(q) /\ Len(q) \in Nat \ {0} /\ DOMAIN r = 1 .. Len(q) - 1 /\ Head(q) = q[1]
      /\ \A i \in 1 .. Len(q) - 1 : r[i] = q[i + 1]
  OBVIOUS
<1>2. r \in Seq(S)
  OBVIOUS
<1> HIDE DEF r
<1>3. /\ \A i \in DOMAIN r : i + 1 \in DOMAIN q /\ r[i] = q[i + 1] /\ i \in Int /\ i + 1 # 1
      /\ 1 \in DOMAIN q
  BY <1>1
<1>4. Answers(r, M, A)
  <2>1. \A i \in DOMAIN r : r[i] \in M => r[i].load[1] \in A
    BY <1>3 DEF Answers
  <2>2. ASSUME NEW i \in DOMAIN r, NEW j \in DOMAIN r, r[i] \in M, r[j] \in M,
               r[i].load[1].number = r[j].load[1].number
        PROVE  i = j
    <3>1. i + 1 = j + 1
      BY <1>3, <2>2 DEF Answers
    <3> QED BY <1>3, <3>1
  <2> QED BY <2>1, <2>2 DEF Answers
<1>5. Head(q) \notin M => Carried(r, M) = Carried(q, M)
  BY StreamPassed DEF r
<1>6. ASSUME Head(q) \in M
      PROVE  /\ Head(q).load[1] \in A
             /\ n \notin Carried(r, M)
             /\ Carried(q, M) = Carried(r, M) \union {n}
  <2>1. Head(q).load[1] \in A
    BY <1>1, <1>3, <1>6 DEF Answers
  <2>2. n \notin Carried(r, M)
    <3> SUFFICES ASSUME n \in Carried(r, M) PROVE FALSE
      OBVIOUS
    <3>1. PICK i \in DOMAIN r : r[i] \in M /\ r[i].load[1].number = n
      BY <1>4, AnswersCarried
    <3>2. 1 = i + 1
      BY <1>1, <1>3, <1>6, <3>1 DEF Answers
    <3> QED BY <1>3, <3>2
  <2>3. ASSUME NEW k PROVE k \in Carried(q, M) <=> k \in Carried(r, M) \/ k = n
    <3>1. k \in Carried(q, M) <=> \E i \in DOMAIN q : q[i] \in M /\ q[i].load[1].number = k
      BY AnswersCarried
    <3>2. k \in Carried(r, M) <=> \E i \in DOMAIN r : r[i] \in M /\ r[i].load[1].number = k
      BY <1>4, AnswersCarried
    <3>3. \A i \in DOMAIN q : i = 1 \/ (i - 1 \in DOMAIN r /\ r[i - 1] = q[i])
      BY <1>1
    <3>4. q[1] = Head(q) /\ q[1] \in M /\ q[1].load[1].number = n
      BY <1>1, <1>6
    <3>5. ASSUME NEW i \in DOMAIN q, q[i] \in M, q[i].load[1].number = k, k # n
          PROVE  k \in Carried(r, M)
      BY <3>2, <3>3, <3>4, <3>5
    <3>6. ASSUME NEW i \in DOMAIN r, r[i] \in M, r[i].load[1].number = k
          PROVE  k \in Carried(q, M)
      BY <1>3, <3>1, <3>6
    <3> QED BY <1>3, <3>1, <3>2, <3>4, <3>5, <3>6
  <2> QED BY <2>1, <2>2, <2>3
<1> QED BY <1>4, <1>5, <1>6 DEF r
-----------------------------------------------------------------------------
(* A queue r that has the same frames of the calls M as q.                 *)
Same(q, r, M) ==
    /\ Carried(r, M) = Carried(q, M)
    /\ Ascending(q, M) => Ascending(r, M)
    /\ \A A : Loaded(q, M, A) => Loaded(r, M, A)
    /\ \A A : Answers(q, M, A) => Answers(r, M, A)

(* It has the same stream.                                                 *)
LEMMA SameStream ==
    ASSUME NEW q, NEW r, NEW M, Same(q, r, M)
    PROVE  /\ \A x, y, A : Stream(q, M, x, y, A) => Stream(r, M, x, y, A)
           /\ \A t : Same(r, t, M) => Same(q, t, M)
BY DEF Same, Stream

(* Other calls behind them change nothing.                                 *)
LEMMA SameBehind ==
    ASSUME NEW S, NEW q \in Seq(S), NEW e \in Seq(S), NEW M, \A i \in DOMAIN e : e[i] \notin M
    PROVE  Same(q, q \o e, M)
<1> DEFINE r == q \o e
<1>1. Carried(e, M) = {} /\ \A A : Loaded(e, M, A)
  BY DEF Carried, Loaded
<1>2. /\ Carried(r, M) = Carried(q, M) \union Carried(e, M)
      /\ \A A : Loaded(r, M, A) <=> Loaded(q, M, A) /\ Loaded(e, M, A)
  BY CarriedConcat
<1>3. \A i \in DOMAIN r : r[i] \in M => i \in DOMAIN q /\ r[i] = q[i]
  BY ConcatPlaces
<1> HIDE DEF r
<1>4. \A A : Answers(q, M, A) => Answers(r, M, A)
  BY <1>3 DEF Answers
<1>5. Ascending(q, M) => Ascending(r, M)
  BY <1>3 DEF Ascending
<1>6. Same(q, r, M)
  BY <1>1, <1>2, <1>4, <1>5 DEF Same
<1> QED BY <1>6 DEF r

(* Nor does the end of another job.                                        *)
LEMMA SameTail ==
    ASSUME NEW S, NEW q \in Seq(S), q # <<>>, NEW M, Head(q) \notin M
    PROVE  Same(q, Tail(q), M)
<1> DEFINE r == Tail(q)
<1>1. /\ DOMAIN q = 1 .. Len(q) /\ Len(q) \in Nat \ {0} /\ DOMAIN r = 1 .. Len(q) - 1 /\ Head(q) = q[1]
      /\ \A i \in 1 .. Len(q) - 1 : r[i] = q[i + 1]
  OBVIOUS
<1>2. Carried(r, M) = Carried(q, M)
  BY StreamPassed
<1> HIDE DEF r
<1>3. \A i \in DOMAIN r : i + 1 \in DOMAIN q /\ r[i] = q[i + 1] /\ i \in Int
  BY <1>1
<1>4. Ascending(q, M) => Ascending(r, M)
  <2> SUFFICES ASSUME Ascending(q, M), NEW i \in DOMAIN r, NEW j \in DOMAIN r, r[i] \in M, r[j] \in M,
                      NEW k \in DOMAIN r[i].load, NEW l \in DOMAIN r[j].load, i < j \/ (i = j /\ k < l)
               PROVE  r[i].load[k].number < r[j].load[l].number
    BY DEF Ascending
  <2>1. /\ i + 1 \in DOMAIN q /\ r[i] = q[i + 1] /\ j + 1 \in DOMAIN q /\ r[j] = q[j + 1]
        /\ (i + 1 < j + 1 \/ (i + 1 = j + 1 /\ k < l))
    BY <1>3
  <2> QED BY <2>1 DEF Ascending
<1>5. \A A : Loaded(q, M, A) => Loaded(r, M, A)
  BY <1>3 DEF Loaded
<1>6. ASSUME NEW A, Answers(q, M, A) PROVE Answers(r, M, A)
  <2>1. \A i \in DOMAIN r : r[i] \in M => r[i].load[1] \in A
    BY <1>3, <1>6 DEF Answers
  <2>2. ASSUME NEW i \in DOMAIN r, NEW j \in DOMAIN r, r[i] \in M, r[j] \in M,
               r[i].load[1].number = r[j].load[1].number
        PROVE  i = j
    <3>1. i + 1 = j + 1
      BY <1>3, <1>6, <2>2 DEF Answers
    <3> QED BY <1>3, <3>1
  <2> QED BY <2>1, <2>2 DEF Answers
<1> QED BY <1>2, <1>4, <1>5, <1>6 DEF Same, r

(* One more call at the end of a queue.                                    *)
LEMMA OneMoreCall ==
    ASSUME NEW S, NEW q \in Seq(S), NEW m \in S
    PROVE  /\ <<m>> \in Seq(S) /\ DOMAIN <<m>> = {1} /\ <<m>>[1] = m
           /\ Append(q, m) = q \o <<m>> /\ Append(q, m) \in Seq(S)
<1>1. Append(q, m) \in Seq(S) /\ <<m>> \in Seq(S) /\ DOMAIN <<m>> = {1} /\ <<m>>[1] = m
  OBVIOUS
<1>2. Len(Append(q, m)) = Len(q) + 1 /\ Len(q \o <<m>>) = Len(q) + 1 /\ Len(q) \in Nat
  OBVIOUS
<1>3. \A i \in 1 .. Len(q) + 1 : Append(q, m)[i] = (q \o <<m>>)[i]
  OBVIOUS
<1>4. q \o <<m>> \in Seq(S)
  BY <1>1
<1> QED BY <1>1, <1>2, <1>3, <1>4

LEMMA StreamAppend ==
    ASSUME NEW S, NEW q \in Seq(S), NEW m \in S, NEW M, NEW A, \A f \in A : f.number \in Nat,
           NEW x, NEW y, Stream(q, M, x, y, A)
    PROVE  /\ m \notin M => Stream(Append(q, m), M, x, y, A)
           /\ m \in M => \A z : Batch(m.load, y, z, A) => Stream(Append(q, m), M, x, z, A)
<1>1. <<m>> \in Seq(S) /\ DOMAIN <<m>> = {1} /\ <<m>>[1] = m /\ Append(q, m) = q \o <<m>>
  BY OneMoreCall
<1> DEFINE e == <<m>>
<1>2. ASSUME m \notin M PROVE Stream(q \o e, M, x, y, A)
  BY <1>1, <1>2, SameBehind, SameStream
<1>3. ASSUME m \in M, NEW z, Batch(m.load, y, z, A) PROVE Stream(q \o e, M, x, z, A)
  <2>1. Stream(e, M, y, z, A) /\ e \in Seq(S)
    BY <1>1, <1>3, SingleStream
  <2> HIDE DEF e
  <2> QED BY <2>1, StreamConcat
<1> QED BY <1>1, <1>2, <1>3

(* One more result.                                                        *)
LEMMA AnswersAppend ==
    ASSUME NEW S, NEW q \in Seq(S), NEW m \in S, NEW M, OneEach(M), m \in M,
           NEW A, \A f \in A : f.number \in Nat, Answers(q, M, A),
           m.load[1] \in A, m.load[1].number \notin Carried(q, M)
    PROVE  /\ Answers(Append(q, m), M, A)
           /\ Carried(Append(q, m), M) = Carried(q, M) \union {m.load[1].number}
<1> DEFINE e == <<m>>
<1>1. e \in Seq(S) /\ DOMAIN e = {1} /\ e[1] = m /\ Append(q, m) = q \o e
  BY OneMoreCall
<1> HIDE DEF e
<1>2. Answers(e, M, A)
  BY <1>1 DEF Answers
<1>3. Carried(e, M) = {m.load[1].number}
  BY <1>1, <1>2, AnswersCarried
<1>4. Answers(q \o e, M, A)
  BY <1>1, <1>2, <1>3, AnswersConcat
<1>5. Carried(q \o e, M) = Carried(q, M) \union Carried(e, M)
  BY <1>1, CarriedConcat
<1> QED BY <1>1, <1>3, <1>4, <1>5
-----------------------------------------------------------------------------
(* A handler between two jobs: also the next number does not wait.         *)
Settled(h, A) == Orderly(h, A) /\ h.next \notin NumbersOf(h.in)

(* Handing over the first part of the output.                              *)
LEMMA KeptSettles ==
    ASSUME NEW A, \A f \in A : f.number \in Nat, NEW p, Orderly(p, A), p.next \notin NumbersOf(p.in),
           NEW n \in 0 .. Len(p.out)
    PROVE  /\ Settled(Kept(p, n), A) /\ Seen(Kept(p, n)) = Seen(p)
           /\ Handed(Kept(p, n)) = Handed(p) + n
           /\ Taken(p, n) \in Seq(A) /\ Len(Taken(p, n)) = n
           /\ Batch(Taken(p, n), Handed(p), Handed(Kept(p, n)), A)
<1> DEFINE k == Kept(p, n)
           t == Taken(p, n)
           H == Handed(p)
<1>1. /\ Orderly(k, A) /\ k.in = p.in /\ k.next = p.next /\ Handed(k) = H + n
      /\ t \in Seq(A) /\ Len(t) = n
      /\ \A i \in 1 .. n : t[i] \in A /\ t[i].number = H + (i - 1)
  BY KeptOrderly
<1> HIDE DEF k, t
<1>2. Settled(k, A) /\ Seen(k) = Seen(p)
  BY <1>1 DEF Settled, Seen
<1>3. H \in Nat /\ n \in Nat /\ DOMAIN t = 1 .. n
  <2>1. Len(p.out) \in Nat /\ p.next \in Nat /\ Len(p.out) <= p.next
    BY DEF Orderly
  <2> QED BY <1>1, <2>1 DEF Handed
<1> HIDE DEF H
<1>4. NumbersOf(Range(t)) = H .. (H + n) - 1
  <2>1. ASSUME NEW m \in H .. (H + n) - 1 PROVE m \in NumbersOf(Range(t))
    <3>1. (m - H) + 1 \in 1 .. n /\ H + (((m - H) + 1) - 1) = m
      BY <1>3
    <3>2. t[(m - H) + 1].number = m
      BY <1>1, <3>1
    <3> QED BY <1>3, <3>1, <3>2 DEF NumbersOf, Range
  <2>2. ASSUME NEW i \in 1 .. n PROVE t[i].number \in H .. (H + n) - 1
    BY <1>1, <1>3
  <2> QED BY <1>3, <2>1, <2>2 DEF NumbersOf, Range
<1>5. \A i, j \in DOMAIN t : i < j => t[i].number < t[j].number
  BY <1>1, <1>3, SMTT(40)
<1>6. Range(t) \subseteq A
  BY <1>1, <1>3 DEF Range
<1>7. Batch(t, H, Handed(k), A)
  BY <1>1, <1>3, <1>4, <1>5, <1>6 DEF Batch
<1> QED BY <1>1, <1>2, <1>7 DEF k, t, H

(* A flush begins with try_process_input.                                  *)
LEMMA FlushSettles ==
    ASSUME NEW A, \A f \in A : f.number \in Nat, NEW h, Orderly(h, A)
    PROVE  LET p == TryProcessInput(h)
           IN  /\ Settled(p, A) /\ Seen(p) = Seen(h) /\ Handed(p) = Handed(h) /\ Handed(h) \in Nat
               /\ Len(p.out) \in Nat
<1> DEFINE p == TryProcessInput(h)
<1>1. /\ Orderly(p, A) /\ p.next \notin NumbersOf(p.in)
      /\ Seen(p) = Seen(h) /\ Handed(p) = Handed(h)
  BY ProcessInputOrderly
<1>2. Len(p.out) \in Nat /\ Handed(h) \in Nat
  <2>1. h.out \in Seq(A) /\ p.out \in Seq(A) /\ h.next \in Nat /\ Len(h.out) <= h.next
    BY <1>1 DEF Orderly
  <2> QED BY <2>1 DEF Handed
<1> QED BY <1>1, <1>2 DEF Settled

(* A handler of some frames is one of more frames.                         *)
LEMMA OrderlyWider ==
    ASSUME NEW h, NEW A, NEW B, A \subseteq B
    PROVE  /\ Orderly(h, A) => Orderly(h, B)
           /\ Settled(h, A) => Settled(h, B)
<1>1. ASSUME Orderly(h, A) PROVE Orderly(h, B)
  BY <1>1 DEF Orderly
<1> QED BY <1>1 DEF Settled
-----------------------------------------------------------------------------
(* The numbers of the jobs N, of the results on their way C and of those   *)
(* that the handler has seen S are different ones below n.                 *)
Balanced(N, C, S, n) ==
    /\ N \intersect C = {} /\ (N \union C) \intersect S = {}
    /\ N \union C \union S \subseteq 0 .. n - 1

Complete(N, C, S, n) == 0 .. n - 1 \subseteq N \union C \union S

(* New jobs, and new entries in the handler.                               *)
LEMMA BalancedGrows ==
    ASSUME NEW N, NEW C, NEW S, NEW n, NEW m, NEW N1, NEW S1, N1 \intersect S1 = {},
           (N1 \union S1) \intersect 0 .. n - 1 = {},
           0 .. m - 1 = (0 .. n - 1) \union N1 \union S1
    PROVE  /\ Balanced(N, C, S, n) => Balanced(N \union N1, C, S \union S1, m)
           /\ Complete(N, C, S, n) => Complete(N \union N1, C, S \union S1, m)
<1> DEFINE a == 0 .. n - 1
           b == 0 .. m - 1
<1>1. b = a \union N1 \union S1 /\ (N1 \union S1) \intersect a = {}
  OBVIOUS
<1> HIDE DEF a, b
<1>2. ASSUME Balanced(N, C, S, n) PROVE Balanced(N \union N1, C, S \union S1, m)
  <2>1. N \intersect C = {} /\ (N \union C) \intersect S = {} /\ N \union C \union S \subseteq a
    BY <1>2 DEF Balanced, a
  <2>2. (N \union N1) \intersect C = {}
    BY <1>1, <2>1
  <2>3. ((N \union N1) \union C) \intersect (S \union S1) = {}
    BY <1>1, <2>1
  <2>4. (N \union N1) \union C \union (S \union S1) \subseteq b
    BY <1>1, <2>1
  <2> QED BY <2>2, <2>3, <2>4 DEF Balanced, b
<1>3. ASSUME Complete(N, C, S, n) PROVE Complete(N \union N1, C, S \union S1, m)
  <2>1. a \subseteq N \union C \union S
    BY <1>3 DEF Complete, a
  <2>2. b \subseteq (N \union N1) \union C \union (S \union S1)
    BY <1>1, <2>1
  <2> QED BY <2>2 DEF Complete, b
<1> QED BY <1>2, <1>3

(* A result arrives; an evaluation has a result, or none.                  *)
LEMMA BalancedMoves ==
    ASSUME NEW N, NEW C, NEW S, NEW n, NEW k
    PROVE  /\ Balanced(N, C \union {k}, S, n) /\ k \notin C => Balanced(N, C, S \union {k}, n)
           /\ Complete(N, C \union {k}, S, n) => Complete(N, C, S \union {k}, n)
           /\ Balanced(N, C, S, n) /\ k \in N => Balanced(N \ {k}, C \union {k}, S, n)
           /\ Complete(N, C, S, n) => Complete(N \ {k}, C \union {k}, S, n)
           /\ Balanced(N, C, S, n) => Balanced(N \ {k}, C, S, n)
BY DEF Balanced, Complete
-----------------------------------------------------------------------------
(* Part 2: the invariant, and what keeps its parts.                        *)

(* The calls that bring frames to a stage, and results.                    *)
Deliveries(s) == {m \in AllCalls : m.callee = s /\ m.op = "process"}

Returns(s) == {m \in AllCalls : m.callee = s /\ m.op = "evaluated"}

(* The frames on their way to the inter-frame stage: each the image of its *)
(* number, and the flush frame, which has the number z. Behind the         *)
(* inter-frame stage there is one frame less.                              *)
Passing(z) ==
    {f \in FrameType : f.image = <<f.number>> \/ (f.image = <<>> /\ f.number = z)}

Pairs(z) ==
    {f \in FrameType : \/ f.image \in {<<f.number>>, <<f.number, f.number + 1>>}
                       \/ f.image = <<>> /\ f.number = z - 1}

LEMMA FrameSets ==
    /\ \A z : Passing(z) \subseteq FrameType /\ Pairs(z) \subseteq FrameType
    /\ \A z : Passing(-1) \subseteq Passing(z) /\ Pairs(-1) \subseteq Pairs(z)
    /\ \A z : \A f \in Passing(z) : f.number \in Nat /\ (IsFlush(f) => f.number = z)
    /\ \A z : \A f \in Pairs(z) : f.number \in Nat
    /\ \A z : \A f \in Passing(z) : ~IsFlush(f) => f \in Passing(-1) /\ f.image = <<f.number>>
<1>1. \A f \in FrameType : f.number \in Nat
  BY DEF FrameType
<1>2. ASSUME NEW n \in Nat PROVE <<n>> # <<>> /\ <<n, n + 1>> # <<>> /\ n # -1 /\ n # -1 - 1
  OBVIOUS
<1>3. \A z : \A f \in Passing(z) : f.image = <<>> => f.number = z
  BY <1>1, <1>2 DEF Passing
<1>4. \A z : Passing(-1) \subseteq Passing(z) /\ Pairs(-1) \subseteq Pairs(z)
  BY <1>1, <1>2 DEF Passing, Pairs
<1> QED BY <1>1, <1>3, <1>4 DEF Passing, Pairs, IsFlush

(* The calls in the queues, by their kinds.                                *)
LEMMA QueueCalls ==
    ASSUME NEW M \in SUBSET AllCalls, NEW q \in Queues(M), NEW t \in Thread
    PROVE  /\ q[t] \in Seq(CallType)
           /\ \A i \in DOMAIN q[t] : q[t][i] \in M /\ q[t][i] \in AllCalls /\ ThreadOf(q[t][i].callee) = t
<1>1. q[t] \in Seq(On(t, M)) /\ q[t] \in Seq(CallType)
  BY DEF Queues
<1>2. \A i \in DOMAIN q[t] : q[t][i] \in On(t, M)
  BY <1>1
<1> QED BY <1>1, <1>2 DEF On

LEMMA OneResult == \A s : OneEach(Returns(s))
<1> SUFFICES ASSUME NEW s, NEW m \in Returns(s) PROVE DOMAIN m.load = {1}
  BY DEF OneEach
<1>1. m \in CallType /\ Made(m.callee, m.op, m.amount, m.load) /\ m.op = "evaluated"
  BY DEF Returns, AllCalls
<1>2. Len(m.load) = 1 /\ m.load \in Seq(FrameType)
  BY <1>1 DEF Made, CallType
<1>3. DOMAIN m.load = 1 .. 1
  BY <1>2
<1> QED BY <1>3

(* The other calls are no deliveries and no results.                       *)
LEMMA Kinds ==
    ASSUME NEW m, NEW s
    PROVE  /\ m \in Deliveries(s) <=> m \in AllCalls /\ m.callee = s /\ m.op = "process"
           /\ m \in Returns(s) <=> m \in AllCalls /\ m.callee = s /\ m.op = "evaluated"
BY DEF Deliveries, Returns
-----------------------------------------------------------------------------
(* The evaluations of a stage: no two for the same number, and their       *)
(* results are frames of A.                                                *)
JobsFit(J, A) ==
    /\ \A j, k \in J : j.number = k.number => j = k
    /\ \A j \in J : \A script : Frame(j.number, Result(script, j.images)) \in A

Reliable == Failures \subseteq {"open"}

(* A stage with the handler h, which has taken n frames and has the        *)
(* evaluations J, with the results in q on their way to it: every number   *)
(* below n is in one of these places at most, and in one as long as        *)
(* nothing fails.                                                          *)
Working(q, s, J, h, A, n) ==
    /\ Settled(h, A)
    /\ Answers(q, Returns(s), A)
    /\ JobsFit(J, A)
    /\ Balanced(NumbersOf(J), Carried(q, Returns(s)), Seen(h), n)
    /\ Reliable => Complete(NumbersOf(J), Carried(q, Returns(s)), Seen(h), n)

(* The source numbers the frames from 0. Its flush frame, if any, has the  *)
(* number FlushPlace; the stages may know it when it was passed on.        *)
FlushPlace(c) == IF c.eofReached THEN c.processed - 1 ELSE -1

End(c) == IF c.eofFlushed THEN c.processed - 1 ELSE -1

SourceFlow(v, c) ==
    /\ Settled(c.sdh, Passing(FlushPlace(c)))
    /\ Seen(c.sdh) = 0 .. c.processed - 1
    /\ c.processed <= v.decoded[c.loaded] + (IF c.eofReached THEN 1 ELSE 0)
    /\ c.eofFlushed => c.eofReached
    /\ ~c.exists => c.processed = 0

(* The stages behind it: m frames were handed to them, the last ones of    *)
(* them, from some r on, are on their way in q.                            *)
FrameFlow(q, m, J, h, z) ==
    \E r \in Nat : /\ Stream(q, Deliveries("frame"), r, m, Passing(z))
                   /\ Working(q, "frame", J, h, Passing(z), r)

(* The inter-frame stage keeps its last frame.                             *)
Buffered(c, r, z) ==
    \/ r = 0 /\ c.buffer = {} /\ c.nextFrame = 0 /\ c.created = 0
    \/ /\ r # 0 /\ c.nextFrame = r - 1
       /\ \E f \in Passing(z) : /\ c.buffer = {f} /\ f.number = r - 1
                                /\ IsFlush(f) \/ c.created = r - 1

InterFlow(q, m, J, c, z) ==
    \E r \in Nat : /\ Stream(q, Deliveries("interframe"), r, m, Passing(z))
                   /\ Buffered(c, r, z)
                   /\ Working(q, "interframe", J, c.sdh, Pairs(z), r - 1)

SinkFlow(q, m, h, z) ==
    \E r \in Nat : /\ Stream(q, Deliveries("sink"), r, m, Pairs(z))
                   /\ Settled(h, Pairs(z))
                   /\ Seen(h) = 0 .. r - 1

(* The frames, stage by stage. L are evaluations that ended without a      *)
(* result: their numbers are not used again.                               *)
Pending(L, s) == Evaluating(s) \union {j \in L : j.stage = s}

FlowWith(L) ==
    LET z == End(context.source)
    IN  /\ SourceFlow(video, context.source)
        /\ FrameFlow(queue.processors, Handed(context.source.sdh), Pending(L, "frame"), context.frame.sdh, z)
        /\ InterFlow(queue.processors, Handed(context.frame.sdh), Pending(L, "interframe"), context.interframe, z)
        /\ SinkFlow(queue.sink, Handed(context.interframe.sdh), context.sink.sdh, z)

FlowInv == FlowWith({})

-----------------------------------------------------------------------------
(* The parts of the invariant stay when other calls come and go, and when  *)
(* the flush frame gets known.                                             *)
LEMMA WorkingKept ==
    ASSUME NEW q, NEW r, NEW s, NEW J, NEW h, NEW A, NEW n, Working(q, s, J, h, A, n)
    PROVE  /\ Same(q, r, Returns(s)) => Working(r, s, J, h, A, n)
           /\ \A B : A \subseteq B => Working(q, s, J, h, B, n)
<1>1. ASSUME Same(q, r, Returns(s)) PROVE Working(r, s, J, h, A, n)
  BY <1>1 DEF Same, Working
<1>2. ASSUME NEW B, A \subseteq B PROVE Working(q, s, J, h, B, n)
  <2>1. Settled(h, B) /\ Answers(q, Returns(s), B)
    BY <1>2, OrderlyWider, AnswersSmall DEF Working
  <2>2. JobsFit(J, B)
    BY <1>2 DEF Working, JobsFit
  <2> QED BY <2>1, <2>2 DEF Working
<1> QED BY <1>1, <1>2

LEMMA FlowsKept ==
    ASSUME NEW q, NEW r, NEW m, NEW z
    PROVE  /\ Same(q, r, Deliveries("frame")) /\ Same(q, r, Returns("frame")) =>
                  \A J, h : FrameFlow(q, m, J, h, z) => FrameFlow(r, m, J, h, z)
           /\ Same(q, r, Deliveries("interframe")) /\ Same(q, r, Returns("interframe")) =>
                  \A J, c : InterFlow(q, m, J, c, z) => InterFlow(r, m, J, c, z)
           /\ Same(q, r, Deliveries("sink")) =>
                  \A h : SinkFlow(q, m, h, z) => SinkFlow(r, m, h, z)
BY SameStream, WorkingKept DEF FrameFlow, InterFlow, SinkFlow

LEMMA FlowsWider ==
    ASSUME NEW q, NEW m, NEW z, NEW y, y = z \/ z = -1
    PROVE  /\ \A J, h : FrameFlow(q, m, J, h, z) => FrameFlow(q, m, J, h, y)
           /\ \A J, c : InterFlow(q, m, J, c, z) => InterFlow(q, m, J, c, y)
           /\ \A h : SinkFlow(q, m, h, z) => SinkFlow(q, m, h, y)
<1>1. Passing(z) \subseteq Passing(y) /\ Pairs(z) \subseteq Pairs(y)
  BY FrameSets
<1>2. \A c, r : Buffered(c, r, z) => Buffered(c, r, y)
  BY <1>1 DEF Buffered
<1>3. ASSUME NEW J, NEW h, FrameFlow(q, m, J, h, z) PROVE FrameFlow(q, m, J, h, y)
  BY <1>1, <1>3, StreamWider, WorkingKept DEF FrameFlow
<1>4. ASSUME NEW J, NEW c, InterFlow(q, m, J, c, z) PROVE InterFlow(q, m, J, c, y)
  BY <1>1, <1>2, <1>4, StreamWider, WorkingKept DEF InterFlow
<1>5. ASSUME NEW h, SinkFlow(q, m, h, z) PROVE SinkFlow(q, m, h, y)
  BY <1>1, <1>5, StreamWider, OrderlyWider DEF SinkFlow
<1> QED BY <1>3, <1>4, <1>5

(* More frames are handed to a stage: the calls e are posted.              *)
LEMMA FlowsFed ==
    ASSUME NEW q \in Seq(CallType), NEW e \in Seq(CallType), NEW m, NEW n, NEW z
    PROVE  /\ Stream(e, Deliveries("frame"), m, n, Passing(z)) /\ (\A i \in DOMAIN e : e[i] \notin Returns("frame")) =>
                  \A J, h : FrameFlow(q, m, J, h, z) => FrameFlow(q \o e, n, J, h, z)
           /\ Stream(e, Deliveries("interframe"), m, n, Passing(z)) /\ (\A i \in DOMAIN e : e[i] \notin Returns("interframe")) =>
                  \A J, c : InterFlow(q, m, J, c, z) => InterFlow(q \o e, n, J, c, z)
           /\ Stream(e, Deliveries("sink"), m, n, Pairs(z)) =>
                  \A h : SinkFlow(q, m, h, z) => SinkFlow(q \o e, n, h, z)
<1>1. (\A f \in Passing(z) : f.number \in Nat) /\ (\A f \in Pairs(z) : f.number \in Nat)
  BY FrameSets
<1>2. ASSUME NEW s, \A i \in DOMAIN e : e[i] \notin Returns(s) PROVE Same(q, q \o e, Returns(s))
  BY <1>2, SameBehind
<1>3. ASSUME Stream(e, Deliveries("frame"), m, n, Passing(z)), \A i \in DOMAIN e : e[i] \notin Returns("frame"),
             NEW J, NEW h, FrameFlow(q, m, J, h, z)
      PROVE  FrameFlow(q \o e, n, J, h, z)
  <2>1. PICK r \in Nat : Stream(q, Deliveries("frame"), r, m, Passing(z)) /\ Working(q, "frame", J, h, Passing(z), r)
    BY <1>3 DEF FrameFlow
  <2>2. Stream(q \o e, Deliveries("frame"), r, n, Passing(z))
    BY <1>1, <1>3, <2>1, StreamConcat
  <2>3. Working(q \o e, "frame", J, h, Passing(z), r)
    BY <1>2, <1>3, <2>1, WorkingKept
  <2> QED BY <2>2, <2>3 DEF FrameFlow
<1>4. ASSUME Stream(e, Deliveries("interframe"), m, n, Passing(z)), \A i \in DOMAIN e : e[i] \notin Returns("interframe"),
             NEW J, NEW c, InterFlow(q, m, J, c, z)
      PROVE  InterFlow(q \o e, n, J, c, z)
  <2>1. PICK r \in Nat : /\ Stream(q, Deliveries("interframe"), r, m, Passing(z)) /\ Buffered(c, r, z)
                         /\ Working(q, "interframe", J, c.sdh, Pairs(z), r - 1)
    BY <1>4 DEF InterFlow
  <2>2. Stream(q \o e, Deliveries("interframe"), r, n, Passing(z))
    BY <1>1, <1>4, <2>1, StreamConcat
  <2>3. Working(q \o e, "interframe", J, c.sdh, Pairs(z), r - 1)
    BY <1>2, <1>4, <2>1, WorkingKept
  <2> QED BY <2>1, <2>2, <2>3 DEF InterFlow
<1>5. ASSUME Stream(e, Deliveries("sink"), m, n, Pairs(z)), NEW h, SinkFlow(q, m, h, z)
      PROVE  SinkFlow(q \o e, n, h, z)
  <2>1. PICK r \in Nat : Stream(q, Deliveries("sink"), r, m, Pairs(z)) /\ Settled(h, Pairs(z)) /\ Seen(h) = 0 .. r - 1
    BY <1>5 DEF SinkFlow
  <2>2. Stream(q \o e, Deliveries("sink"), r, n, Pairs(z))
    BY <1>1, <1>5, <2>1, StreamConcat
  <2> QED BY <2>1, <2>2 DEF SinkFlow
<1> QED BY <1>3, <1>4, <1>5
-----------------------------------------------------------------------------
(* Part 3: what the operations of the stages do to their handlers.         *)

(* Every stage sends in the same way.                                      *)
LEMMA SendsAre ==
    ASSUME NEW c, NEW m
    PROVE  /\ Source!Send(c, m) = Send(c, m)
           /\ FrameStage!Send(c, m) = Send(c, m)
           /\ InterStage!Common!Send(c, m) = Send(c, m)
           /\ Sink!Send(c, m) = Send(c, m)
BY DEF Source!Send, FrameStage!Send, InterStage!Common!Send, Sink!Send, Send,
       Source!ThreadOf, FrameStage!ThreadOf, InterStage!Common!ThreadOf, Sink!ThreadOf, ThreadOf

LEMMA EffectsWider ==
    ASSUME NEW M \in SUBSET AllCalls, NEW J, NEW e \in Effect(M, J)
    PROVE  e \in Effect(AllCalls, J) /\ e.calls \in Queues(AllCalls)
<1>1. \A t \in Thread : On(t, M) \subseteq On(t, AllCalls)
  BY DEF On
<1>2. \A t \in Thread : Seq(On(t, M)) \subseteq Seq(On(t, AllCalls))
  BY <1>1
<1>3. Queues(M) \subseteq Queues(AllCalls)
  BY <1>2 DEF Queues
<1> QED BY <1>3 DEF Effect

(* One more call among the effects of a stage.                             *)
WithCall(e, m) == [e EXCEPT !.calls[ThreadOf(m.callee)] = Append(@, m)]

LEMMA SentStreams ==
    ASSUME NEW J, NEW e \in Effect(AllCalls, J), NEW m \in AllCalls,
           NEW t \in Thread, NEW M, NEW A, \A a \in A : a.number \in Nat
    PROVE  /\ WithCall(e, m).jobs = e.jobs /\ WithCall(e, m).report = e.report
           /\ m \notin M => \A x, y : Stream(e.calls[t], M, x, y, A) => Stream(WithCall(e, m).calls[t], M, x, y, A)
           /\ m \in M /\ ThreadOf(m.callee) = t =>
                 \A x, y, z : Stream(e.calls[t], M, x, y, A) /\ Batch(m.load, y, z, A) => Stream(WithCall(e, m).calls[t], M, x, z, A)
<1> DEFINE f == WithCall(e, m)
<1>2. /\ f.jobs = e.jobs /\ f.report = e.report
      /\ f.calls[t] = IF ThreadOf(m.callee) = t THEN Append(e.calls[t], m) ELSE e.calls[t]
  BY CallsTyped DEF Effect, Queues, WithCall
<1>3. e.calls[t] \in Seq(CallType) /\ m \in CallType
  BY QueueCalls, CallsTyped DEF Effect
<1> HIDE DEF f
<1>4. ASSUME m \notin M, NEW x, NEW y, Stream(e.calls[t], M, x, y, A) PROVE Stream(f.calls[t], M, x, y, A)
  BY <1>2, <1>3, <1>4, StreamAppend
<1>5. ASSUME m \in M, ThreadOf(m.callee) = t, NEW x, NEW y, NEW z,
             Stream(e.calls[t], M, x, y, A), Batch(m.load, y, z, A)
      PROVE  Stream(f.calls[t], M, x, z, A)
  BY <1>2, <1>3, <1>5, StreamAppend
<1> QED BY <1>2, <1>4, <1>5 DEF f

(* What is handed over is the first part of the output.                    *)
LEMMA HandOver ==
    ASSUME NEW A \in SUBSET FrameType, NEW h, Orderly(h, A), h.next \notin NumbersOf(h.in), NEW n \in 1 .. Len(h.out)
    PROVE  /\ Settled(Kept(h, n), A) /\ Seen(Kept(h, n)) = Seen(h)
           /\ Taken(h, n) \in Seq(FrameType) /\ Taken(h, n) # <<>> /\ Taken(h, n) \in Seq(A)
           /\ Batch(Taken(h, n), Handed(h), Handed(Kept(h, n)), A)
           /\ Kept(h, n) \in Handler
           /\ Handed(Kept(h, n)) = Handed(h) + n
<1>1. (\A a \in A : a.number \in Nat) /\ n \in 0 .. Len(h.out) /\ n \in Nat /\ n # 0
  <2>1. Len(h.out) \in Nat
    BY DEF Orderly
  <2> QED BY <2>1 DEF FrameType
<1>2. /\ Settled(Kept(h, n), A) /\ Seen(Kept(h, n)) = Seen(h)
      /\ Taken(h, n) \in Seq(A) /\ Len(Taken(h, n)) = n
      /\ Batch(Taken(h, n), Handed(h), Handed(Kept(h, n)), A)
      /\ Handed(Kept(h, n)) = Handed(h) + n
  BY <1>1, KeptSettles
<1>3. Taken(h, n) \in Seq(FrameType) /\ Taken(h, n) # <<>>
  <2> DEFINE t == Taken(h, n)
  <2>1. t \in Seq(A) /\ Len(t) = n
    BY <1>2
  <2> HIDE DEF t
  <2>2. t \in Seq(FrameType) /\ t # <<>>
    BY <1>1, <2>1
  <2> QED BY <2>2 DEF t
<1>4. Kept(h, n) \in Handler
  BY <1>2 DEF Settled, Orderly, Handler
<1> QED BY <1>2, <1>3, <1>4

(* What a job of a stage may do between its first and its last change of   *)
(* the handler: f is c with more frames of A handed over, in the calls M   *)
(* to the thread t, and as many in the output less.                        *)
Passes(c, f, t, M, A) ==
    /\ f.exists = c.exists /\ f.eff.jobs = c.eff.jobs /\ f.eff.report = c.eff.report
    /\ Seen(f.sdh) = Seen(c.sdh)
    /\ Settled(c.sdh, A) => Settled(f.sdh, A)
    /\ \A x : Stream(c.eff.calls[t], M, x, Handed(c.sdh), A) => Stream(f.eff.calls[t], M, x, Handed(f.sdh), A)

(* The queues have names.                                                  *)
LEMMA ThreadsAre ==
    /\ "processors" \in Thread /\ "sink" \in Thread /\ "writer" \in Thread /\ "source" \in Thread /\ "pipeline" \in Thread
    /\ ThreadOf("frame") = "processors" /\ ThreadOf("interframe") = "processors"
    /\ ThreadOf("sink") = "sink" /\ ThreadOf("writer") = "writer" /\ ThreadOf("source") = "source" /\ ThreadOf("pipeline") = "pipeline"
BY DEF Thread, ThreadOf
-----------------------------------------------------------------------------
(* The frame stage.                                                        *)
FramePasses(c, f, A) ==
    /\ f \in FrameContext(BOOLEAN, TRUE)
    /\ Passes(c, f, "processors", Deliveries("interframe"), A)
    /\ f.script = c.script /\ f.framesId = c.framesId /\ f.prevFinished = c.prevFinished

LEMMA FramePassesOn ==
    ASSUME NEW A, NEW c, NEW d, NEW f, FramePasses(c, d, A), FramePasses(d, f, A)
    PROVE  FramePasses(c, f, A)
BY DEF Passes, FramePasses

(* What a call changes.                                                    *)
LEMMA FrameSendFields ==
    ASSUME NEW c \in FrameContext(BOOLEAN, TRUE), NEW m \in FrameCalls(TRUE)
    PROVE  LET d == FrameStage!Send(c, m)
           IN  /\ d \in FrameContext(BOOLEAN, TRUE)
               /\ d.exists = c.exists /\ d.sdh = c.sdh /\ d.waiting = c.waiting /\ d.script = c.script
               /\ d.framesId = c.framesId /\ d.prevFinished = c.prevFinished
               /\ d.eff = WithCall(c.eff, m)
               /\ c.eff \in Effect(AllCalls, Jobs("frame")) /\ m \in AllCalls
<1> DEFINE d == FrameStage!Send(c, m)
<1>1. d \in FrameContext(BOOLEAN, TRUE)
  BY FrameSends
<1>2. d = [c EXCEPT !.eff = WithCall(c.eff, m)]
  BY SendsAre DEF Send, WithCall
<1>3. c.eff \in Effect(AllCalls, Jobs("frame")) /\ m \in AllCalls
  BY CallsTyped, EffectsWider DEF FrameContext
<1> HIDE DEF d
<1>4. /\ d.exists = c.exists /\ d.sdh = c.sdh /\ d.waiting = c.waiting /\ d.script = c.script
      /\ d.framesId = c.framesId /\ d.prevFinished = c.prevFinished
      /\ d.eff = WithCall(c.eff, m)
  BY <1>2 DEF FrameContext
<1> QED BY <1>1, <1>3, <1>4 DEF d

(* Calls of another kind pass on nothing.                                  *)
LEMMA FrameSendPasses ==
    ASSUME NEW c \in FrameContext(BOOLEAN, TRUE), NEW m \in FrameCalls(TRUE), m \notin Deliveries("interframe"),
           NEW A, \A a \in A : a.number \in Nat
    PROVE  FramePasses(c, FrameStage!Send(c, m), A)
<1> DEFINE d == FrameStage!Send(c, m)
           e == WithCall(c.eff, m)
           M == Deliveries("interframe")
<1>1. /\ d \in FrameContext(BOOLEAN, TRUE)
      /\ d.exists = c.exists /\ d.sdh = c.sdh /\ d.waiting = c.waiting /\ d.script = c.script
      /\ d.framesId = c.framesId /\ d.prevFinished = c.prevFinished
      /\ d.eff = e
      /\ c.eff \in Effect(AllCalls, Jobs("frame")) /\ m \in AllCalls
  BY FrameSendFields
<1>2. /\ e.jobs = c.eff.jobs /\ e.report = c.eff.report
      /\ m \notin M => \A x, y : Stream(c.eff.calls["processors"], M, x, y, A) => Stream(e.calls["processors"], M, x, y, A)
  BY <1>1, ThreadsAre, SentStreams
<1> HIDE DEF d, e
<1> QED BY <1>1, <1>2 DEF Passes, FramePasses, d

LEMMA FrameTriggerPasses ==
    ASSUME NEW c \in FrameContext(BOOLEAN, TRUE), NEW A, \A a \in A : a.number \in Nat
    PROVE  FramePasses(c, FrameStage!Trigger(c), A)
<1> DEFINE n == Free(c.sdh, MaxOut)
           m == CallNext("source", n)
<1>1. n \in 0 .. MaxOut
  BY FreeTyped, FileToFileAssumption DEF FrameContext
<1>2. m \in FrameCalls(TRUE) /\ m \notin Deliveries("interframe")
  <2>1. Is(m, "source", "next") /\ m \in FrameCalls(TRUE)
    BY <1>1, FrameCallsMade, CallsMade
  <2> QED BY <2>1 DEF Is, Deliveries
<1>3. FrameStage!Trigger(c) = IF n # 0 THEN FrameStage!Send(c, m) ELSE c
  BY FrameHandlerIs DEF FrameStage!Trigger, FrameStage!CallNext, CallNext, FrameStage!Call, Call
<1> HIDE DEF n, m
<1>4. FramePasses(c, c, A)
  BY DEF Passes, FramePasses
<1>5. FramePasses(c, FrameStage!Send(c, m), A)
  BY <1>2, FrameSendPasses
<1> QED BY <1>3, <1>4, <1>5

(* Frames are handed over.                                                 *)
LEMMA FrameDeliverPasses ==
    ASSUME NEW c \in FrameContext(BOOLEAN, TRUE), NEW A \in SUBSET FrameType, Orderly(c.sdh, A),
           NEW n \in 1 .. Len(c.sdh.out), c.sdh.next \notin NumbersOf(c.sdh.in)
    PROVE  FramePasses(c, FrameStage!Deliver([c EXCEPT !.sdh = Kept(c.sdh, n)], Taken(c.sdh, n)), A)
<1> DEFINE k == [c EXCEPT !.sdh = Kept(c.sdh, n)]
           w == [k EXCEPT !.waiting = 0]
           load == Taken(c.sdh, n)
           m == CallWith("interframe", "process", load)
           x == FrameStage!Send(w, m)
           M == Deliveries("interframe")
<1>0. \A a \in A : a.number \in Nat
  BY DEF FrameType
<1>1. FrameStage!Deliver(k, load) = FrameStage!Trigger(x)
  BY DEF FrameStage!Deliver, FrameStage!CallWith, CallWith, FrameStage!Call, Call
<1>2. /\ Settled(Kept(c.sdh, n), A) /\ Seen(Kept(c.sdh, n)) = Seen(c.sdh)
      /\ load \in Seq(FrameType) /\ load # <<>>
      /\ Batch(load, Handed(c.sdh), Handed(Kept(c.sdh, n)), A)
      /\ Kept(c.sdh, n) \in Handler
  BY <1>0, HandOver
<1> HIDE DEF load
<1>3. /\ w \in FrameContext(BOOLEAN, TRUE) /\ w.sdh = Kept(c.sdh, n)
      /\ w.eff = c.eff /\ w.exists = c.exists /\ w.script = c.script /\ w.framesId = c.framesId /\ w.prevFinished = c.prevFinished
  <2>0. 0 \in Demand(TRUE, MaxOut)
    BY FileToFileAssumption DEF Demand
  <2>1. k \in FrameContext(BOOLEAN, TRUE) /\ k.sdh = Kept(c.sdh, n)
    BY <1>2 DEF FrameContext
  <2> QED BY <2>0, <2>1 DEF FrameContext
<1> HIDE DEF k, w
<1>4. m \in FrameCalls(TRUE) /\ m \in M /\ m.load = load /\ ThreadOf(m.callee) = "processors"
  <2>1. Is(m, "interframe", "process") /\ m \in FrameCalls(TRUE)
    BY <1>2, FrameCallsMade, CallsMade
  <2>2. m.load = load
    BY DEF CallWith, Call
  <2> QED BY <2>1, <2>2, ThreadsAre DEF Is, Deliveries
<1> DEFINE e == WithCall(c.eff, m)
<1> HIDE DEF m, M
<1>5. /\ x \in FrameContext(BOOLEAN, TRUE) /\ x.exists = c.exists /\ x.sdh = w.sdh
      /\ x.script = c.script /\ x.framesId = c.framesId /\ x.prevFinished = c.prevFinished
      /\ x.eff = e
      /\ c.eff \in Effect(AllCalls, Jobs("frame")) /\ m \in AllCalls
  BY <1>3, <1>4, FrameSendFields, ZenonT(40)
<1> HIDE DEF x
<1>6. /\ e.jobs = c.eff.jobs /\ e.report = c.eff.report
      /\ \A i, y, z : Stream(c.eff.calls["processors"], M, i, y, A) /\ Batch(load, y, z, A) =>
                          Stream(e.calls["processors"], M, i, z, A)
  BY <1>0, <1>4, <1>5, ThreadsAre, SentStreams
<1> HIDE DEF e
<1>7. FramePasses(c, x, A)
  BY <1>2, <1>3, <1>5, <1>6 DEF Passes, FramePasses, M
<1>8. FramePasses(x, FrameStage!Trigger(x), A)
  BY <1>0, <1>5, FrameTriggerPasses
<1>9. FramePasses(c, FrameStage!Deliver(k, load), A)
  BY <1>1, <1>7, <1>8, FramePassesOn
<1> QED BY <1>9 DEF k, load

(* A flush.                                                                *)
LEMMA FrameFlushPasses ==
    ASSUME NEW c \in FrameContext(BOOLEAN, TRUE), NEW A \in SUBSET FrameType, Orderly(c.sdh, A)
    PROVE  FramePasses(c, FrameStage!Flush(c), A) /\ Settled(FrameStage!Flush(c).sdh, A)
<1> DEFINE d == [c EXCEPT !.sdh = TryProcessInput(c.sdh)]
           n == DeliverAmount(d.sdh, MaxOut, d.waiting)
           k == [d EXCEPT !.sdh = Kept(d.sdh, n)]
           load == Taken(d.sdh, n)
<1>0. \A a \in A : a.number \in Nat
  BY DEF FrameType
<1>1. /\ c.sdh \in Handler /\ c.waiting \in Nat /\ MaxOut \in Nat
      /\ d.sdh = TryProcessInput(c.sdh) /\ d.waiting = c.waiting
  BY FileToFileAssumption DEF FrameContext, Demand
<1>2. /\ Settled(d.sdh, A) /\ Seen(d.sdh) = Seen(c.sdh) /\ Handed(d.sdh) = Handed(c.sdh) /\ Len(d.sdh.out) \in Nat
  BY <1>0, <1>1, FlushSettles
<1>3. n \in 0 .. Len(d.sdh.out)
  BY <1>1, <1>2, DeliverAmountFits
<1>4. d \in FrameContext(BOOLEAN, TRUE)
  BY <1>1, FlushTyped DEF FrameContext
<1>5. FrameStage!Flush(c) =
          IF d.sdh.out = <<>> THEN FrameStage!Trigger(d)
          ELSE IF n = 0       THEN d
          ELSE FrameStage!Deliver(k, load)
  BY FrameFlushIs
<1>6. d.eff = c.eff /\ d.exists = c.exists /\ d.script = c.script /\ d.framesId = c.framesId /\ d.prevFinished = c.prevFinished
  BY DEF FrameContext
<1> HIDE DEF d
<1>7. FramePasses(c, d, A)
  BY <1>2, <1>4, <1>6 DEF Passes, FramePasses
<1>8. FramePasses(d, FrameStage!Trigger(d), A)
  BY <1>0, <1>4, FrameTriggerPasses
<1>9. n # 0 => FramePasses(d, FrameStage!Deliver(k, load), A)
  <2>1. n # 0 => n \in 1 .. Len(d.sdh.out)
    BY <1>2, <1>3
  <2> HIDE DEF n
  <2> QED BY <1>2, <1>4, <2>1, FrameDeliverPasses DEF Settled
<1> HIDE DEF n, k, load
<1>10. FramePasses(c, FrameStage!Flush(c), A)
  BY <1>5, <1>7, <1>8, <1>9, FramePassesOn
<1>11. FramePasses(d, FrameStage!Flush(c), A)
  <2>1. FramePasses(d, d, A)
    BY <1>4 DEF Passes, FramePasses
  <2> QED BY <1>5, <1>8, <1>9, <2>1
<1> QED BY <1>2, <1>10, <1>11 DEF FramePasses, Passes

-----------------------------------------------------------------------------
(* The inter-frame stage.                                                  *)
InterPasses(c, f, A) ==
    /\ f \in InterContext(BOOLEAN, TRUE)
    /\ Passes(c, f, "sink", Deliveries("sink"), A)
    /\ f.script = c.script /\ f.buffer = c.buffer /\ f.nextFrame = c.nextFrame /\ f.created = c.created /\ f.framesId = c.framesId /\ f.prevFinished = c.prevFinished

LEMMA InterPassesOn ==
    ASSUME NEW A, NEW c, NEW d, NEW f, InterPasses(c, d, A), InterPasses(d, f, A)
    PROVE  InterPasses(c, f, A)
BY DEF Passes, InterPasses

(* What a call changes.                                                    *)
LEMMA InterSendFields ==
    ASSUME NEW c \in InterContext(BOOLEAN, TRUE), NEW m \in InterCalls(TRUE)
    PROVE  LET d == InterStage!Common!Send(c, m)
           IN  /\ d \in InterContext(BOOLEAN, TRUE)
               /\ d.exists = c.exists /\ d.sdh = c.sdh /\ d.waiting = c.waiting /\ d.script = c.script
               /\ d.buffer = c.buffer /\ d.nextFrame = c.nextFrame /\ d.created = c.created /\ d.framesId = c.framesId /\ d.prevFinished = c.prevFinished
               /\ d.eff = WithCall(c.eff, m)
               /\ c.eff \in Effect(AllCalls, Jobs("interframe")) /\ m \in AllCalls
<1> DEFINE d == InterStage!Common!Send(c, m)
<1>1. d \in InterContext(BOOLEAN, TRUE)
  BY InterSends
<1>2. d = [c EXCEPT !.eff = WithCall(c.eff, m)]
  BY SendsAre DEF Send, WithCall
<1>3. c.eff \in Effect(AllCalls, Jobs("interframe")) /\ m \in AllCalls
  BY CallsTyped, EffectsWider DEF InterContext
<1> HIDE DEF d
<1>4. /\ d.exists = c.exists /\ d.sdh = c.sdh /\ d.waiting = c.waiting /\ d.script = c.script
      /\ d.buffer = c.buffer /\ d.nextFrame = c.nextFrame /\ d.created = c.created /\ d.framesId = c.framesId /\ d.prevFinished = c.prevFinished
      /\ d.eff = WithCall(c.eff, m)
  BY <1>2 DEF InterContext
<1> QED BY <1>1, <1>3, <1>4 DEF d

(* Calls of another kind pass on nothing.                                  *)
LEMMA InterSendPasses ==
    ASSUME NEW c \in InterContext(BOOLEAN, TRUE), NEW m \in InterCalls(TRUE), m \notin Deliveries("sink"),
           NEW A, \A a \in A : a.number \in Nat
    PROVE  InterPasses(c, InterStage!Common!Send(c, m), A)
<1> DEFINE d == InterStage!Common!Send(c, m)
           e == WithCall(c.eff, m)
           M == Deliveries("sink")
<1>1. /\ d \in InterContext(BOOLEAN, TRUE)
      /\ d.exists = c.exists /\ d.sdh = c.sdh /\ d.waiting = c.waiting /\ d.script = c.script
      /\ d.buffer = c.buffer /\ d.nextFrame = c.nextFrame /\ d.created = c.created /\ d.framesId = c.framesId /\ d.prevFinished = c.prevFinished
      /\ d.eff = e
      /\ c.eff \in Effect(AllCalls, Jobs("interframe")) /\ m \in AllCalls
  BY InterSendFields
<1>2. /\ e.jobs = c.eff.jobs /\ e.report = c.eff.report
      /\ m \notin M => \A x, y : Stream(c.eff.calls["sink"], M, x, y, A) => Stream(e.calls["sink"], M, x, y, A)
  BY <1>1, ThreadsAre, SentStreams
<1> HIDE DEF d, e
<1> QED BY <1>1, <1>2 DEF Passes, InterPasses, d

LEMMA InterTriggerPasses ==
    ASSUME NEW c \in InterContext(BOOLEAN, TRUE), NEW A, \A a \in A : a.number \in Nat
    PROVE  InterPasses(c, InterStage!Common!Trigger(c), A)
<1> DEFINE n == Free(c.sdh, MaxOut)
           m == CallNext("frame", n)
<1>1. n \in 0 .. MaxOut
  BY FreeTyped, FileToFileAssumption DEF InterContext
<1>2. m \in InterCalls(TRUE) /\ m \notin Deliveries("sink")
  <2>1. Is(m, "frame", "next") /\ m \in InterCalls(TRUE)
    BY <1>1, InterCallsMade, CallsMade
  <2> QED BY <2>1 DEF Is, Deliveries
<1>3. InterStage!Common!Trigger(c) = IF n # 0 THEN InterStage!Common!Send(c, m) ELSE c
  BY InterHandlerIs DEF InterStage!Common!Trigger, InterStage!Common!CallNext, CallNext, InterStage!Common!Call, Call
<1> HIDE DEF n, m
<1>4. InterPasses(c, c, A)
  BY DEF Passes, InterPasses
<1>5. InterPasses(c, InterStage!Common!Send(c, m), A)
  BY <1>2, InterSendPasses
<1> QED BY <1>3, <1>4, <1>5

(* Frames are handed over.                                                 *)
LEMMA InterDeliverPasses ==
    ASSUME NEW c \in InterContext(BOOLEAN, TRUE), NEW A \in SUBSET FrameType, Orderly(c.sdh, A),
           NEW n \in 1 .. Len(c.sdh.out), c.sdh.next \notin NumbersOf(c.sdh.in)
    PROVE  InterPasses(c, InterStage!Common!Deliver([c EXCEPT !.sdh = Kept(c.sdh, n)], Taken(c.sdh, n)), A)
<1> DEFINE k == [c EXCEPT !.sdh = Kept(c.sdh, n)]
           w == [k EXCEPT !.waiting = 0]
           load == Taken(c.sdh, n)
           m == CallWith("sink", "process", load)
           x == InterStage!Common!Send(w, m)
           M == Deliveries("sink")
<1>0. \A a \in A : a.number \in Nat
  BY DEF FrameType
<1>1. InterStage!Common!Deliver(k, load) = InterStage!Common!Trigger(x)
  BY DEF InterStage!Common!Deliver, InterStage!Common!CallWith, CallWith, InterStage!Common!Call, Call
<1>2. /\ Settled(Kept(c.sdh, n), A) /\ Seen(Kept(c.sdh, n)) = Seen(c.sdh)
      /\ load \in Seq(FrameType) /\ load # <<>>
      /\ Batch(load, Handed(c.sdh), Handed(Kept(c.sdh, n)), A)
      /\ Kept(c.sdh, n) \in Handler
  BY <1>0, HandOver
<1> HIDE DEF load
<1>3. /\ w \in InterContext(BOOLEAN, TRUE) /\ w.sdh = Kept(c.sdh, n)
      /\ w.eff = c.eff /\ w.exists = c.exists /\ w.script = c.script /\ w.buffer = c.buffer /\ w.nextFrame = c.nextFrame /\ w.created = c.created /\ w.framesId = c.framesId /\ w.prevFinished = c.prevFinished
  <2>0. 0 \in Demand(TRUE, MaxWrite)
    BY FileToFileAssumption DEF Demand
  <2>1. k \in InterContext(BOOLEAN, TRUE) /\ k.sdh = Kept(c.sdh, n)
    BY <1>2 DEF InterContext
  <2> QED BY <2>0, <2>1 DEF InterContext
<1> HIDE DEF k, w
<1>4. m \in InterCalls(TRUE) /\ m \in M /\ m.load = load /\ ThreadOf(m.callee) = "sink"
  <2>1. Is(m, "sink", "process") /\ m \in InterCalls(TRUE)
    BY <1>2, InterCallsMade, CallsMade
  <2>2. m.load = load
    BY DEF CallWith, Call
  <2> QED BY <2>1, <2>2, ThreadsAre DEF Is, Deliveries
<1> DEFINE e == WithCall(c.eff, m)
<1> HIDE DEF m, M
<1>5. /\ x \in InterContext(BOOLEAN, TRUE) /\ x.exists = c.exists /\ x.sdh = w.sdh
      /\ x.script = c.script /\ x.buffer = c.buffer /\ x.nextFrame = c.nextFrame /\ x.created = c.created /\ x.framesId = c.framesId /\ x.prevFinished = c.prevFinished
      /\ x.eff = e
      /\ c.eff \in Effect(AllCalls, Jobs("interframe")) /\ m \in AllCalls
  <2>1. /\ x \in InterContext(BOOLEAN, TRUE)
        /\ x.exists = w.exists /\ x.sdh = w.sdh /\ x.waiting = w.waiting /\ x.script = w.script
        /\ x.buffer = w.buffer /\ x.nextFrame = w.nextFrame /\ x.created = w.created
        /\ x.framesId = w.framesId /\ x.prevFinished = w.prevFinished
        /\ x.eff = WithCall(w.eff, m)
        /\ w.eff \in Effect(AllCalls, Jobs("interframe")) /\ m \in AllCalls
    BY <1>3, <1>4, InterSendFields, ZenonT(40)
  <2> HIDE DEF x
  <2> QED BY <1>3, <2>1
<1> HIDE DEF x
<1>6. /\ e.jobs = c.eff.jobs /\ e.report = c.eff.report
      /\ \A i, y, z : Stream(c.eff.calls["sink"], M, i, y, A) /\ Batch(load, y, z, A) =>
                          Stream(e.calls["sink"], M, i, z, A)
  BY <1>0, <1>4, <1>5, ThreadsAre, SentStreams
<1> HIDE DEF e
<1>7. InterPasses(c, x, A)
  BY <1>2, <1>3, <1>5, <1>6 DEF Passes, InterPasses, M
<1>8. InterPasses(x, InterStage!Common!Trigger(x), A)
  BY <1>0, <1>5, InterTriggerPasses
<1>9. InterPasses(c, InterStage!Common!Deliver(k, load), A)
  BY <1>1, <1>7, <1>8, InterPassesOn
<1> QED BY <1>9 DEF k, load

(* A flush.                                                                *)
LEMMA InterFlushPasses ==
    ASSUME NEW c \in InterContext(BOOLEAN, TRUE), NEW A \in SUBSET FrameType, Orderly(c.sdh, A)
    PROVE  InterPasses(c, InterStage!Common!Flush(c), A) /\ Settled(InterStage!Common!Flush(c).sdh, A)
<1> DEFINE d == [c EXCEPT !.sdh = TryProcessInput(c.sdh)]
           n == DeliverAmount(d.sdh, MaxOut, d.waiting)
           k == [d EXCEPT !.sdh = Kept(d.sdh, n)]
           load == Taken(d.sdh, n)
<1>0. \A a \in A : a.number \in Nat
  BY DEF FrameType
<1>1. /\ c.sdh \in Handler /\ c.waiting \in Nat /\ MaxOut \in Nat
      /\ d.sdh = TryProcessInput(c.sdh) /\ d.waiting = c.waiting
  BY FileToFileAssumption DEF InterContext, Demand
<1>2. /\ Settled(d.sdh, A) /\ Seen(d.sdh) = Seen(c.sdh) /\ Handed(d.sdh) = Handed(c.sdh) /\ Len(d.sdh.out) \in Nat
  BY <1>0, <1>1, FlushSettles
<1>3. n \in 0 .. Len(d.sdh.out)
  BY <1>1, <1>2, DeliverAmountFits
<1>4. d \in InterContext(BOOLEAN, TRUE)
  BY <1>1, FlushTyped DEF InterContext
<1>5. InterStage!Common!Flush(c) =
          IF d.sdh.out = <<>> THEN InterStage!Common!Trigger(d)
          ELSE IF n = 0       THEN d
          ELSE InterStage!Common!Deliver(k, load)
  BY InterFlushIs
<1>6. d.eff = c.eff /\ d.exists = c.exists /\ d.script = c.script /\ d.buffer = c.buffer /\ d.nextFrame = c.nextFrame /\ d.created = c.created /\ d.framesId = c.framesId /\ d.prevFinished = c.prevFinished
  BY DEF InterContext
<1> HIDE DEF d
<1>7. InterPasses(c, d, A)
  BY <1>2, <1>4, <1>6 DEF Passes, InterPasses
<1>8. InterPasses(d, InterStage!Common!Trigger(d), A)
  BY <1>0, <1>4, InterTriggerPasses
<1>9. n # 0 => InterPasses(d, InterStage!Common!Deliver(k, load), A)
  <2>1. n # 0 => n \in 1 .. Len(d.sdh.out)
    BY <1>2, <1>3
  <2> HIDE DEF n
  <2> QED BY <1>2, <1>4, <2>1, InterDeliverPasses DEF Settled
<1> HIDE DEF n, k, load
<1>10. InterPasses(c, InterStage!Common!Flush(c), A)
  BY <1>5, <1>7, <1>8, <1>9, InterPassesOn
<1>11. InterPasses(d, InterStage!Common!Flush(c), A)
  <2>1. InterPasses(d, d, A)
    BY <1>4 DEF Passes, InterPasses
  <2> QED BY <1>5, <1>8, <1>9, <2>1
<1> QED BY <1>2, <1>10, <1>11 DEF InterPasses, Passes
-----------------------------------------------------------------------------
(* The source. Its flush frame, with the number z, shows in its calls once *)
(* it is passed on.                                                        *)
Sent(c, z) == Passing(IF c.eofFlushed THEN z ELSE -1)

SourcePasses(v, c, f, z) ==
    /\ f \in SourceContext(v, BOOLEAN, TRUE)
    /\ f.exists = c.exists /\ f.opened = c.opened /\ f.loaded = c.loaded
    /\ f.processed = c.processed /\ f.eofReached = c.eofReached
    /\ f.eff.jobs = c.eff.jobs /\ f.eff.report = c.eff.report
    /\ Seen(f.sdh) = Seen(c.sdh)
    /\ Settled(c.sdh, Passing(z)) => Settled(f.sdh, Passing(z))
    /\ c.eofFlushed => f.eofFlushed
    /\ f.eofFlushed => c.eofFlushed \/ z \in Nat
    /\ \A x : Stream(c.eff.calls["processors"], Deliveries("frame"), x, Handed(c.sdh), Sent(c, z)) =>
                  Stream(f.eff.calls["processors"], Deliveries("frame"), x, Handed(f.sdh), Sent(f, z))

LEMMA SourcePassesOn ==
    ASSUME NEW v, NEW z, NEW c, NEW d, NEW f, SourcePasses(v, c, d, z), SourcePasses(v, d, f, z)
    PROVE  SourcePasses(v, c, f, z)
<1>1. \A x : Stream(c.eff.calls["processors"], Deliveries("frame"), x, Handed(c.sdh), Sent(c, z)) =>
                  Stream(f.eff.calls["processors"], Deliveries("frame"), x, Handed(f.sdh), Sent(f, z))
  BY DEF SourcePasses
<1> QED BY <1>1 DEF SourcePasses

(* What a call changes.                                                    *)
LEMMA SourceSendFields ==
    ASSUME NEW v, NEW c \in SourceContext(v, BOOLEAN, TRUE), NEW m \in SourceCalls(TRUE)
    PROVE  LET d == Source!Send(c, m)
           IN  /\ d \in SourceContext(v, BOOLEAN, TRUE)
               /\ d.exists = c.exists /\ d.opened = c.opened /\ d.loaded = c.loaded
               /\ d.processed = c.processed /\ d.eofReached = c.eofReached
               /\ d.eofFlushed = c.eofFlushed /\ d.sdh = c.sdh /\ d.waiting = c.waiting
               /\ d.eff = WithCall(c.eff, m)
               /\ c.eff \in Effect(AllCalls, {}) /\ m \in AllCalls
<1> DEFINE d == Source!Send(c, m)
<1>1. d \in SourceContext(v, BOOLEAN, TRUE)
  BY SourceSends
<1>2. d = [c EXCEPT !.eff = WithCall(c.eff, m)]
  BY SendsAre DEF Send, WithCall
<1>3. c.eff \in Effect(AllCalls, {}) /\ m \in AllCalls
  BY CallsTyped, EffectsWider DEF SourceContext
<1> HIDE DEF d
<1>4. /\ d.exists = c.exists /\ d.opened = c.opened /\ d.loaded = c.loaded
      /\ d.processed = c.processed /\ d.eofReached = c.eofReached
      /\ d.eofFlushed = c.eofFlushed /\ d.sdh = c.sdh /\ d.waiting = c.waiting
      /\ d.eff = WithCall(c.eff, m)
  BY <1>2 DEF SourceContext
<1> QED BY <1>1, <1>3, <1>4 DEF d

(* Calls of another kind pass on nothing.                                  *)
LEMMA SourceSendPasses ==
    ASSUME NEW v, NEW c \in SourceContext(v, BOOLEAN, TRUE), NEW m \in SourceCalls(TRUE), m \notin Deliveries("frame"), NEW z
    PROVE  SourcePasses(v, c, Source!Send(c, m), z)
<1> DEFINE d == Source!Send(c, m)
           e == WithCall(c.eff, m)
           M == Deliveries("frame")
<1>1. /\ d \in SourceContext(v, BOOLEAN, TRUE)
      /\ d.exists = c.exists /\ d.opened = c.opened /\ d.loaded = c.loaded
      /\ d.processed = c.processed /\ d.eofReached = c.eofReached
      /\ d.eofFlushed = c.eofFlushed /\ d.sdh = c.sdh /\ d.waiting = c.waiting
      /\ d.eff = e
      /\ c.eff \in Effect(AllCalls, {}) /\ m \in AllCalls
  BY SourceSendFields
<1>2. \A a \in Sent(c, z) : a.number \in Nat
  BY FrameSets DEF Sent
<1>3. /\ e.jobs = c.eff.jobs /\ e.report = c.eff.report
      /\ m \notin M => \A x, y : Stream(c.eff.calls["processors"], M, x, y, Sent(c, z)) => Stream(e.calls["processors"], M, x, y, Sent(c, z))
  BY <1>1, <1>2, ThreadsAre, SentStreams
<1> HIDE DEF d, e
<1>4. Sent(d, z) = Sent(c, z)
  BY <1>1 DEF Sent
<1> QED BY <1>1, <1>3, <1>4 DEF SourcePasses, d

(* Frames are handed over; behind the flush frame the source is done.      *)
LEMMA SourceDeliverPasses ==
    ASSUME NEW v, NEW c \in SourceContext(v, BOOLEAN, TRUE), NEW z \in Nat \union {-1}, Orderly(c.sdh, Passing(z)),
           NEW n \in 1 .. Len(c.sdh.out), c.sdh.next \notin NumbersOf(c.sdh.in)
    PROVE  SourcePasses(v, c, Source!Deliver([c EXCEPT !.sdh = Kept(c.sdh, n)], Taken(c.sdh, n)), z)
<1> DEFINE k == [c EXCEPT !.sdh = Kept(c.sdh, n)]
           w == [k EXCEPT !.waiting = 0]
           load == Taken(c.sdh, n)
           m == CallWith("frame", "process", load)
           x == Source!Send(w, m)
           y == [x EXCEPT !.eofFlushed = TRUE]
           M == Deliveries("frame")
           A == Passing(z)
           p == "processors"
<1>1. Source!Deliver(k, load) = IF HasFlush(load) THEN Source!Send(y, Call("frame", "finish")) ELSE Source!Send(x, Call("source", "start"))
  BY DEF Source!Deliver, Source!Trigger, Source!CallWith, CallWith, Source!Call, Call,
         Source!HasFlush, HasFlush, Source!IsFlush, IsFlush
<1>2. /\ Settled(Kept(c.sdh, n), A) /\ Seen(Kept(c.sdh, n)) = Seen(c.sdh)
      /\ load \in Seq(FrameType) /\ load # <<>> /\ load \in Seq(A)
      /\ Batch(load, Handed(c.sdh), Handed(Kept(c.sdh, n)), A)
      /\ Kept(c.sdh, n) \in Handler
  BY FrameSets, HandOver
<1> HIDE DEF load
<1>3. /\ w \in SourceContext(v, BOOLEAN, TRUE) /\ w.sdh = Kept(c.sdh, n) /\ w.eff = c.eff
      /\ w.exists = c.exists /\ w.opened = c.opened /\ w.loaded = c.loaded
      /\ w.processed = c.processed /\ w.eofReached = c.eofReached /\ w.eofFlushed = c.eofFlushed
  <2>0. 0 \in Demand(TRUE, MaxOut)
    BY FileToFileAssumption DEF Demand
  <2>1. k \in SourceContext(v, BOOLEAN, TRUE) /\ k.sdh = Kept(c.sdh, n)
    BY <1>2 DEF SourceContext
  <2> QED BY <2>0, <2>1 DEF SourceContext
<1> HIDE DEF k, w
<1>4. m \in SourceCalls(TRUE) /\ m \in M /\ m.load = load /\ ThreadOf(m.callee) = p
  <2>1. Is(m, "frame", "process") /\ m \in SourceCalls(TRUE)
    BY <1>2, SourceCallsMade, CallsMade
  <2>2. m.load = load
    BY DEF CallWith, Call
  <2> QED BY <2>1, <2>2, ThreadsAre DEF Is, Deliveries
<1> DEFINE e == WithCall(c.eff, m)
<1> HIDE DEF m, M
<1>5. /\ x \in SourceContext(v, BOOLEAN, TRUE) /\ x.sdh = Kept(c.sdh, n) /\ x.eff = e
      /\ x.exists = c.exists /\ x.opened = c.opened /\ x.loaded = c.loaded
      /\ x.processed = c.processed /\ x.eofReached = c.eofReached /\ x.eofFlushed = c.eofFlushed
      /\ c.eff \in Effect(AllCalls, {}) /\ m \in AllCalls
  <2>1. /\ x \in SourceContext(v, BOOLEAN, TRUE)
        /\ x.exists = w.exists /\ x.opened = w.opened /\ x.loaded = w.loaded
        /\ x.processed = w.processed /\ x.eofReached = w.eofReached
        /\ x.eofFlushed = w.eofFlushed /\ x.sdh = w.sdh
        /\ x.eff = WithCall(w.eff, m)
        /\ w.eff \in Effect(AllCalls, {}) /\ m \in AllCalls
    BY <1>3, <1>4, SourceSendFields, ZenonT(40)
  <2> HIDE DEF x
  <2> QED BY <1>3, <2>1
<1> HIDE DEF x
<1>6. /\ e.jobs = c.eff.jobs /\ e.report = c.eff.report
      /\ \A B : (\A a \in B : a.number \in Nat) =>
             \A i, r, s : Stream(c.eff.calls[p], M, i, r, B) /\ Batch(load, r, s, B) => Stream(e.calls[p], M, i, s, B)
  <2>1. e.jobs = c.eff.jobs /\ e.report = c.eff.report
    BY <1>5, CallsTyped DEF Effect, Queues, WithCall
  <2>2. ASSUME NEW B, \A a \in B : a.number \in Nat
        PROVE  m \in M /\ ThreadOf(m.callee) = p =>
                   \A i, r, s : Stream(c.eff.calls[p], M, i, r, B) /\ Batch(m.load, r, s, B) => Stream(e.calls[p], M, i, s, B)
    BY <1>5, <2>2, ThreadsAre, SentStreams
  <2> HIDE DEF e
  <2> QED BY <1>4, <2>1, <2>2
<1> HIDE DEF e
<1>7. ASSUME HasFlush(load) PROVE SourcePasses(v, c, Source!Deliver(k, load), z)
  <2>1. z \in Nat
    <3>1. PICK i \in DOMAIN load : IsFlush(load[i])
      BY <1>7 DEF HasFlush
    <3>2. load[i] \in A
      BY <1>2, <3>1 DEF Batch, Range
    <3> QED BY <3>1, <3>2, FrameSets
  <2>2. /\ y \in SourceContext(v, BOOLEAN, TRUE) /\ y.sdh = Kept(c.sdh, n) /\ y.eff = e
        /\ y.exists = c.exists /\ y.opened = c.opened /\ y.loaded = c.loaded
        /\ y.processed = c.processed /\ y.eofReached = c.eofReached /\ y.eofFlushed
    BY <1>5 DEF SourceContext
  <2> HIDE DEF y
  <2>3. ASSUME NEW i, Stream(c.eff.calls[p], M, i, Handed(c.sdh), Sent(c, z))
        PROVE  Stream(y.eff.calls[p], M, i, Handed(y.sdh), Sent(y, z))
    <3>1. Sent(c, z) \subseteq A /\ Sent(y, z) = A /\ \A a \in A : a.number \in Nat
      BY <2>2, FrameSets DEF Sent
    <3>2. Stream(c.eff.calls[p], M, i, Handed(c.sdh), A)
      BY <2>3, <3>1, StreamWider
    <3> HIDE DEF A
    <3>3. Stream(e.calls[p], M, i, Handed(Kept(c.sdh, n)), A)
      BY <1>2, <1>6, <3>1, <3>2
    <3> QED BY <2>2, <3>1, <3>3
  <2>4. SourcePasses(v, c, y, z)
    BY <1>2, <1>6, <2>1, <2>2, <2>3 DEF SourcePasses, M
  <2>5. Call("frame", "finish") \in SourceCalls(TRUE) /\ Call("frame", "finish") \notin Deliveries("frame")
    <3>1. Is(Call("frame", "finish"), "frame", "finish") /\ Call("frame", "finish") \in SourceCalls(TRUE)
      BY SourceCallsMade, CallsMade
    <3> QED BY <3>1 DEF Is, Deliveries
  <2>6. SourcePasses(v, y, Source!Send(y, Call("frame", "finish")), z)
    BY <2>2, <2>5, SourceSendPasses
  <2> QED BY <1>1, <1>7, <2>4, <2>6, SourcePassesOn
<1>8. ASSUME ~HasFlush(load) PROVE SourcePasses(v, c, Source!Deliver(k, load), z)
  <2>1. ASSUME NEW i, Stream(c.eff.calls[p], M, i, Handed(c.sdh), Sent(c, z))
        PROVE  Stream(x.eff.calls[p], M, i, Handed(x.sdh), Sent(x, z))
    <3>1. Range(load) \subseteq Passing(-1)
      <4>1. \A i_1 \in DOMAIN load : load[i_1] \in A /\ ~IsFlush(load[i_1])
        BY <1>2, <1>8 DEF HasFlush, Batch, Range
      <4> QED BY <4>1, FrameSets DEF Range
    <3>2. Passing(-1) \subseteq Sent(c, z) /\ Sent(x, z) = Sent(c, z) /\ \A a \in Sent(c, z) : a.number \in Nat
      BY <1>5, FrameSets DEF Sent
    <3>3. Batch(load, Handed(c.sdh), Handed(Kept(c.sdh, n)), Sent(c, z))
      BY <1>2, <3>1, <3>2 DEF Batch
    <3>4. Stream(e.calls[p], M, i, Handed(Kept(c.sdh, n)), Sent(c, z))
      BY <1>6, <2>1, <3>2, <3>3
    <3> QED BY <1>5, <3>2, <3>4
  <2>2. SourcePasses(v, c, x, z)
    BY <1>2, <1>5, <1>6, <2>1 DEF SourcePasses, M
  <2>3. Call("source", "start") \in SourceCalls(TRUE) /\ Call("source", "start") \notin Deliveries("frame")
    <3>1. Is(Call("source", "start"), "source", "start") /\ Call("source", "start") \in SourceCalls(TRUE)
      BY SourceCallsMade, CallsMade DEF Stage
    <3> QED BY <3>1 DEF Is, Deliveries
  <2>4. SourcePasses(v, x, Source!Send(x, Call("source", "start")), z)
    BY <1>5, <2>3, SourceSendPasses
  <2> QED BY <1>1, <1>8, <2>2, <2>4, SourcePassesOn
<1>9. SourcePasses(v, c, Source!Deliver(k, load), z)
  BY <1>7, <1>8
<1> QED BY <1>9 DEF k, load

(* A flush.                                                                *)
LEMMA SourceFlushPasses ==
    ASSUME NEW v, NEW c \in SourceContext(v, BOOLEAN, TRUE), NEW z \in Nat \union {-1}, Orderly(c.sdh, Passing(z))
    PROVE  SourcePasses(v, c, Source!Flush(c), z) /\ Settled(Source!Flush(c).sdh, Passing(z))
<1> DEFINE d == [c EXCEPT !.sdh = TryProcessInput(c.sdh)]
           n == DeliverAmount(d.sdh, MaxRead, d.waiting)
           k == [d EXCEPT !.sdh = Kept(d.sdh, n)]
           load == Taken(d.sdh, n)
           A == Passing(z)
<1>0. \A a \in A : a.number \in Nat
  BY FrameSets
<1> HIDE DEF A
<1>1. /\ c.sdh \in Handler /\ c.waiting \in Nat /\ MaxRead \in Nat
      /\ d.sdh = TryProcessInput(c.sdh) /\ d.waiting = c.waiting
  BY FileToFileAssumption DEF SourceContext, Demand
<1>2. /\ Settled(d.sdh, A) /\ Seen(d.sdh) = Seen(c.sdh) /\ Handed(d.sdh) = Handed(c.sdh) /\ Len(d.sdh.out) \in Nat
  BY <1>0, <1>1, FlushSettles DEF A
<1>3. n \in 0 .. Len(d.sdh.out)
  BY <1>1, <1>2, DeliverAmountFits
<1>4. d \in SourceContext(v, BOOLEAN, TRUE)
  BY <1>1, FlushTyped DEF SourceContext
<1>5. Source!Flush(c) =
          IF d.sdh.out = <<>> THEN Source!Trigger(d)
          ELSE IF n = 0       THEN d
          ELSE Source!Deliver(k, load)
  BY SourceFlushIs
<1>6. /\ d.eff = c.eff /\ d.exists = c.exists /\ d.opened = c.opened /\ d.loaded = c.loaded
      /\ d.processed = c.processed /\ d.eofReached = c.eofReached /\ d.eofFlushed = c.eofFlushed
  BY DEF SourceContext
<1> HIDE DEF d
<1>7. SourcePasses(v, c, d, z)
  BY <1>2, <1>4, <1>6 DEF SourcePasses, Sent, A
<1>8. SourcePasses(v, d, Source!Trigger(d), z)
  <2>1. Call("source", "start") \in SourceCalls(TRUE) /\ Call("source", "start") \notin Deliveries("frame")
    <3>1. Is(Call("source", "start"), "source", "start") /\ Call("source", "start") \in SourceCalls(TRUE)
      BY SourceCallsMade, CallsMade DEF Stage
    <3> QED BY <3>1 DEF Is, Deliveries
  <2>2. Source!Trigger(d) = Source!Send(d, Call("source", "start"))
    BY DEF Source!Trigger, Source!Call, Call
  <2> QED BY <1>4, <2>1, <2>2, SourceSendPasses
<1>9. n # 0 => SourcePasses(v, d, Source!Deliver(k, load), z)
  <2>1. n # 0 => n \in 1 .. Len(d.sdh.out)
    BY <1>2, <1>3
  <2> HIDE DEF n
  <2> QED BY <1>2, <1>4, <2>1, SourceDeliverPasses DEF Settled, A
<1> HIDE DEF n, k, load
<1>10. SourcePasses(v, c, Source!Flush(c), z)
  BY <1>5, <1>7, <1>8, <1>9, SourcePassesOn
<1>11. SourcePasses(v, d, Source!Flush(c), z)
  <2>1. SourcePasses(v, d, d, z)
    BY <1>4 DEF SourcePasses
  <2> QED BY <1>5, <1>8, <1>9, <2>1
<1> QED BY <1>2, <1>10, <1>11 DEF SourcePasses, A
-----------------------------------------------------------------------------
(* The sink. Its handler passes the frames on to the worker thread.        *)
SinkSame(c, f) ==
    /\ f \in SinkContext(BOOLEAN)
    /\ f.exists = c.exists /\ f.prevFinished = c.prevFinished /\ f.codecOpen = c.codecOpen
    /\ f.buffer = c.buffer /\ f.started = c.started /\ f.nextEntry = c.nextEntry
    /\ f.written = c.written /\ f.finished = c.finished
    /\ f.eff.jobs = c.eff.jobs /\ f.eff.report = c.eff.report

SinkHands(c, f, A) ==
    \/ f.eff.calls["writer"] = c.eff.calls["writer"] /\ Handed(f.sdh) = Handed(c.sdh)
    \/ \E load \in Seq(A) :
          /\ load # <<>> /\ Batch(load, Handed(c.sdh), Handed(f.sdh), A)
          /\ Handed(f.sdh) <= Handed(c.sdh) + MaxWrite
          /\ f.eff.calls["writer"] =
                Append(c.eff.calls["writer"],
                       IF HasFlush(load) THEN Call("writer", "last") ELSE CallWith("writer", "frames", load))

(* What a call changes.                                                    *)
LEMMA SinkSendFields ==
    ASSUME NEW c \in SinkContext(BOOLEAN), NEW m \in SinkCalls
    PROVE  LET d == Sink!Send(c, m)
           IN  /\ SinkSame(c, d) /\ d.sdh = c.sdh
               /\ d.eff.calls["writer"] = IF ThreadOf(m.callee) = "writer" THEN Append(c.eff.calls["writer"], m)
                                          ELSE c.eff.calls["writer"]
<1> DEFINE d == Sink!Send(c, m)
           e == WithCall(c.eff, m)
<1>1. d \in SinkContext(BOOLEAN)
  BY SinkSends
<1>2. d = [c EXCEPT !.eff = e]
  BY SendsAre DEF Send, WithCall
<1>3. c.eff \in Effect(AllCalls, {}) /\ m \in AllCalls
  BY CallsTyped, EffectsWider DEF SinkContext
<1>4. /\ e.jobs = c.eff.jobs /\ e.report = c.eff.report
      /\ e.calls["writer"] = IF ThreadOf(m.callee) = "writer" THEN Append(c.eff.calls["writer"], m)
                             ELSE c.eff.calls["writer"]
  BY <1>3, CallsTyped, ThreadsAre DEF Effect, Queues, WithCall
<1> HIDE DEF d, e
<1>5. /\ d.eff = e /\ d.sdh = c.sdh
      /\ d.exists = c.exists /\ d.prevFinished = c.prevFinished /\ d.codecOpen = c.codecOpen
      /\ d.buffer = c.buffer /\ d.started = c.started /\ d.nextEntry = c.nextEntry
      /\ d.written = c.written /\ d.finished = c.finished
  BY <1>2 DEF SinkContext
<1> QED BY <1>1, <1>4, <1>5 DEF SinkSame, d

LEMMA SinkTriggerFields ==
    ASSUME NEW c \in SinkContext(BOOLEAN)
    PROVE  LET d == Sink!Trigger(c)
           IN  SinkSame(c, d) /\ d.sdh = c.sdh /\ d.eff.calls["writer"] = c.eff.calls["writer"]
<1> DEFINE n == Free(c.sdh, MaxWrite)
           m == CallNext("interframe", n)
<1>1. n \in 0 .. MaxWrite /\ Sink!Trigger(c) = Sink!Send(c, m)
  BY SinkTriggerTyped
<1>2. Is(m, "interframe", "next") /\ m \in SinkCalls
  BY <1>1, SinkCallsMade, CallsMade
<1>3. ThreadOf(m.callee) # "writer"
  BY <1>2, ThreadsAre DEF Is
<1> HIDE DEF m
<1> QED BY <1>1, <1>2, <1>3, SinkSendFields

(* A flush.                                                                *)
LEMMA SinkFlushPasses ==
    ASSUME NEW c \in SinkContext(BOOLEAN), NEW A \in SUBSET FrameType, Orderly(c.sdh, A)
    PROVE  LET f == Sink!Flush(c)
           IN  SinkSame(c, f) /\ Settled(f.sdh, A) /\ Seen(f.sdh) = Seen(c.sdh) /\ SinkHands(c, f, A)
<1> DEFINE f == Sink!Flush(c)
           d == [c EXCEPT !.sdh = TryProcessInput(c.sdh)]
           n == DeliverAmount(d.sdh, MaxWrite, Free(d.sdh, MaxWrite))
           k == [d EXCEPT !.sdh = Kept(d.sdh, n)]
           load == Taken(d.sdh, n)
           m == IF HasFlush(load) THEN Call("writer", "last") ELSE CallWith("writer", "frames", load)
<1>0. \A a \in A : a.number \in Nat
  BY DEF FrameType
<1>1. c.sdh \in Handler /\ MaxWrite \in Nat /\ d.sdh = TryProcessInput(c.sdh)
  BY FileToFileAssumption DEF SinkContext
<1>2. /\ Settled(d.sdh, A) /\ Seen(d.sdh) = Seen(c.sdh) /\ Handed(d.sdh) = Handed(c.sdh) /\ Len(d.sdh.out) \in Nat
      /\ d.sdh \in Handler
  BY <1>0, <1>1, FlushSettles, FlushTyped
<1>3. n \in 0 .. Len(d.sdh.out) /\ n <= MaxWrite
  <2> HIDE DEF d
  <2> DEFINE a == Free(d.sdh, MaxWrite)
  <2>1. a \in 0 .. MaxWrite /\ a \in Nat
    BY <1>1, <1>2, FreeTyped
  <2> HIDE DEF a
  <2>2. DeliverAmount(d.sdh, MaxWrite, a) \in 0 .. Len(d.sdh.out) /\ DeliverAmount(d.sdh, MaxWrite, a) <= a
    BY <1>1, <1>2, <2>1, DeliverAmountFits
  <2> QED BY <1>1, <1>2, <2>1, <2>2 DEF a
<1>4. d \in SinkContext(BOOLEAN)
  BY <1>1, <1>2 DEF SinkContext
<1>5. f = IF d.sdh.out = <<>> THEN Sink!Trigger(d)
          ELSE IF n = 0       THEN d
          ELSE Sink!Deliver(k, load)
  BY SinkFlushIs
<1>6. SinkSame(c, d) /\ d.eff = c.eff
  <2>1. /\ d.exists = c.exists /\ d.prevFinished = c.prevFinished /\ d.codecOpen = c.codecOpen
        /\ d.buffer = c.buffer /\ d.started = c.started /\ d.nextEntry = c.nextEntry
        /\ d.written = c.written /\ d.finished = c.finished /\ d.eff = c.eff
    BY DEF SinkContext
  <2> HIDE DEF d
  <2> QED BY <1>4, <2>1 DEF SinkSame
<1> HIDE DEF d, f
<1>7. CASE d.sdh.out = <<>>
  <2>1. SinkSame(d, f) /\ f.sdh = d.sdh /\ f.eff.calls["writer"] = d.eff.calls["writer"]
    BY <1>4, <1>5, <1>7, SinkTriggerFields
  <2> QED BY <1>2, <1>6, <2>1 DEF f, SinkSame, SinkHands
<1>8. CASE d.sdh.out # <<>> /\ n = 0
  BY <1>2, <1>5, <1>6, <1>8 DEF f, SinkSame, SinkHands
<1>9. CASE d.sdh.out # <<>> /\ n # 0
  <2>1. n \in 1 .. Len(d.sdh.out)
    BY <1>2, <1>3, <1>9
  <2> HIDE DEF n
  <2>2. /\ Settled(Kept(d.sdh, n), A) /\ Seen(Kept(d.sdh, n)) = Seen(d.sdh)
        /\ load \in Seq(FrameType) /\ load # <<>> /\ load \in Seq(A)
        /\ Batch(load, Handed(d.sdh), Handed(Kept(d.sdh, n)), A)
        /\ Kept(d.sdh, n) \in Handler
        /\ Handed(Kept(d.sdh, n)) = Handed(d.sdh) + n
    BY <1>2, <2>1, HandOver DEF Settled
  <2>10. Handed(Kept(d.sdh, n)) <= Handed(c.sdh) + MaxWrite
    <3>1. Handed(d.sdh) \in Int
      <4>1. d.sdh.next \in Nat
        BY <1>2 DEF Settled, Orderly
      <4> QED BY <1>2, <4>1 DEF Handed
    <3> QED BY <1>1, <1>2, <1>3, <2>2, <3>1
  <2>3. f = Sink!Send(k, m)
    BY <1>5, <1>9 DEF Sink!Deliver, Sink!HasFlush, HasFlush, Sink!IsFlush, IsFlush, Sink!CallWith, CallWith, Sink!Call, Call
  <2> HIDE DEF load
  <2>4. SinkSame(c, k) /\ k.sdh = Kept(d.sdh, n) /\ k.eff = c.eff /\ k \in SinkContext(BOOLEAN)
    <3>1. k \in SinkContext(BOOLEAN) /\ k.sdh = Kept(d.sdh, n)
      BY <1>4, <2>2 DEF SinkContext
    <3>2. /\ k.exists = d.exists /\ k.prevFinished = d.prevFinished /\ k.codecOpen = d.codecOpen
          /\ k.buffer = d.buffer /\ k.started = d.started /\ k.nextEntry = d.nextEntry
          /\ k.written = d.written /\ k.finished = d.finished /\ k.eff = d.eff
      BY <1>4 DEF SinkContext
    <3> HIDE DEF k
    <3> QED BY <1>6, <3>1, <3>2 DEF SinkSame
  <2> HIDE DEF k
  <2>5. m \in SinkCalls /\ ThreadOf(m.callee) = "writer"
    <3>1. CASE HasFlush(load)
      <4>1. Is(Call("writer", "last"), "writer", "last") /\ Call("writer", "last") \in SinkCalls
        BY SinkCallsMade, CallsMade
      <4> QED BY <3>1, <4>1, ThreadsAre DEF Is
    <3>2. CASE ~HasFlush(load)
      <4>1. Is(CallWith("writer", "frames", load), "writer", "frames") /\ CallWith("writer", "frames", load) \in SinkCalls
        BY <2>2, <3>2, SinkCallsMade, CallsMade
      <4> QED BY <3>2, <4>1, ThreadsAre DEF Is
    <3> QED BY <3>1, <3>2
  <2> DEFINE g == m
  <2>6. /\ SinkSame(k, f) /\ f.sdh = k.sdh /\ f.eff.calls["writer"] = Append(k.eff.calls["writer"], g)
    BY <2>3, <2>4, <2>5, SinkSendFields
  <2>7. SinkSame(c, f)
    BY <2>4, <2>6 DEF SinkSame
  <2>8. SinkHands(c, f, A)
    BY <1>2, <2>2, <2>4, <2>6, <2>10 DEF SinkHands
  <2>9. Settled(f.sdh, A) /\ Seen(f.sdh) = Seen(c.sdh)
    BY <1>2, <2>2, <2>4, <2>6
  <2> QED BY <2>7, <2>8, <2>9 DEF f
<1> QED BY <1>7, <1>8, <1>9
-----------------------------------------------------------------------------
(* Part 4: the jobs of the stages, as functions of their contexts.         *)

(* A stage begins every job with nothing to send.                          *)
LEMMA NothingSent ==
    ASSUME NEW c, c.eff = NoEffects
    PROVE  /\ c.eff.jobs = {} /\ c.eff.report = "none"
           /\ \A t \in Thread : \A M, A : \A h \in Nat : Stream(c.eff.calls[t], M, h, h, A)
<1>1. c.eff.jobs = {} /\ c.eff.report = "none" /\ \A t \in Thread : c.eff.calls[t] = <<>>
  BY DEF NoEffects
<1>2. ASSUME NEW M, NEW A, NEW h \in Nat PROVE Stream(<<>>, M, h, h, A)
  <2>1. \A i \in DOMAIN <<>> : <<>>[i] \notin M
    OBVIOUS
  <2> QED BY <2>1, SilentStream
<1> QED BY <1>1, <1>2

LEMMA HandedTyped ==
    ASSUME NEW A, NEW h, Orderly(h, A)
    PROVE  Handed(h) \in Nat /\ Handed(h) <= h.next /\ h.next \in Nat /\ Len(h.out) \in Nat
<1>1. h.out \in Seq(A) /\ h.next \in Nat /\ Len(h.out) <= h.next
  BY DEF Orderly
<1>2. Len(h.out) \in Nat
  BY <1>1
<1> QED BY <1>1, <1>2 DEF Handed

(* What a job of the frame stage that evaluates nothing and takes no       *)
(* result leaves behind.                                                   *)
FrameDone(c, f, A, report) ==
    /\ f \in FrameContext(BOOLEAN, TRUE)
    /\ Settled(f.sdh, A) /\ Seen(f.sdh) = Seen(c.sdh)
    /\ f.eff.jobs = {} /\ f.eff.report = report /\ f.framesId = c.framesId
    /\ Stream(f.eff.calls["processors"], Deliveries("interframe"), Handed(c.sdh), Handed(f.sdh), A)

LEMMA FrameDoneWhenPassed ==
    ASSUME NEW A, NEW c, Settled(c.sdh, A), NEW d, d.sdh = c.sdh, d.eff = NoEffects, d.framesId = c.framesId,
           NEW f, FramePasses(d, f, A)
    PROVE  FrameDone(c, f, A, "none")
<1>1. Handed(c.sdh) \in Nat
  BY HandedTyped DEF Settled
<1>2. d.eff.jobs = {} /\ d.eff.report = "none" /\ Stream(d.eff.calls["processors"], Deliveries("interframe"), Handed(c.sdh), Handed(c.sdh), A)
  BY <1>1, NothingSent, ThreadsAre
<1> QED BY <1>2 DEF FrameDone, FramePasses, Passes

LEMMA FrameJobsDone ==
    ASSUME NEW c \in FrameContext(BOOLEAN, TRUE), c.eff = NoEffects, NEW A \in SUBSET FrameType, Settled(c.sdh, A)
    PROVE  /\ FrameDone(c, FrameStage!Init(c), A, "none")
           /\ FrameDone(c, FrameStage!Params(c), A, "none")
           /\ FrameDone(c, FrameStage!Start(c), A, "none")
           /\ FrameDone(c, FrameStage!Finish(c), A, "none")
           /\ \A n \in 0 .. MaxOut : FrameDone(c, FrameStage!Next(c, n), A, "none")
           /\ FrameDone(c, FrameStage!EvaluationFailed(c), A, "failed")
<1>0. /\ \A a \in A : a.number \in Nat
      /\ Orderly(c.sdh, A)
  BY DEF FrameType, Settled
<1>1. FrameDone(c, c, A, "none")
  <2>1. FramePasses(c, c, A)
    BY DEF FramePasses, Passes
  <2> QED BY <2>1, FrameDoneWhenPassed
<1>2. FrameDone(c, FrameStage!Init(c), A, "none")
  <2> DEFINE d == [c EXCEPT !.exists = TRUE, !.script = "compiling"]
  <2>1. d \in FrameContext(BOOLEAN, TRUE) /\ d.sdh = c.sdh /\ d.eff = NoEffects /\ d.framesId = c.framesId
    BY DEF FrameContext, Scripting
  <2>2. FrameStage!Init(c) = FrameStage!Flush(d)
    BY DEF FrameStage!Init
  <2> HIDE DEF d
  <2>3. FramePasses(d, FrameStage!Flush(d), A)
    BY <1>0, <2>1, FrameFlushPasses
  <2> QED BY <2>1, <2>2, <2>3, FrameDoneWhenPassed
<1>3. FrameDone(c, FrameStage!Params(c), A, "none")
  <2> DEFINE m == Call("interframe", "params")
  <2>1. Is(m, "interframe", "params") /\ m \in FrameCalls(TRUE)
    BY FrameCallsMade, CallsMade
  <2>2. FrameStage!Params(c) = IF c.exists THEN FrameStage!Send(c, m) ELSE c
    BY DEF FrameStage!Params, FrameStage!Call, Call
  <2> HIDE DEF m
  <2>3. FramePasses(c, FrameStage!Send(c, m), A)
    BY <1>0, <2>1, FrameSendPasses DEF Is, Deliveries
  <2> QED BY <1>1, <2>2, <2>3, FrameDoneWhenPassed
<1>4. FrameDone(c, FrameStage!Start(c), A, "none")
  <2> DEFINE n == Free(c.sdh, MaxOut)
             m == CallNext("source", n)
  <2>0. n \in 0 .. MaxOut
    BY FreeTyped, FileToFileAssumption DEF FrameContext
  <2>1. Is(m, "source", "next") /\ m \in FrameCalls(TRUE)
    BY <2>0, FrameCallsMade, CallsMade
  <2>2. FrameStage!Start(c) = IF c.exists /\ ~c.prevFinished THEN FrameStage!Send(c, m) ELSE c
    BY FrameHandlerIs DEF FrameStage!Start, FrameStage!CallNext, CallNext, FrameStage!Call, Call
  <2> HIDE DEF m
  <2>3. FramePasses(c, FrameStage!Send(c, m), A)
    BY <1>0, <2>1, FrameSendPasses DEF Is, Deliveries
  <2> QED BY <1>1, <2>2, <2>3, FrameDoneWhenPassed
<1>5. FrameDone(c, FrameStage!Finish(c), A, "none")
  <2> DEFINE d == [c EXCEPT !.prevFinished = TRUE]
  <2>1. d \in FrameContext(BOOLEAN, TRUE) /\ d.sdh = c.sdh /\ d.eff = NoEffects /\ d.framesId = c.framesId
    BY DEF FrameContext
  <2>2. FrameStage!Finish(c) = IF c.exists THEN d ELSE c
    BY DEF FrameStage!Finish
  <2> HIDE DEF d
  <2>3. FramePasses(d, d, A)
    BY <2>1 DEF FramePasses, Passes
  <2> QED BY <1>1, <2>1, <2>2, <2>3, FrameDoneWhenPassed
<1>6. ASSUME NEW n \in 0 .. MaxOut PROVE FrameDone(c, FrameStage!Next(c, n), A, "none")
  <2> DEFINE d == [c EXCEPT !.waiting = n]
  <2>1. d \in FrameContext(BOOLEAN, TRUE) /\ d.sdh = c.sdh /\ d.eff = NoEffects /\ d.framesId = c.framesId
    BY DEF FrameContext, Demand
  <2>2. FrameStage!Next(c, n) = IF c.exists THEN FrameStage!Flush(d) ELSE c
    BY DEF FrameStage!Next
  <2> HIDE DEF d
  <2>3. FramePasses(d, FrameStage!Flush(d), A)
    BY <1>0, <2>1, FrameFlushPasses
  <2> QED BY <1>1, <2>1, <2>2, <2>3, FrameDoneWhenPassed
<1>7. FrameDone(c, FrameStage!EvaluationFailed(c), A, "failed")
  <2> DEFINE d == FrameStage!EvaluationFailed(c)
  <2>1. d \in FrameContext(BOOLEAN, TRUE)
    BY FrameReports DEF FrameStage!EvaluationFailed
  <2>2. d = [c EXCEPT !.eff.report = "failed"]
    BY DEF FrameStage!EvaluationFailed, FrameStage!Report
  <2>3. d.sdh = c.sdh /\ d.framesId = c.framesId /\ d.eff.jobs = c.eff.jobs /\ d.eff.calls = c.eff.calls /\ d.eff.report = "failed"
    BY <2>2 DEF FrameContext, Effect
  <2> HIDE DEF d
  <2> QED BY <1>1, <2>1, <2>3 DEF FrameDone, d
<1> QED BY <1>2, <1>3, <1>4, <1>5, <1>6, <1>7

(* A handler takes entries with new numbers.                               *)
LEMMA EntriesAdded ==
    ASSUME NEW A \in SUBSET FrameType, NEW h \in Handler, Orderly(h, A),
           NEW E \in SUBSET A, IsFiniteSet(E), \A e, f \in E : e.number = f.number => e = f,
           NumbersOf(E) \intersect Seen(h) = {}
    PROVE  LET g == [h EXCEPT !.in = @ \union E]
           IN  Orderly(g, A) /\ Seen(g) = Seen(h) \union NumbersOf(E) /\ Handed(g) = Handed(h) /\ g \in Handler
<1>1. \A a \in A : a.number \in Nat
  BY DEF FrameType
<1>2. E \in SUBSET FrameType
  OBVIOUS
<1> DEFINE g == [h EXCEPT !.in = @ \union E]
<1>3. Orderly(g, A) /\ Seen(g) = Seen(h) \union NumbersOf(E) /\ Handed(g) = Handed(h)
  <2>1. /\ g \in [in : SUBSET A, out : Seq(A), next : Nat]
        /\ g.in = h.in \union E /\ g.out = h.out /\ g.next = h.next /\ h.next \in Nat
    BY DEF Orderly
  <2>2. IsFiniteSet(g.in)
    BY <2>1, FS_Union DEF Orderly
  <2> HIDE DEF g
  <2>3. \A e \in E : e.number \in Nat /\ e.number >= h.next /\ \A f \in h.in : f.number # e.number
    <3> SUFFICES ASSUME NEW e \in E
                 PROVE  e.number \in Nat /\ e.number >= h.next /\ \A f \in h.in : f.number # e.number
      OBVIOUS
    <3>1. e.number \in Nat /\ e.number \notin Seen(h)
      BY <1>1 DEF NumbersOf
    <3> QED BY <3>1, <2>1 DEF Seen, NumbersOf
  <2>4. Orderly(g, A)
    BY <2>1, <2>2, <2>3 DEF Orderly
  <2>5. Seen(g) = Seen(h) \union NumbersOf(E)
    BY <2>1 DEF Seen, NumbersOf
  <2> QED BY <2>1, <2>4, <2>5 DEF Handed
<1>4. g \in Handler
  BY <1>2, AddTyped
<1> QED BY <1>3, <1>4

(* Entries E come to the handler of the frame stage.                       *)
FrameAdds(c, f, E, A) ==
    /\ f \in FrameContext(BOOLEAN, TRUE)
    /\ Settled(f.sdh, A) /\ Seen(f.sdh) = Seen(c.sdh) \union NumbersOf(E)
    /\ f.eff.jobs = c.eff.jobs /\ f.eff.report = c.eff.report /\ f.framesId = c.framesId
    /\ \A x : Stream(c.eff.calls["processors"], Deliveries("interframe"), x, Handed(c.sdh), A) =>
                 Stream(f.eff.calls["processors"], Deliveries("interframe"), x, Handed(f.sdh), A)

LEMMA FrameAddPasses ==
    ASSUME NEW c \in FrameContext(BOOLEAN, TRUE), NEW A \in SUBSET FrameType, Orderly(c.sdh, A),
           NEW E \in SUBSET A, IsFiniteSet(E), \A e, f \in E : e.number = f.number => e = f,
           NumbersOf(E) \intersect Seen(c.sdh) = {}
    PROVE  FrameAdds(c, FrameStage!AddAll(c, E), E, A)
<1> DEFINE d == [c EXCEPT !.sdh.in = @ \union E]
           g == [c.sdh EXCEPT !.in = @ \union E]
<1>1. Orderly(g, A) /\ Seen(g) = Seen(c.sdh) \union NumbersOf(E) /\ Handed(g) = Handed(c.sdh) /\ g \in Handler
  BY EntriesAdded DEF FrameContext
<1>2. FrameStage!AddAll(c, E) = FrameStage!Flush(d)
  BY FrameAddIs
<1>3. d = [c EXCEPT !.sdh = g]
  OBVIOUS
<1> HIDE DEF g, d
<1>4. d \in FrameContext(BOOLEAN, TRUE) /\ d.sdh = g /\ d.eff = c.eff /\ d.framesId = c.framesId
  BY <1>1, <1>3 DEF FrameContext
<1>5. FramePasses(d, FrameStage!Flush(d), A) /\ Settled(FrameStage!Flush(d).sdh, A)
  BY <1>1, <1>4, FrameFlushPasses
<1> QED BY <1>1, <1>2, <1>4, <1>5 DEF FramePasses, Passes, FrameAdds

(* A result arrives.                                                       *)
FrameReceives(f, c, k, A) ==
    /\ f \in FrameContext(BOOLEAN, TRUE)
    /\ Settled(f.sdh, A) /\ Seen(f.sdh) = Seen(c.sdh) \union {k}
    /\ f.eff.jobs = {} /\ f.eff.report = "none" /\ f.framesId = c.framesId
    /\ Stream(f.eff.calls["processors"], Deliveries("interframe"), Handed(c.sdh), Handed(f.sdh), A)

LEMMA FrameEvaluatedTakes ==
    ASSUME NEW c \in FrameContext(BOOLEAN, TRUE), c.eff = NoEffects,
           NEW A \in SUBSET FrameType, Settled(c.sdh, A), NEW frame \in A, frame.number \notin Seen(c.sdh)
    PROVE  FrameReceives(FrameStage!Evaluated(c, frame), c, frame.number, A)
<1>1. {frame} \in SUBSET A /\ IsFiniteSet({frame}) /\ NumbersOf({frame}) = {frame.number}
  <2>1. IsFiniteSet({frame})
    BY FS_Singleton
  <2>2. NumbersOf({frame}) = {frame.number}
    BY DEF NumbersOf
  <2> QED BY <2>1, <2>2
<1>2. Orderly(c.sdh, A) /\ Handed(c.sdh) \in Nat
  BY HandedTyped DEF Settled
<1>3. /\ c.eff.jobs = {} /\ c.eff.report = "none"
      /\ Stream(c.eff.calls["processors"], Deliveries("interframe"), Handed(c.sdh), Handed(c.sdh), A)
  BY <1>2, NothingSent, ThreadsAre
<1>4. FrameStage!Evaluated(c, frame) = FrameStage!AddAll(c, {frame})
  BY DEF FrameStage!Evaluated
<1>5. LET f == FrameStage!AddAll(c, {frame})
      IN  /\ f \in FrameContext(BOOLEAN, TRUE)
          /\ Settled(f.sdh, A) /\ Seen(f.sdh) = Seen(c.sdh) \union NumbersOf({frame})
          /\ f.eff.jobs = c.eff.jobs /\ f.eff.report = c.eff.report /\ f.framesId = c.framesId
          /\ \A x : Stream(c.eff.calls["processors"], Deliveries("interframe"), x, Handed(c.sdh), A) =>
                       Stream(f.eff.calls["processors"], Deliveries("interframe"), x, Handed(f.sdh), A)
  BY <1>1, <1>2, FrameAddPasses DEF FrameAdds
<1> QED BY <1>1, <1>3, <1>4, <1>5 DEF FrameReceives

(* The first of the images.                                                *)
LEMMA FirstImage ==
    ASSUME NEW s \in Seq(Nat), s # <<>>
    PROVE  SubSeq(s, 1, 1) = <<s[1]>>
<1> DEFINE one == SubSeq(s, 1, 1)
<1>1. s[1] \in Nat /\ Len(s) \in Nat /\ Len(s) >= 1
  OBVIOUS
<1>2. one \in Seq(Nat) /\ Len(one) = 1 /\ one[1] = s[1]
  <2>1. \A i \in 1 .. 1 : s[i] \in Nat
    BY <1>1
  <2> QED BY <1>1, <2>1, SubSeqProperties
<1> HIDE DEF one
<1>3. one = <<s[1]>>
  BY <1>1, <1>2
<1> QED BY <1>3 DEF one

(* Frames x .. y - 1 arrive.                                               *)
FrameTakes(f, c, x, y, A, S) ==
    /\ f \in FrameContext(BOOLEAN, TRUE)
    /\ Settled(f.sdh, A) /\ Seen(f.sdh) = Seen(c.sdh) \union S
    /\ f.eff.report = "none" /\ f.framesId = c.framesId
    /\ NumbersOf(f.eff.jobs) \intersect S = {} /\ NumbersOf(f.eff.jobs) \union S = x .. y - 1
    /\ JobsFit(f.eff.jobs, A)
    /\ \A j \in f.eff.jobs : j.stage = "frame" /\ j.script = c.framesId
    /\ Stream(f.eff.calls["processors"], Deliveries("interframe"), Handed(c.sdh), Handed(f.sdh), A)

LEMMA FrameProcessTakes ==
    ASSUME NEW c \in FrameContext(BOOLEAN, TRUE), c.eff = NoEffects, c.exists,
           NEW z, NEW A, A = Passing(z), Settled(c.sdh, A),
           NEW x \in Nat, Seen(c.sdh) \subseteq 0 .. x - 1,
           NEW y, NEW load \in Seq(FrameType), Batch(load, x, y, A)
    PROVE  \E X \in SUBSET Nat : FrameTakes(FrameStage!Process(c, load), c, x, y, A, X)
<1> DEFINE I == {f \in Range(load) : ~IsFlush(f)}
           F == {f \in Range(load) : IsFlush(f)}
           J == {FrameStage!Job(c, f.number, f.image) : f \in I}
           d == FrameStage!Evaluate(c, J)
           S == NumbersOf(F)
<1>1. Range(load) \in SUBSET FrameType /\ IsFiniteSet(Range(load)) /\ Range(load) \subseteq A /\ A \in SUBSET FrameType
  BY LoadTyped, FrameSets DEF Batch
<1>2. F \in SUBSET A /\ IsFiniteSet(F)
  BY <1>1, FS_Subset
<1>3. /\ \A e, f \in Range(load) : e.number = f.number => e = f
      /\ \A e \in Range(load) : e.number \in x .. y - 1 /\ e \in A
  BY BatchNumbers
<1>4. J \in SUBSET Jobs("frame")
  <2> SUFFICES ASSUME NEW f \in I
               PROVE  FrameStage!Job(c, f.number, f.image) \in Jobs("frame")
    OBVIOUS
  <2>1. f \in FrameType /\ f.image # <<>> /\ c.framesId \in Nat
    BY <1>1 DEF IsFlush, FrameContext
  <2> QED BY <2>1 DEF FrameStage!Job, Jobs, JobType, FrameType
<1>5. FrameStage!Process(c, load) = IF F = {} THEN d ELSE FrameStage!AddAll(d, F)
  BY DEF FrameStage!Process, FrameStage!Range, Range, FrameStage!IsFlush, IsFlush
<1>6. NumbersOf(J) = NumbersOf(I)
  <2>1. ASSUME NEW f \in I PROVE \E j \in J : j.number = f.number
    <3>1. FrameStage!Job(c, f.number, f.image) \in J /\ FrameStage!Job(c, f.number, f.image).number = f.number
      BY DEF FrameStage!Job
    <3> HIDE DEF I, J
    <3> QED BY <3>1
  <2>2. \A j \in J : \E f \in I : j.number = f.number
    BY DEF FrameStage!Job
  <2> HIDE DEF I, J
  <2> QED BY <2>1, <2>2 DEF NumbersOf
<1>7. NumbersOf(J) \intersect S = {} /\ NumbersOf(J) \union S = x .. y - 1 /\ S \in SUBSET Nat
  <2>1. NumbersOf(I) \intersect S = {}
    BY <1>3 DEF NumbersOf
  <2>2. NumbersOf(I) \union S = NumbersOf(Range(load))
    BY DEF NumbersOf
  <2>3. NumbersOf(Range(load)) = x .. y - 1
    BY DEF Batch
  <2>4. x .. y - 1 \subseteq Nat
    OBVIOUS
  <2> HIDE DEF I, J, F, S
  <2> QED BY <1>6, <2>1, <2>2, <2>3, <2>4
<1>8. JobsFit(J, A) /\ \A j \in J : j.stage = "frame" /\ j.script = c.framesId
  <2>1. \A j, k \in J : j.number = k.number => j = k
    BY <1>3 DEF FrameStage!Job
  <2>2. ASSUME NEW f \in I, NEW script PROVE Frame(f.number, Result(script, f.image)) \in A
    <3>1. f \in FrameType /\ f.image = <<f.number>> /\ f.number \in Nat
      BY <1>1, FrameSets
    <3>2. Result(script, f.image) = <<f.number>>
      <4>1. <<f.number>> \in Seq(Nat) /\ <<f.number>> # <<>> /\ <<f.number>>[1] = f.number
        BY <3>1
      <4>2. SubSeq(<<f.number>>, 1, 1) = <<<<f.number>>[1]>>
        BY <4>1, FirstImage
      <4> QED BY <3>1, <4>1, <4>2 DEF Result
    <3> QED BY <3>1, <3>2 DEF Frame, Passing, FrameType
  <2>3. ASSUME NEW j \in J PROVE \E f \in I : j.number = f.number /\ j.images = f.image /\ j.stage = "frame" /\ j.script = c.framesId
    BY <2>3 DEF FrameStage!Job
  <2> HIDE DEF J, I
  <2> QED BY <2>1, <2>2, <2>3 DEF JobsFit
<1> HIDE DEF I, F, J, S
<1>9. d \in FrameContext(BOOLEAN, TRUE)
  BY <1>4, FrameEvaluateTyped
<1>10. /\ c.eff.jobs = {} /\ c.eff.report = "none" /\ Handed(c.sdh) \in Nat /\ Orderly(c.sdh, A)
       /\ Stream(c.eff.calls["processors"], Deliveries("interframe"), Handed(c.sdh), Handed(c.sdh), A)
  <2>1. Orderly(c.sdh, A) /\ Handed(c.sdh) \in Nat
    BY HandedTyped DEF Settled
  <2> QED BY <2>1, NothingSent, ThreadsAre
<1>11. /\ d.sdh = c.sdh /\ d.framesId = c.framesId /\ d.eff.jobs = J /\ d.eff.report = "none"
       /\ d.eff.calls = c.eff.calls
  <2>1. d = [c EXCEPT !.eff = [c.eff EXCEPT !.jobs = @ \union J]]
    BY DEF FrameStage!Evaluate
  <2>2. c.eff \in Effect(FrameCalls(TRUE), Jobs("frame"))
    BY DEF FrameContext
  <2> HIDE DEF d
  <2>3. d.sdh = c.sdh /\ d.framesId = c.framesId /\ d.eff = [c.eff EXCEPT !.jobs = @ \union J]
    BY <2>1 DEF FrameContext
  <2>4. d.eff.jobs = c.eff.jobs \union J /\ d.eff.report = c.eff.report /\ d.eff.calls = c.eff.calls
    BY <2>2, <2>3 DEF Effect
  <2> QED BY <1>10, <2>3, <2>4
<1> HIDE DEF d
<1>12. CASE F = {}
  <2>1. S = {}
    BY <1>12 DEF S, NumbersOf
  <2>2. FrameTakes(FrameStage!Process(c, load), c, x, y, A, S)
    BY <1>5, <1>7, <1>8, <1>9, <1>10, <1>11, <1>12, <2>1 DEF FrameTakes
  <2> QED BY <1>7, <2>2
<1>13. CASE F # {}
  <2> DEFINE f == FrameStage!AddAll(d, F)
  <2>1. /\ f \in FrameContext(BOOLEAN, TRUE)
        /\ Settled(f.sdh, A) /\ Seen(f.sdh) = Seen(d.sdh) \union NumbersOf(F)
        /\ f.eff.jobs = d.eff.jobs /\ f.eff.report = d.eff.report /\ f.framesId = d.framesId
        /\ \A i : Stream(d.eff.calls["processors"], Deliveries("interframe"), i, Handed(d.sdh), A) =>
                     Stream(f.eff.calls["processors"], Deliveries("interframe"), i, Handed(f.sdh), A)
    <3>1. NumbersOf(F) \intersect Seen(d.sdh) = {}
      <4>1. NumbersOf(F) \subseteq x .. y - 1 /\ Seen(d.sdh) \subseteq 0 .. x - 1 /\ y \in Nat
        BY <1>7, <1>11 DEF S, Batch
      <4>2. (x .. y - 1) \intersect (0 .. x - 1) = {}
        BY <4>1
      <4> QED BY <4>1, <4>2
    <3>2. \A e, f_1 \in F : e.number = f_1.number => e = f_1
      BY <1>3 DEF F
    <3>3. F \in SUBSET A /\ IsFiniteSet(F) /\ A \in SUBSET FrameType /\ Orderly(d.sdh, A)
      BY <1>1, <1>2, <1>10, <1>11
    <3> HIDE DEF f
    <3>4. FrameAdds(d, FrameStage!AddAll(d, F), F, A)
      BY <1>9, <3>1, <3>2, <3>3, FrameAddPasses
    <3> QED BY <3>4 DEF f, FrameAdds
  <2> HIDE DEF f
  <2>2. FrameStage!Process(c, load) = f
    BY <1>5, <1>13 DEF f
  <2>3. FrameTakes(FrameStage!Process(c, load), c, x, y, A, S)
    BY <1>7, <1>8, <1>10, <1>11, <2>1, <2>2 DEF S, FrameTakes
  <2> QED BY <1>7, <2>3
<1> QED BY <1>12, <1>13
-----------------------------------------------------------------------------
(* What a job leaves as it is, unless it takes frames.                     *)
InterSame(c, f) ==
    /\ f.framesId = c.framesId
    /\ f.buffer = c.buffer /\ f.nextFrame = c.nextFrame /\ f.created = c.created

(* What a job of the inter-frame stage that evaluates nothing and takes no       *)
(* result leaves behind.                                                   *)
InterDone(c, f, A, report) ==
    /\ f \in InterContext(BOOLEAN, TRUE)
    /\ Settled(f.sdh, A) /\ Seen(f.sdh) = Seen(c.sdh)
    /\ f.eff.jobs = {} /\ f.eff.report = report /\ InterSame(c, f)
    /\ Stream(f.eff.calls["sink"], Deliveries("sink"), Handed(c.sdh), Handed(f.sdh), A)

LEMMA InterDoneWhenPassed ==
    ASSUME NEW A, NEW c, Settled(c.sdh, A), NEW d, d.sdh = c.sdh, d.eff = NoEffects, InterSame(c, d),
           NEW f, InterPasses(d, f, A)
    PROVE  InterDone(c, f, A, "none")
<1>1. Handed(c.sdh) \in Nat
  BY HandedTyped DEF Settled
<1>2. d.eff.jobs = {} /\ d.eff.report = "none" /\ Stream(d.eff.calls["sink"], Deliveries("sink"), Handed(c.sdh), Handed(c.sdh), A)
  BY <1>1, NothingSent, ThreadsAre
<1> QED BY <1>2 DEF InterDone, InterPasses, Passes, InterSame

LEMMA InterJobsDone ==
    ASSUME NEW c \in InterContext(BOOLEAN, TRUE), c.eff = NoEffects, NEW A \in SUBSET FrameType, Settled(c.sdh, A)
    PROVE  /\ InterDone(c, InterStage!Common!Init(c), A, "none")
           /\ InterDone(c, InterStage!Common!Params(c), A, "none")
           /\ InterDone(c, InterStage!Common!Start(c), A, "none")
           /\ InterDone(c, InterStage!Common!Finish(c), A, "none")
           /\ \A n \in 0 .. MaxWrite : InterDone(c, InterStage!Common!Next(c, n), A, "none")
           /\ InterDone(c, InterStage!Common!EvaluationFailed(c), A, "failed")
<1>0. /\ \A a \in A : a.number \in Nat
      /\ Orderly(c.sdh, A)
  BY DEF FrameType, Settled
<1>1. InterDone(c, c, A, "none")
  <2>1. InterPasses(c, c, A)
    BY DEF InterPasses, Passes
  <2> QED BY <2>1, InterDoneWhenPassed DEF InterSame
<1>2. InterDone(c, InterStage!Common!Init(c), A, "none")
  <2> DEFINE d == [c EXCEPT !.exists = TRUE, !.script = "compiling"]
  <2>1. d \in InterContext(BOOLEAN, TRUE) /\ d.sdh = c.sdh /\ d.eff = NoEffects /\ InterSame(c, d)
    BY DEF InterContext, Scripting, InterSame
  <2>2. InterStage!Common!Init(c) = InterStage!Common!Flush(d)
    BY DEF InterStage!Common!Init
  <2> HIDE DEF d
  <2>3. InterPasses(d, InterStage!Common!Flush(d), A)
    BY <1>0, <2>1, InterFlushPasses
  <2> QED BY <2>1, <2>2, <2>3, InterDoneWhenPassed DEF InterSame
<1>3. InterDone(c, InterStage!Common!Params(c), A, "none")
  <2> DEFINE m == Call("sink", "params")
  <2>1. Is(m, "sink", "params") /\ m \in InterCalls(TRUE)
    BY InterCallsMade, CallsMade
  <2>2. InterStage!Common!Params(c) = IF c.exists THEN InterStage!Common!Send(c, m) ELSE c
    BY DEF InterStage!Common!Params, InterStage!Common!Call, Call
  <2> HIDE DEF m
  <2>3. InterPasses(c, InterStage!Common!Send(c, m), A)
    BY <1>0, <2>1, InterSendPasses DEF Is, Deliveries
  <2> QED BY <1>1, <2>2, <2>3, InterDoneWhenPassed DEF InterSame
<1>4. InterDone(c, InterStage!Common!Start(c), A, "none")
  <2> DEFINE n == Free(c.sdh, MaxOut)
             m == CallNext("frame", n)
  <2>0. n \in 0 .. MaxOut
    BY FreeTyped, FileToFileAssumption DEF InterContext
  <2>1. Is(m, "frame", "next") /\ m \in InterCalls(TRUE)
    BY <2>0, InterCallsMade, CallsMade
  <2>2. InterStage!Common!Start(c) = IF c.exists /\ ~c.prevFinished THEN InterStage!Common!Send(c, m) ELSE c
    BY InterHandlerIs DEF InterStage!Common!Start, InterStage!Common!CallNext, CallNext, InterStage!Common!Call, Call
  <2> HIDE DEF m
  <2>3. InterPasses(c, InterStage!Common!Send(c, m), A)
    BY <1>0, <2>1, InterSendPasses DEF Is, Deliveries
  <2> QED BY <1>1, <2>2, <2>3, InterDoneWhenPassed DEF InterSame
<1>5. InterDone(c, InterStage!Common!Finish(c), A, "none")
  <2> DEFINE d == [c EXCEPT !.prevFinished = TRUE]
  <2>1. d \in InterContext(BOOLEAN, TRUE) /\ d.sdh = c.sdh /\ d.eff = NoEffects /\ InterSame(c, d)
    BY DEF InterContext, InterSame
  <2>2. InterStage!Common!Finish(c) = IF c.exists THEN d ELSE c
    BY DEF InterStage!Common!Finish
  <2> HIDE DEF d
  <2>3. InterPasses(d, d, A)
    BY <2>1 DEF InterPasses, Passes
  <2> QED BY <1>1, <2>1, <2>2, <2>3, InterDoneWhenPassed DEF InterSame
<1>6. ASSUME NEW n \in 0 .. MaxWrite PROVE InterDone(c, InterStage!Common!Next(c, n), A, "none")
  <2> DEFINE d == [c EXCEPT !.waiting = n]
  <2>1. d \in InterContext(BOOLEAN, TRUE) /\ d.sdh = c.sdh /\ d.eff = NoEffects /\ InterSame(c, d)
    BY DEF InterContext, Demand, InterSame
  <2>2. InterStage!Common!Next(c, n) = IF c.exists THEN InterStage!Common!Flush(d) ELSE c
    BY DEF InterStage!Common!Next
  <2> HIDE DEF d
  <2>3. InterPasses(d, InterStage!Common!Flush(d), A)
    BY <1>0, <2>1, InterFlushPasses
  <2> QED BY <1>1, <2>1, <2>2, <2>3, InterDoneWhenPassed DEF InterSame
<1>7. InterDone(c, InterStage!Common!EvaluationFailed(c), A, "failed")
  <2> DEFINE d == InterStage!Common!EvaluationFailed(c)
  <2>1. d \in InterContext(BOOLEAN, TRUE)
    BY InterReports DEF InterStage!Common!EvaluationFailed
  <2>2. d = [c EXCEPT !.eff.report = "failed"]
    BY DEF InterStage!Common!EvaluationFailed, InterStage!Common!Report
  <2>3. d.sdh = c.sdh /\ InterSame(c, d) /\ d.eff.jobs = c.eff.jobs /\ d.eff.calls = c.eff.calls /\ d.eff.report = "failed"
    BY <2>2 DEF InterContext, Effect, InterSame
  <2> HIDE DEF d
  <2> QED BY <1>1, <2>1, <2>3 DEF InterDone, d
<1> QED BY <1>2, <1>3, <1>4, <1>5, <1>6, <1>7

LEMMA InterAddPasses ==
    ASSUME NEW c \in InterContext(BOOLEAN, TRUE), NEW A \in SUBSET FrameType, Orderly(c.sdh, A),
           NEW E \in SUBSET A, IsFiniteSet(E), \A e, f \in E : e.number = f.number => e = f,
           NumbersOf(E) \intersect Seen(c.sdh) = {}
    PROVE  LET f == InterStage!Common!AddAll(c, E)
           IN  /\ f \in InterContext(BOOLEAN, TRUE)
               /\ Settled(f.sdh, A) /\ Seen(f.sdh) = Seen(c.sdh) \union NumbersOf(E)
               /\ f.eff.jobs = c.eff.jobs /\ f.eff.report = c.eff.report /\ InterSame(c, f)
               /\ \A x : Stream(c.eff.calls["sink"], Deliveries("sink"), x, Handed(c.sdh), A) =>
                            Stream(f.eff.calls["sink"], Deliveries("sink"), x, Handed(f.sdh), A)
<1> DEFINE d == [c EXCEPT !.sdh.in = @ \union E]
           g == [c.sdh EXCEPT !.in = @ \union E]
<1>1. Orderly(g, A) /\ Seen(g) = Seen(c.sdh) \union NumbersOf(E) /\ Handed(g) = Handed(c.sdh) /\ g \in Handler
  BY EntriesAdded DEF InterContext
<1>2. InterStage!Common!AddAll(c, E) = InterStage!Common!Flush(d)
  BY InterAddIs
<1>3. d = [c EXCEPT !.sdh = g]
  OBVIOUS
<1> HIDE DEF g, d
<1>4. d \in InterContext(BOOLEAN, TRUE) /\ d.sdh = g /\ d.eff = c.eff /\ InterSame(c, d)
  BY <1>1, <1>3 DEF InterContext, InterSame
<1>5. InterPasses(d, InterStage!Common!Flush(d), A) /\ Settled(InterStage!Common!Flush(d).sdh, A)
  BY <1>1, <1>4, InterFlushPasses
<1> QED BY <1>1, <1>2, <1>4, <1>5 DEF InterPasses, Passes, InterSame

(* A result arrives.                                                       *)
InterReceives(f, c, k, A) ==
    /\ f \in InterContext(BOOLEAN, TRUE)
    /\ Settled(f.sdh, A) /\ Seen(f.sdh) = Seen(c.sdh) \union {k}
    /\ f.eff.jobs = {} /\ f.eff.report = "none" /\ InterSame(c, f)
    /\ Stream(f.eff.calls["sink"], Deliveries("sink"), Handed(c.sdh), Handed(f.sdh), A)

LEMMA InterEvaluatedTakes ==
    ASSUME NEW c \in InterContext(BOOLEAN, TRUE), c.eff = NoEffects,
           NEW A \in SUBSET FrameType, Settled(c.sdh, A), NEW frame \in A, frame.number \notin Seen(c.sdh)
    PROVE  InterReceives(InterStage!Common!Evaluated(c, frame), c, frame.number, A)
<1>1. {frame} \in SUBSET A /\ IsFiniteSet({frame}) /\ NumbersOf({frame}) = {frame.number}
  <2>1. IsFiniteSet({frame})
    BY FS_Singleton
  <2>2. NumbersOf({frame}) = {frame.number}
    BY DEF NumbersOf
  <2> QED BY <2>1, <2>2
<1>2. Orderly(c.sdh, A) /\ Handed(c.sdh) \in Nat
  BY HandedTyped DEF Settled
<1>3. /\ c.eff.jobs = {} /\ c.eff.report = "none"
      /\ Stream(c.eff.calls["sink"], Deliveries("sink"), Handed(c.sdh), Handed(c.sdh), A)
  BY <1>2, NothingSent, ThreadsAre
<1>4. InterStage!Common!Evaluated(c, frame) = InterStage!Common!AddAll(c, {frame})
  BY DEF InterStage!Common!Evaluated
<1>5. LET f == InterStage!Common!AddAll(c, {frame})
      IN  /\ f \in InterContext(BOOLEAN, TRUE)
          /\ Settled(f.sdh, A) /\ Seen(f.sdh) = Seen(c.sdh) \union NumbersOf({frame})
          /\ f.eff.jobs = c.eff.jobs /\ f.eff.report = c.eff.report /\ InterSame(c, f)
          /\ \A x : Stream(c.eff.calls["sink"], Deliveries("sink"), x, Handed(c.sdh), A) =>
                       Stream(f.eff.calls["sink"], Deliveries("sink"), x, Handed(f.sdh), A)
  BY <1>1, <1>2, InterAddPasses
<1> QED BY <1>1, <1>3, <1>4, <1>5 DEF InterReceives
-----------------------------------------------------------------------------
(* So many frames as numbers.                                              *)
LEMMA CountIs ==
    ASSUME NEW F, IsFiniteSet(F), \A e, f \in F : e.number = f.number => e = f,
           NEW a \in Int, NEW k \in Int, NumbersOf(F) = a .. k
    PROVE  Cardinality(F) = IF a > k THEN 0 ELSE k - a + 1
<1> DEFINE g == [f \in F |-> f.number]
<1>1. g \in Surjection(F, NumbersOf(F)) /\ g \in Injection(F, NumbersOf(F))
  BY DEF Surjection, Injection, IsInjective, NumbersOf
<1>2. Cardinality(F) = Cardinality(NumbersOf(F))
  <2> HIDE DEF g
  <2> QED BY <1>1, FS_Surjection
<1> QED BY <1>2, FS_Interval

(* The buffer of the inter-frame stage with the frames that arrive: the    *)
(* frames b .. e, and only the last one may be the flush frame.            *)
Joined(d, b, e, z) ==
    /\ d \in InterContext(BOOLEAN, TRUE)
    /\ b \in Nat /\ e \in Nat /\ b <= e /\ e < SizeModulus
    /\ d.nextFrame = b /\ d.created = b
    /\ d.buffer \subseteq Passing(z) /\ IsFiniteSet(d.buffer) /\ NumbersOf(d.buffer) = b .. e
    /\ \A f, g \in d.buffer : f.number = g.number => f = g
    /\ \A f \in d.buffer : IsFlush(f) => f.number = e

LEMMA JoinedRun ==
    ASSUME NEW d, NEW b, NEW e, NEW z, Joined(d, b, e, z)
    PROVE  /\ Run(d) = d.buffer /\ d.buffer # {}
           /\ Cardinality(d.buffer) = e - b + 1
           /\ b < e => InterStage!LastOfRun(d) = e
<1>1. /\ b \in Nat /\ e \in Nat /\ b <= e /\ d.nextFrame = b /\ IsFiniteSet(d.buffer)
      /\ NumbersOf(d.buffer) = b .. e /\ e < SizeModulus
  BY DEF Joined
<1>2. Cardinality(d.buffer) = e - b + 1
  BY <1>1, CountIs DEF Joined
<1> DEFINE gap == Min((d.nextFrame .. d.nextFrame + Cardinality(d.buffer)) \ NumbersOf(d.buffer))
<1>3. InterStage!LastOfRun(d) = IF Cardinality(d.buffer) > 1 THEN (gap - 1) % SizeModulus ELSE gap
  BY DEF InterStage!LastOfRun, InterStage!Min, Min, InterStage!NumbersOf, NumbersOf,
         InterStage!Cardinality, Cardinality, InterStage!IsFiniteSet, IsFiniteSet
<1>4. gap = e + 1
  <2> DEFINE S == (d.nextFrame .. d.nextFrame + Cardinality(d.buffer)) \ NumbersOf(d.buffer)
  <2>1. S = {e + 1}
    BY <1>1, <1>2
  <2>2. S \in SUBSET Nat /\ S # {}
    BY <1>1, <2>1
  <2>3. Min(S) \in S
    <3> HIDE DEF S
    <3> QED BY <2>2, MinOfNumbers
  <2> QED BY <2>1, <2>3
<1> HIDE DEF gap
<1>5. b < e => InterStage!LastOfRun(d) = e
  <2>1. (e + 1) - 1 = e /\ (b < e => e - b + 1 > 1)
    BY <1>1
  <2>2. e % SizeModulus = e
    BY <1>1, FileToFileAssumption
  <2> QED BY <1>2, <1>3, <1>4, <2>1, <2>2
<1>6. InterStage!LastOfRun(d) \in {e, e + 1}
  <2>1. b = e => ~(e - b + 1 > 1)
    BY <1>1
  <2>2. b = e => InterStage!LastOfRun(d) = e + 1
    BY <1>2, <1>3, <1>4, <2>1
  <2> QED BY <1>1, <1>5, <2>2
<1>7. ASSUME NEW f \in d.buffer PROVE f.number <= InterStage!LastOfRun(d)
  <2>1. f.number \in b .. e
    BY <1>1 DEF NumbersOf
  <2> QED BY <1>1, <1>6, <2>1
<1>8. d.buffer # {}
  <2>1. b \in NumbersOf(d.buffer)
    BY <1>1
  <2> QED BY <2>1 DEF NumbersOf
<1> QED BY <1>2, <1>5, <1>7, <1>8 DEF Run

(* What stays in the buffer, and the flush frame that goes on.             *)
LEMMA JoinedKept ==
    ASSUME NEW d, NEW b, NEW e, NEW z, Joined(d, b, e, z), b < e, NEW f \in d.buffer, f.number = e
    PROVE  /\ InterStage!KeptFromLast(d, e) = {f}
           /\ RunFlush(d) = IF IsFlush(f) THEN {Frame(e - 1, <<>>)} ELSE {}
<1>1. /\ b \in Nat /\ e \in Nat /\ NumbersOf(d.buffer) = b .. e /\ e < SizeModulus
      /\ \A g, h \in d.buffer : g.number = h.number => g = h
      /\ \A g \in d.buffer : IsFlush(g) => g.number = e
  BY DEF Joined
<1>2. (e - 1) % SizeModulus = e - 1
  BY <1>1, FileToFileAssumption
<1>3. \A g \in d.buffer : g.number \in b .. e
  BY <1>1 DEF NumbersOf
<1>4. \A g \in d.buffer : g.number > e - 1 <=> g = f
  <2> SUFFICES ASSUME NEW g \in d.buffer PROVE g.number > e - 1 <=> g = f
    OBVIOUS
  <2>1. g.number \in b .. e /\ (g.number = e => g = f)
    BY <1>1, <1>3
  <2> QED BY <1>1, <2>1
<1>5. InterStage!KeptFromLast(d, e) = {f}
  BY <1>2, <1>4 DEF InterStage!KeptFromLast
<1>6. InterStage!FlushFrame(InterStage!FlushNumber(e)) = Frame(e - 1, <<>>)
  BY <1>2 DEF InterStage!FlushFrame, InterStage!FlushNumber, InterStage!Frame, Frame
<1>7. Run(d) \ RunImages(d) = {g \in d.buffer : IsFlush(g)}
  BY JoinedRun DEF RunImages
<1>8. {g \in d.buffer : IsFlush(g)} = IF IsFlush(f) THEN {f} ELSE {}
  BY <1>1
<1> QED BY <1>5, <1>6, <1>7, <1>8 DEF RunFlush

(* The images among the frames.                                            *)
LEMMA JoinedImages ==
    ASSUME NEW d, NEW b, NEW e, NEW z, Joined(d, b, e, z), b < e, NEW f \in d.buffer, f.number = e,
           NEW m, m = IF IsFlush(f) THEN e - 1 ELSE e
    PROVE  LET I == RunImages(d)
           IN  /\ I \subseteq d.buffer /\ IsFiniteSet(I) /\ NumbersOf(I) = b .. m
               /\ m \in Nat /\ b <= m /\ m <= e
               /\ \A g \in I : g.image = <<g.number>> /\ g.number \in b .. m
               /\ \A g, h \in I : g.number = h.number => g = h
               /\ Cardinality(I) = m - b + 1
<1> DEFINE I == RunImages(d)
<1>1. /\ b \in Nat /\ e \in Nat /\ NumbersOf(d.buffer) = b .. e /\ IsFiniteSet(d.buffer)
      /\ \A g, h \in d.buffer : g.number = h.number => g = h
      /\ \A g \in d.buffer : IsFlush(g) => g.number = e
      /\ d.buffer \subseteq Passing(z)
  BY DEF Joined
<1>2. m \in Nat /\ b <= m /\ m <= e
  BY <1>1
<1>3. I = {g \in d.buffer : ~IsFlush(g)}
  BY JoinedRun DEF RunImages
<1> HIDE DEF I
<1>4. \A g \in d.buffer : g.number \in b .. e
  BY <1>1 DEF NumbersOf
<1>5. \A k \in b .. e : \E g \in d.buffer : g.number = k
  BY <1>1 DEF NumbersOf
<1>6. \A g \in d.buffer : g \in I <=> g.number \in b .. m
  <2> SUFFICES ASSUME NEW g \in d.buffer PROVE g \in I <=> g.number \in b .. m
    OBVIOUS
  <2>1. g.number \in b .. e /\ (g.number = e => g = f) /\ (IsFlush(g) => g = f)
    BY <1>1, <1>4
  <2>2. CASE IsFlush(f)
    BY <1>1, <1>3, <2>1, <2>2
  <2>3. CASE ~IsFlush(f)
    BY <1>1, <1>3, <2>1, <2>3
  <2> QED BY <2>2, <2>3
<1>7. NumbersOf(I) = b .. m
  <2>1. \A k \in b .. m : k \in b .. e
    BY <1>1, <1>2
  <2>2. \A k \in b .. m : \E g \in I : g.number = k
    BY <1>5, <1>6, <2>1
  <2>3. \A g \in I : g.number \in b .. m
    BY <1>3, <1>6
  <2> QED BY <2>2, <2>3 DEF NumbersOf
<1>8. \A g \in I : g.image = <<g.number>> /\ g.number \in b .. m
  BY <1>1, <1>3, <1>6, FrameSets
<1>9. IsFiniteSet(I) /\ \A g, h \in I : g.number = h.number => g = h
  BY <1>1, <1>3, FS_Subset
<1>10. Cardinality(I) = m - b + 1
  <2>1. Cardinality(I) = IF b > m THEN 0 ELSE m - b + 1
    BY <1>1, <1>2, <1>7, <1>9, CountIs
  <2> QED BY <1>1, <1>2, <2>1
<1> QED BY <1>2, <1>3, <1>7, <1>8, <1>9, <1>10 DEF I

(* Two images, one behind the other.                                       *)
LEMMA TwoImages ==
    ASSUME NEW i \in Nat, NEW k \in Nat
    PROVE  <<i>> \o <<k>> = <<i, k>>
<1> DEFINE s == <<i>> \o <<k>>
<1>1. <<i>> \in Seq(Nat) /\ <<k>> \in Seq(Nat) /\ Len(<<i>>) = 1 /\ Len(<<k>>) = 1 /\ <<i>>[1] = i /\ <<k>>[1] = k
  OBVIOUS
<1>2. s \in Seq(Nat) /\ Len(s) = 2 /\ s[1] = i /\ s[2] = k
  <2>1. /\ Len(<<i>>) = 1 /\ Len(<<k>>) = 1 /\ s \in Seq(Nat)
        /\ DOMAIN s = 1 .. 1 + 1 /\ s[1] = i /\ s[1 + 1] = k
    BY <1>1, ConcatPlaces
  <2>2. Len(s) = 2
    <3> HIDE DEF s
    <3> QED BY <2>1
  <2> QED BY <2>1, <2>2
<1> HIDE DEF s
<1>3. s = <<i, k>>
  BY <1>2
<1> QED BY <1>3 DEF s

(* The evaluations: one for every two images that follow each other.       *)
LEMMA JoinedJobs ==
    ASSUME NEW d, NEW b, NEW e, NEW z, Joined(d, b, e, z), b < e, NEW f \in d.buffer, f.number = e,
           NEW m, m = IF IsFlush(f) THEN e - 1 ELSE e
    PROVE  /\ \A j \in PairJobs(d) : /\ j.number \in b .. m - 1 /\ j.images = <<j.number, j.number + 1>>
                                     /\ j.stage = "interframe" /\ j.script = d.framesId
           /\ \A n \in b .. m - 1 : \E j \in PairJobs(d) : j.number = n
           /\ PairJobs(d) \in SUBSET Jobs("interframe")
<1> DEFINE I == RunImages(d)
<1>1. /\ IsFiniteSet(I) /\ NumbersOf(I) = b .. m
      /\ m \in Nat /\ b <= m /\ m <= e
      /\ \A g \in I : g.image = <<g.number>> /\ g.number \in b .. m
      /\ \A g, h \in I : g.number = h.number => g = h
  BY JoinedImages
<1>2. d.created = b /\ b \in Nat /\ d \in InterContext(BOOLEAN, TRUE)
  BY DEF Joined
<1>3. ASSUME NEW g \in I PROVE Cardinality(InterStage!Before(I, g)) = g.number - b
  <2> DEFINE B == InterStage!Before(I, g)
  <2>1. B = {h \in I : h.number < g.number}
    BY DEF InterStage!Before
  <2>2. g.number \in b .. m
    BY <1>1
  <2> HIDE DEF B, I
  <2>3. IsFiniteSet(B)
    BY <1>1, <2>1, FS_Subset
  <2>4. NumbersOf(B) = b .. g.number - 1
    <3>1. \A k \in b .. m : \E h \in I : h.number = k
      BY <1>1 DEF NumbersOf
    <3>2. \A k \in b .. g.number - 1 : k \in b .. m /\ k < g.number
      BY <1>1, <1>2, <2>2
    <3>3. \A k \in b .. g.number - 1 : \E h \in B : h.number = k
      BY <2>1, <3>1, <3>2
    <3>4. ASSUME NEW h \in B PROVE h.number \in b .. g.number - 1
      <4>1. h.number \in b .. m /\ h.number < g.number
        BY <1>1, <2>1
      <4> QED BY <1>2, <2>2, <4>1
    <3> QED BY <3>3, <3>4 DEF NumbersOf
  <2>5. Cardinality(B) = IF b > g.number - 1 THEN 0 ELSE (g.number - 1) - b + 1
    <3>1. \A h, k \in B : h.number = k.number => h = k
      BY <1>1, <2>1
    <3>2. b \in Int /\ g.number - 1 \in Int
      BY <1>2, <2>2
    <3> QED BY <2>3, <2>4, <3>1, <3>2, CountIs
  <2>6. Cardinality(B) = g.number - b
    BY <1>2, <2>2, <2>5
  <2> QED BY <2>6 DEF B
<1>4. ASSUME NEW p \in InterStage!Neighbours(I)
      PROVE  /\ p[1] \in I /\ p[2] \in I /\ p[2].number = p[1].number + 1 /\ p[1].number \in b .. m - 1
  <2>1. /\ p[1] \in I /\ p[2] \in I /\ p[1].number < p[2].number
        /\ \A g \in I : g.number <= p[1].number \/ g.number >= p[2].number
    BY DEF InterStage!Neighbours
  <2> HIDE DEF I
  <2>2. p[1].number \in b .. m /\ p[2].number \in b .. m
    BY <1>1, <2>1
  <2>3. p[1].number + 1 \in b .. m
    BY <1>1, <1>2, <2>1, <2>2
  <2>4. PICK g \in I : g.number = p[1].number + 1
    BY <1>1, <2>3 DEF NumbersOf
  <2> QED BY <1>1, <1>2, <2>1, <2>2, <2>4
<1>5. ASSUME NEW p \in InterStage!Neighbours(I)
      PROVE  /\ PairJob(d, p).number = p[1].number /\ PairJob(d, p).images = <<p[1].number, p[1].number + 1>>
             /\ PairJob(d, p).stage = "interframe" /\ PairJob(d, p).script = d.framesId
  <2>1. /\ p[1] \in I /\ p[2] \in I /\ p[2].number = p[1].number + 1 /\ p[1].number \in b .. m - 1
    BY <1>4
  <2>2. p[1].image = <<p[1].number>> /\ p[2].image = <<p[1].number + 1>>
    BY <1>1, <2>1
  <2>3. p[1].image \o p[2].image = <<p[1].number, p[1].number + 1>>
    <3> DEFINE i == p[1].number
               k == p[1].number + 1
    <3>1. i \in Nat /\ k \in Nat
      BY <1>1, <1>2, <2>1
    <3>2. p[1].image = <<i>> /\ p[2].image = <<k>>
      BY <2>2
    <3> HIDE DEF i, k
    <3>3. <<i>> \o <<k>> = <<i, k>>
      BY <3>1, TwoImages
    <3>4. p[1].image \o p[2].image = <<i, k>>
      BY <3>2, <3>3
    <3> QED BY <3>4 DEF i, k
  <2>4. Cardinality(InterStage!Before(I, p[1])) = p[1].number - b
    BY <1>3, <2>1
  <2> DEFINE n == d.created + Cardinality(InterStage!Before(RunImages(d), p[1]))
             im == p[1].image \o p[2].image
  <2>5. n = p[1].number
    BY <1>2, <2>1, <2>4
  <2>6. im = <<p[1].number, p[1].number + 1>>
    BY <2>3
  <2>7. PairJob(d, p) = InterStage!Common!Job(d, n, im)
    BY DEF PairJob
  <2> HIDE DEF n, im
  <2>8. PairJob(d, p) = [stage |-> "interframe", script |-> d.framesId, number |-> n, images |-> im]
    BY <2>7 DEF InterStage!Common!Job
  <2> QED BY <2>5, <2>6, <2>8
<1>6. ASSUME NEW n \in b .. m - 1 PROVE \E j \in PairJobs(d) : j.number = n
  <2>1. n \in b .. m /\ n + 1 \in b .. m
    BY <1>1, <1>2
  <2>2. PICK g \in I : g.number = n
    BY <1>1, <2>1 DEF NumbersOf
  <2>3. PICK h \in I : h.number = n + 1
    BY <1>1, <2>1 DEF NumbersOf
  <2>4. \A k \in I : k.number <= n \/ k.number >= n + 1
    <3> SUFFICES ASSUME NEW k \in I PROVE k.number <= n \/ k.number >= n + 1
      OBVIOUS
    <3>1. k.number \in b .. m
      BY <1>1
    <3> QED BY <1>1, <1>2, <3>1
  <2> DEFINE p == <<g, h>>
  <2>5. p \in InterStage!Neighbours(I) /\ p[1] = g
    <3>1. n < n + 1
      BY <1>1, <1>2
    <3> QED BY <2>2, <2>3, <2>4, <3>1 DEF InterStage!Neighbours
  <2> HIDE DEF p
  <2>6. PairJob(d, p) \in PairJobs(d) /\ PairJob(d, p).number = n
    BY <1>5, <2>2, <2>5 DEF PairJobs
  <2> QED BY <2>6
<1>7. \A j \in PairJobs(d) : \E p \in InterStage!Neighbours(I) : j = PairJob(d, p)
  BY DEF PairJobs
<1>8. ASSUME NEW j \in PairJobs(d)
      PROVE  /\ j.number \in b .. m - 1 /\ j.images = <<j.number, j.number + 1>>
             /\ j.stage = "interframe" /\ j.script = d.framesId
  <2>1. PICK p \in InterStage!Neighbours(I) : j = PairJob(d, p)
    BY <1>7
  <2> QED BY <1>4, <1>5, <2>1
<1>9. PairJobs(d) \in SUBSET Jobs("interframe")
  <2> SUFFICES ASSUME NEW p \in InterStage!Neighbours(I)
               PROVE  PairJob(d, p) \in Jobs("interframe")
    BY DEF PairJobs
  <2> DEFINE j == PairJob(d, p)
  <2>1. j = [stage |-> j.stage, script |-> j.script, number |-> j.number, images |-> j.images]
    BY DEF PairJob, InterStage!Common!Job
  <2>2. /\ j.number \in b .. m - 1 /\ j.images = <<j.number, j.number + 1>>
        /\ j.stage = "interframe" /\ j.script = d.framesId
    BY <1>4, <1>5
  <2> HIDE DEF j
  <2>3. j.number \in Nat /\ d.framesId \in Nat
    BY <1>1, <1>2, <2>2 DEF InterContext
  <2>4. j.images \in Seq(Nat) /\ j.images # <<>>
    BY <2>2, <2>3
  <2> QED BY <2>1, <2>2, <2>3, <2>4 DEF j, Jobs, JobType
<1> QED BY <1>6, <1>8, <1>9
-----------------------------------------------------------------------------
(* Frames x .. y - 1 arrive at the inter-frame stage. A flush frame is the *)
(* last of all frames, so none waits in the buffer.                        *)
JoinsTo(c, d, b, x, y, z) ==
    /\ Joined(d, b, y - 1, z)
    /\ d.exists = c.exists /\ d.sdh = c.sdh /\ d.eff = c.eff /\ d.framesId = c.framesId
    /\ y \in Nat /\ x < y /\ (b = y - 1 => x = 0 /\ y = 1)

LEMMA InterJoins ==
    ASSUME NEW c \in InterContext(BOOLEAN, TRUE), NEW z \in Nat \union {-1}, NEW x \in Nat, Buffered(c, x, z),
           NEW y, NEW load \in Seq(FrameType), load # <<>>, Batch(load, x, y, Passing(z)),
           y <= SizeModulus, z # -1 => y - 1 <= z
    PROVE  JoinsTo(c, [c EXCEPT !.buffer = @ \union Range(load)], IF x = 0 THEN 0 ELSE x - 1, x, y, z)
<1> DEFINE d == [c EXCEPT !.buffer = @ \union Range(load)]
           b == IF x = 0 THEN 0 ELSE x - 1
           B == c.buffer \union Range(load)
           L == Range(load)
<1>1. y \in Nat /\ x < y
  BY BatchNumbers DEF Batch
<1>2. b \in Nat /\ b <= y - 1 /\ y - 1 \in Nat /\ y - 1 < SizeModulus /\ (b = y - 1 => x = 0 /\ y = 1)
  BY <1>1, FileToFileAssumption
<1>3. L \in SUBSET FrameType /\ IsFiniteSet(L)
  BY LoadTyped
<1>4. d \in InterContext(BOOLEAN, TRUE)
  <2>1. B \in Frames
    BY <1>3, FS_Union DEF InterContext, Frames
  <2> HIDE DEF B, L
  <2>2. [c EXCEPT !.buffer = B] \in InterContext(BOOLEAN, TRUE)
    BY <2>1 DEF InterContext
  <2> QED BY <2>2 DEF B, L
<1>5. /\ d.buffer = B /\ d.nextFrame = c.nextFrame /\ d.created = c.created
      /\ d.exists = c.exists /\ d.sdh = c.sdh /\ d.eff = c.eff /\ d.framesId = c.framesId
  BY DEF InterContext
<1>6. /\ NumbersOf(L) = x .. y - 1 /\ L \subseteq Passing(z)
      /\ \A f, g \in L : f.number = g.number => f = g
  BY BatchNumbers DEF Batch
<1>7. IsFiniteSet(B)
  BY <1>3, FS_Union DEF InterContext, Frames
<1> HIDE DEF L
<1>8. /\ c.nextFrame = b /\ c.created = b /\ B \subseteq Passing(z) /\ NumbersOf(B) = b .. y - 1
      /\ \A f, g \in B : f.number = g.number => f = g
  <2>1. CASE x = 0
    <3>1. c.buffer = {} /\ c.nextFrame = 0 /\ c.created = 0
      BY <2>1 DEF Buffered
    <3>2. B = L
      BY <3>1 DEF B, L
    <3> QED BY <1>6, <2>1, <3>1, <3>2
  <2>2. CASE x # 0
    <3>1. PICK f \in Passing(z) : c.buffer = {f} /\ f.number = x - 1 /\ (IsFlush(f) \/ c.created = x - 1) /\ c.nextFrame = x - 1
      BY <2>2 DEF Buffered
    <3>2. ~IsFlush(f)
      <4> SUFFICES ASSUME IsFlush(f) PROVE FALSE
        OBVIOUS
      <4>1. z = x - 1 /\ z # -1
        BY <2>2, <3>1, FrameSets
      <4> QED BY <1>1, <4>1
    <3>3. B = {f} \union L
      BY <3>1 DEF B, L
    <3>4. \A g \in L : g.number \in x .. y - 1
      BY <1>6 DEF NumbersOf
    <3>5. \A g \in L : g.number # f.number
      <4> SUFFICES ASSUME NEW g \in L PROVE g.number # f.number
        OBVIOUS
      <4>1. g.number \in x .. y - 1
        BY <3>4
      <4> QED BY <3>1, <4>1
    <3>6. NumbersOf(B) = b .. y - 1
      <4>1. NumbersOf(B) = {f.number} \union NumbersOf(L)
        BY <3>3 DEF NumbersOf
      <4>2. {x - 1} \union x .. y - 1 = x - 1 .. y - 1
        BY <1>1, <2>2
      <4> QED BY <1>6, <2>2, <3>1, <4>1, <4>2
    <3> QED BY <1>6, <2>2, <3>1, <3>2, <3>3, <3>5, <3>6
  <2> QED BY <2>1, <2>2
<1> HIDE DEF B
<1>9. \A f \in B : IsFlush(f) => f.number = y - 1
  <2> SUFFICES ASSUME NEW f \in B, IsFlush(f) PROVE f.number = y - 1
    OBVIOUS
  <2>1. f.number = z /\ f.number \in Nat
    BY <1>8, FrameSets
  <2>2. f.number \in b .. y - 1
    BY <1>8 DEF NumbersOf
  <2> QED BY <1>1, <1>2, <2>1, <2>2
<1> HIDE DEF d
<1>10. Joined(d, b, y - 1, z)
  BY <1>2, <1>4, <1>5, <1>7, <1>8, <1>9 DEF Joined
<1> QED BY <1>1, <1>2, <1>5, <1>10 DEF d, JoinsTo

(* The frames b .. e - 1 are done with: evaluated, or handed on.           *)
Took(f, c, b, e, z, S) ==
    /\ f \in InterContext(BOOLEAN, TRUE)
    /\ f.nextFrame = e
    /\ \E g \in Passing(z) : f.buffer = {g} /\ g.number = e /\ (IsFlush(g) \/ f.created = e)
    /\ Settled(f.sdh, Pairs(z)) /\ Seen(f.sdh) = Seen(c.sdh) \union S
    /\ f.eff.report = "none" /\ f.framesId = c.framesId
    /\ NumbersOf(f.eff.jobs) \intersect S = {} /\ NumbersOf(f.eff.jobs) \union S = b .. e - 1
    /\ JobsFit(f.eff.jobs, Pairs(z))
    /\ \A j \in f.eff.jobs : j.stage = "interframe" /\ j.script = c.framesId
    /\ Stream(f.eff.calls["sink"], Deliveries("sink"), Handed(c.sdh), Handed(f.sdh), Pairs(z))

(* The single frame of the beginning waits.                                *)
LEMMA InterWaits ==
    ASSUME NEW d, NEW z, Joined(d, 0, 0, z), d.eff = NoEffects, Settled(d.sdh, Pairs(z))
    PROVE  Took(InterStage!PairUp(d), d, 0, 0, z, {})
<1>1. /\ d \in InterContext(BOOLEAN, TRUE) /\ d.nextFrame = 0 /\ d.created = 0 /\ d.buffer \subseteq Passing(z)
      /\ NumbersOf(d.buffer) = 0 .. 0 /\ \A f, g \in d.buffer : f.number = g.number => f = g
  BY DEF Joined
<1>2. Run(d) = d.buffer /\ d.buffer # {} /\ Cardinality(d.buffer) = 0 - 0 + 1
  BY JoinedRun
<1>3. InterStage!PairUp(d) = InterStage!Common!Flush(d)
  <2>1. Cardinality(Run(d)) < 2
    BY <1>2
  <2> QED BY <1>2, <2>1, PairUpIs
<1>4. PICK g \in d.buffer : TRUE
  BY <1>2
<1>5. d.buffer = {g} /\ g.number = 0 /\ g \in Passing(z)
  <2>1. \A f \in d.buffer : f.number \in 0 .. 0
    BY <1>1 DEF NumbersOf
  <2>2. \A f \in d.buffer : f.number = 0
    BY <2>1
  <2> QED BY <1>1, <2>2
<1>6. Orderly(d.sdh, Pairs(z)) /\ Pairs(z) \in SUBSET FrameType
  BY FrameSets DEF Settled
<1> DEFINE f == InterStage!Common!Flush(d)
<1>7. InterPasses(d, f, Pairs(z)) /\ Settled(f.sdh, Pairs(z))
  BY <1>1, <1>6, InterFlushPasses
<1> HIDE DEF f
<1>8. InterDone(d, f, Pairs(z), "none")
  BY <1>7, InterDoneWhenPassed DEF InterSame
<1>9. /\ NumbersOf({}) = {} /\ 0 .. 0 - 1 = {} /\ JobsFit({}, Pairs(z))
  BY DEF NumbersOf, JobsFit
<1>10. /\ f \in InterContext(BOOLEAN, TRUE) /\ f.nextFrame = 0 /\ f.buffer = {g} /\ f.created = 0
       /\ Settled(f.sdh, Pairs(z)) /\ Seen(f.sdh) = Seen(d.sdh) \union {}
       /\ f.eff.report = "none" /\ f.framesId = d.framesId /\ f.eff.jobs = {}
       /\ Stream(f.eff.calls["sink"], Deliveries("sink"), Handed(d.sdh), Handed(f.sdh), Pairs(z))
  BY <1>1, <1>5, <1>8 DEF InterDone, InterSame
<1>11. Took(f, d, 0, 0, z, {})
  BY <1>5, <1>9, <1>10 DEF Took
<1> QED BY <1>3, <1>11 DEF f

(* What is asked for, and what the buffer keeps.                           *)
AskedFor(d, a, b, e, f) ==
    /\ a \in InterContext(BOOLEAN, TRUE) /\ a.buffer = {f} /\ a.nextFrame = e /\ a.created = b
    /\ a.sdh = d.sdh /\ a.framesId = d.framesId
    /\ a.eff.jobs = PairJobs(d) /\ a.eff.report = "none" /\ a.eff.calls = d.eff.calls

LEMMA InterAsks ==
    ASSUME NEW d, NEW b, NEW e, NEW z, Joined(d, b, e, z), b < e, d.eff = NoEffects,
           NEW f \in d.buffer, f.number = e
    PROVE  AskedFor(d, Asked(d), b, e, f)
<1> DEFINE k == [d EXCEPT !.buffer = InterStage!KeptFromLast(d, InterStage!LastOfRun(d)),
                          !.nextFrame = InterStage!LastOfRun(d)]
           a == Asked(d)
<1>1. /\ d \in InterContext(BOOLEAN, TRUE) /\ e \in Nat /\ d.created = b
      /\ d.buffer \in SUBSET FrameType /\ IsFiniteSet({f})
  BY FS_Singleton DEF Joined, InterContext, Frames
<1>2. InterStage!LastOfRun(d) = e /\ InterStage!KeptFromLast(d, e) = {f}
  BY JoinedRun, JoinedKept
<1>3. k = [d EXCEPT !.buffer = {f}, !.nextFrame = e]
  BY <1>2
<1>4. a = InterStage!Common!Evaluate(k, PairJobs(d))
  BY DEF Asked
<1> HIDE DEF k, a
<1>5. /\ k \in InterContext(BOOLEAN, TRUE) /\ k.buffer = {f} /\ k.nextFrame = e /\ k.created = b
      /\ k.sdh = d.sdh /\ k.framesId = d.framesId /\ k.eff = NoEffects
  BY <1>1, <1>3 DEF InterContext, Frames
<1>6. PairJobs(d) \in SUBSET Jobs("interframe")
  BY JoinedJobs
<1>7. a \in InterContext(BOOLEAN, TRUE)
  BY <1>4, <1>5, <1>6, InterEvaluateTyped
<1>8. a = [k EXCEPT !.eff = [k.eff EXCEPT !.jobs = @ \union PairJobs(d)]]
  BY <1>4 DEF InterStage!Common!Evaluate
<1>9. /\ a.buffer = {f} /\ a.nextFrame = e /\ a.created = b /\ a.sdh = d.sdh /\ a.framesId = d.framesId
      /\ a.eff = [k.eff EXCEPT !.jobs = @ \union PairJobs(d)]
  BY <1>5, <1>8 DEF InterContext
<1>10. a.eff = [calls |-> NoEffects.calls, jobs |-> {} \union PairJobs(d), report |-> "none"]
  BY <1>5, <1>9 DEF NoEffects
<1>11. a.eff.jobs = PairJobs(d) /\ a.eff.report = "none" /\ a.eff.calls = d.eff.calls
  BY <1>10
<1> QED BY <1>7, <1>9, <1>11 DEF a, AskedFor

LEMMA PairJobsFit ==
    ASSUME NEW d, NEW b, NEW e, NEW z, Joined(d, b, e, z), b < e, NEW f \in d.buffer, f.number = e
    PROVE  JobsFit(PairJobs(d), Pairs(z))
<1> DEFINE J == PairJobs(d)
           m == IF IsFlush(f) THEN e - 1 ELSE e
<1>0. b \in Nat
  BY DEF Joined
<1>1. /\ \A j \in J : /\ j.number \in b .. m - 1 /\ j.images = <<j.number, j.number + 1>>
                      /\ j.stage = "interframe" /\ j.script = d.framesId
      /\ J \in SUBSET Jobs("interframe")
  BY JoinedJobs
<1> HIDE DEF J, m
<1>2. \A j \in J : j = [stage |-> j.stage, script |-> j.script, number |-> j.number, images |-> j.images]
  BY <1>1 DEF Jobs, JobType
<1>3. \A j, k \in J : j.number = k.number => j = k
  BY <1>1, <1>2
<1>4. ASSUME NEW j \in J, NEW script PROVE Frame(j.number, Result(script, j.images)) \in Pairs(z)
  <2> DEFINE n == j.number
             s == <<n, n + 1>>
  <2>1. n \in Nat /\ j.images = s
    BY <1>0, <1>1
  <2> HIDE DEF n
  <2>2. s \in Seq(Nat) /\ s # <<>> /\ s[1] = n /\ <<n>> \in Seq(Nat)
    BY <2>1
  <2> HIDE DEF s
  <2>3. SubSeq(s, 1, 1) = <<n>>
    BY <2>2, FirstImage
  <2>4. Result(script, s) \in {<<n>>, s}
    BY <2>3 DEF Result
  <2>5. Frame(n, <<n>>) \in Pairs(z) /\ Frame(n, s) \in Pairs(z)
    BY <2>1, <2>2 DEF Frame, Pairs, FrameType, s
  <2> QED BY <2>1, <2>4, <2>5 DEF n
<1> QED BY <1>3, <1>4 DEF JobsFit, J

(* What is handed on, when the last frame is the flush frame.              *)
FlushedOn(d, h, e, z, f) ==
    /\ h \in InterContext(BOOLEAN, TRUE) /\ h.buffer = {f} /\ h.nextFrame = e
    /\ Settled(h.sdh, Pairs(z)) /\ Seen(h.sdh) = Seen(d.sdh) \union NumbersOf(RunFlush(d))
    /\ h.framesId = d.framesId /\ h.eff.jobs = PairJobs(d) /\ h.eff.report = "none"
    /\ Stream(h.eff.calls["sink"], Deliveries("sink"), Handed(d.sdh), Handed(h.sdh), Pairs(z))

LEMMA InterFlushes ==
    ASSUME NEW d, NEW b, NEW e, NEW z \in Nat \union {-1}, Joined(d, b, e, z), b < e, d.eff = NoEffects,
           NEW f \in d.buffer, f.number = e, Settled(d.sdh, Pairs(z)), Seen(d.sdh) \subseteq 0 .. b - 1
    PROVE  FlushedOn(d, Flushed(d), e, z, f)
<1> DEFINE a == Asked(d)
           h == Flushed(d)
           A == Pairs(z)
           R == RunFlush(d)
<1>1. /\ a \in InterContext(BOOLEAN, TRUE) /\ a.buffer = {f} /\ a.nextFrame = e /\ a.created = b
      /\ a.sdh = d.sdh /\ a.framesId = d.framesId
      /\ a.eff.jobs = PairJobs(d) /\ a.eff.report = "none" /\ a.eff.calls = d.eff.calls
  <2>1. AskedFor(d, Asked(d), b, e, f)
    BY InterAsks
  <2> QED BY <2>1 DEF AskedFor
<1>2. R = IF IsFlush(f) THEN {Frame(e - 1, <<>>)} ELSE {}
  BY JoinedKept
<1>3. h = IF R = {} THEN a ELSE InterStage!Common!AddAll(a, R)
  BY DEF Flushed
<1>4. A \in SUBSET FrameType /\ Orderly(d.sdh, A) /\ Handed(d.sdh) \in Nat
  BY FrameSets, HandedTyped DEF Settled
<1>5. /\ b \in Nat /\ e \in Nat /\ f \in Passing(z)
  BY DEF Joined
<1>6. Stream(d.eff.calls["sink"], Deliveries("sink"), Handed(d.sdh), Handed(d.sdh), A)
  BY <1>4, NothingSent, ThreadsAre
<1> HIDE DEF a, h, A, R
<1>7. CASE ~IsFlush(f)
  <2>1. R = {} /\ NumbersOf({}) = {}
    BY <1>2, <1>7 DEF NumbersOf
  <2>2. Settled(d.sdh, A)
    BY DEF A
  <2> QED BY <1>1, <1>3, <1>6, <2>1, <2>2 DEF FlushedOn, h, R, A
<1>8. CASE IsFlush(f)
  <2> DEFINE g == Frame(e - 1, <<>>)
  <2>1. R = {g}
    BY <1>2, <1>8
  <2>2. g \in A /\ g.number = e - 1
    <3>1. z = e /\ e - 1 \in Nat
      BY <1>5, <1>8, FrameSets
    <3>2. <<>> \in Seq(Nat)
      OBVIOUS
    <3> QED BY <3>1, <3>2 DEF Frame, A, Pairs, FrameType
  <2> HIDE DEF g
  <2>3. NumbersOf(R) = {e - 1} /\ IsFiniteSet(R) /\ R \in SUBSET A
    <3>1. NumbersOf({g}) = {g.number}
      BY DEF NumbersOf
    <3>2. IsFiniteSet({g})
      BY FS_Singleton
    <3> QED BY <2>1, <2>2, <3>1, <3>2
  <2>4. NumbersOf(R) \intersect Seen(a.sdh) = {}
    <3>1. e - 1 \notin 0 .. b - 1
      BY <1>5
    <3> QED BY <1>1, <2>3, <3>1
  <2>5. /\ h \in InterContext(BOOLEAN, TRUE)
        /\ Settled(h.sdh, A) /\ Seen(h.sdh) = Seen(a.sdh) \union NumbersOf(R)
        /\ h.eff.jobs = a.eff.jobs /\ h.eff.report = a.eff.report /\ InterSame(a, h)
        /\ \A i : Stream(a.eff.calls["sink"], Deliveries("sink"), i, Handed(a.sdh), A) =>
                     Stream(h.eff.calls["sink"], Deliveries("sink"), i, Handed(h.sdh), A)
    <3>1. \A x, y \in R : x.number = y.number => x = y
      BY <2>1
    <3>2. h = InterStage!Common!AddAll(a, R) /\ Orderly(a.sdh, A)
      BY <1>1, <1>3, <1>4, <2>1
    <3> QED BY <1>1, <1>4, <2>3, <2>4, <3>1, <3>2, InterAddPasses, ZenonT(40)
  <2>6. Stream(h.eff.calls["sink"], Deliveries("sink"), Handed(d.sdh), Handed(h.sdh), A)
    BY <1>1, <1>6, <2>5
  <2> QED BY <1>1, <2>5, <2>6 DEF FlushedOn, h, A, R, InterSame
<1> QED BY <1>7, <1>8
-----------------------------------------------------------------------------
(* A round of the inter-frame stage, with two frames or more.              *)
LEMMA InterPairs ==
    ASSUME NEW d, NEW b, NEW e, NEW z \in Nat \union {-1}, Joined(d, b, e, z), b < e, d.eff = NoEffects,
           Settled(d.sdh, Pairs(z)), Seen(d.sdh) \subseteq 0 .. b - 1
    PROVE  Took(InterStage!PairUp(d), d, b, e, z, NumbersOf(RunFlush(d)))
<1>1. /\ d \in InterContext(BOOLEAN, TRUE) /\ d.created = b /\ b \in Nat /\ e \in Nat /\ e < SizeModulus
      /\ NumbersOf(d.buffer) = b .. e /\ d.buffer \subseteq Passing(z)
  BY DEF Joined
<1>2. PICK f \in d.buffer : f.number = e
  <2>1. e \in b .. e
    BY <1>1
  <2> QED BY <1>1, <2>1 DEF NumbersOf
<1> DEFINE h == Flushed(d)
           p == PairedUp(d)
           S == NumbersOf(RunFlush(d))
           m == IF IsFlush(f) THEN e - 1 ELSE e
<1>3. InterStage!PairUp(d) = p
  <2>1. Run(d) = d.buffer /\ d.buffer # {} /\ Cardinality(d.buffer) = e - b + 1
    BY JoinedRun
  <2>2. ~(Cardinality(Run(d)) < 2)
    BY <1>1, <2>1
  <2> QED BY <2>1, <2>2, PairUpIs
<1>4. p \in InterContext(BOOLEAN, TRUE)
  BY <1>1, <1>3, PairUpTyped
<1>5. p = [h EXCEPT !.created = InterStage!Created(d, RunImages(d), RunFlush(d))]
  BY DEF PairedUp
<1>6. /\ h \in InterContext(BOOLEAN, TRUE) /\ h.buffer = {f} /\ h.nextFrame = e
      /\ Settled(h.sdh, Pairs(z)) /\ Seen(h.sdh) = Seen(d.sdh) \union S
      /\ h.framesId = d.framesId /\ h.eff.jobs = PairJobs(d) /\ h.eff.report = "none"
      /\ Stream(h.eff.calls["sink"], Deliveries("sink"), Handed(d.sdh), Handed(h.sdh), Pairs(z))
  <2>1. FlushedOn(d, Flushed(d), e, z, f)
    BY <1>2, InterFlushes
  <2> QED BY <2>1 DEF FlushedOn
<1>7. RunFlush(d) = IF IsFlush(f) THEN {Frame(e - 1, <<>>)} ELSE {}
  BY <1>2, JoinedKept
<1>8. ~IsFlush(f) => InterStage!Created(d, RunImages(d), RunFlush(d)) = e
  <2> SUFFICES ASSUME ~IsFlush(f) PROVE InterStage!Created(d, RunImages(d), RunFlush(d)) = e
    OBVIOUS
  <2>1. Cardinality(RunImages(d)) = e - b + 1
    <3>1. e = m
      OBVIOUS
    <3> HIDE DEF m
    <3>2. Cardinality(RunImages(d)) = m - b + 1
      BY <1>2, JoinedImages DEF m
    <3> QED BY <3>1, <3>2
  <2>2. InterStage!Created(d, RunImages(d), RunFlush(d)) = (b + (e - b + 1) - 1 - 0) % SizeModulus
    BY <1>1, <1>7, <2>1 DEF InterStage!Created, InterStage!Cardinality, Cardinality, InterStage!IsFiniteSet, IsFiniteSet
  <2>3. b + (e - b + 1) - 1 - 0 = e
    BY <1>1
  <2>4. e % SizeModulus = e
    BY <1>1, FileToFileAssumption
  <2> QED BY <2>2, <2>3, <2>4
<1>9. /\ \A j \in PairJobs(d) : j.number \in b .. m - 1 /\ j.stage = "interframe" /\ j.script = d.framesId
      /\ \A n \in b .. m - 1 : \E j \in PairJobs(d) : j.number = n
  BY <1>2, JoinedJobs
<1>10. JobsFit(PairJobs(d), Pairs(z))
  BY <1>2, PairJobsFit
<1> HIDE DEF h, p
<1>11. /\ p.buffer = {f} /\ p.nextFrame = e /\ p.sdh = h.sdh /\ p.framesId = h.framesId /\ p.eff = h.eff
       /\ p.created = InterStage!Created(d, RunImages(d), RunFlush(d))
  BY <1>5, <1>6 DEF InterContext
<1>12. f \in Passing(z) /\ f.number = e /\ (IsFlush(f) \/ p.created = e)
  BY <1>1, <1>2, <1>8, <1>11
<1>13. NumbersOf(PairJobs(d)) = b .. m - 1
  <2> HIDE DEF m
  <2> QED BY <1>9 DEF NumbersOf
<1>14. S = IF IsFlush(f) THEN {e - 1} ELSE {}
  <2>1. NumbersOf({}) = {} /\ NumbersOf({Frame(e - 1, <<>>)}) = {e - 1}
    BY DEF NumbersOf, Frame
  <2> QED BY <1>7, <2>1
<1>15. NumbersOf(PairJobs(d)) \intersect S = {} /\ NumbersOf(PairJobs(d)) \union S = b .. e - 1
  BY <1>1, <1>13, <1>14
<1> HIDE DEF S, m
<1>16. Took(p, d, b, e, z, S)
  BY <1>4, <1>6, <1>9, <1>10, <1>11, <1>12, <1>15, ZenonT(40) DEF Took
<1> QED BY <1>3, <1>16 DEF S

(* Frames x .. y - 1 arrive.                                               *)
InterTakes(f, c, x, y, z, S) ==
    /\ f \in InterContext(BOOLEAN, TRUE)
    /\ Buffered(f, y, z)
    /\ Settled(f.sdh, Pairs(z)) /\ Seen(f.sdh) = Seen(c.sdh) \union S
    /\ f.eff.report = "none" /\ f.framesId = c.framesId
    /\ NumbersOf(f.eff.jobs) \intersect S = {}
    /\ (NumbersOf(f.eff.jobs) \union S) \intersect 0 .. x - 2 = {}
    /\ 0 .. y - 2 = (0 .. x - 2) \union NumbersOf(f.eff.jobs) \union S
    /\ JobsFit(f.eff.jobs, Pairs(z))
    /\ \A j \in f.eff.jobs : j.stage = "interframe" /\ j.script = c.framesId
    /\ Stream(f.eff.calls["sink"], Deliveries("sink"), Handed(c.sdh), Handed(f.sdh), Pairs(z))

LEMMA InterProcessTakes ==
    ASSUME NEW c \in InterContext(BOOLEAN, TRUE), c.eff = NoEffects, c.exists,
           NEW z \in Nat \union {-1}, NEW x \in Nat, Buffered(c, x, z),
           Settled(c.sdh, Pairs(z)), Seen(c.sdh) \subseteq 0 .. x - 2,
           NEW y, NEW load \in Seq(FrameType), load # <<>>, Batch(load, x, y, Passing(z)),
           y <= SizeModulus, z # -1 => y - 1 <= z
    PROVE  \E S \in SUBSET Nat : InterTakes(InterStage!Process(c, load), c, x, y, z, S)
<1> DEFINE d == [c EXCEPT !.buffer = @ \union Range(load)]
           b == IF x = 0 THEN 0 ELSE x - 1
           f == InterStage!PairUp(d)
<1>1. /\ Joined(d, b, y - 1, z)
      /\ d.exists = c.exists /\ d.sdh = c.sdh /\ d.eff = c.eff /\ d.framesId = c.framesId
      /\ y \in Nat /\ x < y /\ (b = y - 1 => x = 0 /\ y = 1)
  <2>1. JoinsTo(c, d, b, x, y, z)
    BY InterJoins, Zenon
  <2> HIDE DEF d, b
  <2> QED BY <2>1 DEF JoinsTo
<1>2. InterStage!Process(c, load) = f
  BY DEF InterStage!Process, InterStage!Range, Range
<1>3. b \in Nat /\ b <= y - 1
  BY <1>1
<1> HIDE DEF d, f
<1>4. ASSUME NEW S, Took(f, d, b, y - 1, z, S), S \in SUBSET Nat
      PROVE  InterTakes(f, c, x, y, z, S)
  <2>1. /\ f \in InterContext(BOOLEAN, TRUE) /\ f.nextFrame = y - 1
        /\ Settled(f.sdh, Pairs(z)) /\ Seen(f.sdh) = Seen(c.sdh) \union S
        /\ f.eff.report = "none" /\ f.framesId = c.framesId
        /\ JobsFit(f.eff.jobs, Pairs(z))
        /\ \A j \in f.eff.jobs : j.stage = "interframe" /\ j.script = c.framesId
        /\ Stream(f.eff.calls["sink"], Deliveries("sink"), Handed(c.sdh), Handed(f.sdh), Pairs(z))
    BY <1>1, <1>4 DEF Took
  <2>2. Buffered(f, y, z)
    <3>1. PICK g \in Passing(z) : f.buffer = {g} /\ g.number = y - 1 /\ (IsFlush(g) \/ f.created = y - 1)
      BY <1>4 DEF Took
    <3>2. y # 0
      BY <1>1
    <3> QED BY <2>1, <3>1, <3>2 DEF Buffered
  <2>3. NumbersOf(f.eff.jobs) \intersect S = {} /\ NumbersOf(f.eff.jobs) \union S = b .. (y - 1) - 1
    BY <1>4 DEF Took
  <2>4. b .. (y - 1) - 1 \intersect 0 .. x - 2 = {} /\ 0 .. y - 2 = (0 .. x - 2) \union (b .. (y - 1) - 1)
    BY <1>1
  <2>5. /\ (NumbersOf(f.eff.jobs) \union S) \intersect 0 .. x - 2 = {}
        /\ 0 .. y - 2 = (0 .. x - 2) \union NumbersOf(f.eff.jobs) \union S
    <3> HIDE DEF b
    <3> QED BY <2>3, <2>4
  <2> QED BY <2>1, <2>2, <2>3, <2>5 DEF InterTakes
<1>5. CASE b = y - 1
  <2>1. x = 0 /\ y - 1 = 0 /\ b = 0
    BY <1>1, <1>5
  <2>2. Joined(d, 0, 0, z)
    <3> HIDE DEF b
    <3> QED BY <1>1, <2>1
  <2>3. Took(f, d, 0, 0, z, {})
    BY <1>1, <2>2, InterWaits DEF f
  <2>4. InterTakes(f, c, x, y, z, {})
    <3> HIDE DEF b
    <3> QED BY <1>4, <2>1, <2>3
  <2> QED BY <1>2, <2>4
<1>6. CASE b < y - 1
  <2> DEFINE S == NumbersOf(RunFlush(d))
  <2>1. Seen(d.sdh) \subseteq 0 .. b - 1
    <3>1. 0 .. x - 2 \subseteq 0 .. b - 1
      OBVIOUS
    <3> HIDE DEF b
    <3> QED BY <1>1, <3>1
  <2> HIDE DEF b
  <2>2. Took(f, d, b, y - 1, z, S)
    BY <1>1, <1>6, <2>1, InterPairs DEF f
  <2>3. S \in SUBSET Nat
    <3>1. S \subseteq b .. (y - 1) - 1
      BY <2>2 DEF Took
    <3> QED BY <1>3, <3>1
  <2> HIDE DEF S
  <2>4. InterTakes(f, c, x, y, z, S)
    BY <1>4, <2>2, <2>3
  <2> QED BY <1>2, <2>3, <2>4
<1> QED BY <1>1, <1>3, <1>5, <1>6
-----------------------------------------------------------------------------
(* What a job of the sink leaves behind that takes no frames.              *)
SinkDone(c, f, A) ==
    /\ f \in SinkContext(BOOLEAN)
    /\ Settled(f.sdh, A) /\ Seen(f.sdh) = Seen(c.sdh)

LEMMA SinkJobsDone ==
    ASSUME NEW c \in SinkContext(BOOLEAN), NEW A \in SUBSET FrameType, Settled(c.sdh, A)
    PROVE  /\ SinkDone(c, Sink!Init(c), A)
           /\ SinkDone(c, Sink!Params(c), A)
           /\ SinkDone(c, Sink!Start(c), A)
           /\ \A load \in Seq(FrameType) : /\ SinkDone(c, Sink!FramesWritten(c, load), A)
                                           /\ SinkDone(c, Sink!LastWritten(c, load), A)
           /\ SinkDone(c, Sink!WriteFailed(c), A)
<1>0. /\ Orderly(c.sdh, A)
      /\ SinkDone(c, c, A)
  BY DEF SinkDone, Settled
<1>1. SinkDone(c, Sink!Init(c), A)
  <2> DEFINE m == Call("pipeline", "initialized")
             d == [c EXCEPT !.exists = TRUE]
             e == Sink!Send(d, m)
  <2>1. m \in SinkCalls
    BY SinkCallsMade
  <2>2. d \in SinkContext(BOOLEAN) /\ d.sdh = c.sdh
    BY DEF SinkContext
  <2>3. Sink!Init(c) = Sink!Flush(e)
    BY DEF Sink!Init, Sink!Call, Call
  <2> HIDE DEF d, m
  <2>4. SinkSame(d, e) /\ e.sdh = d.sdh
    BY <2>1, <2>2, SinkSendFields
  <2> HIDE DEF e
  <2>5. SinkSame(e, Sink!Flush(e)) /\ Settled(Sink!Flush(e).sdh, A) /\ Seen(Sink!Flush(e).sdh) = Seen(e.sdh)
    <3>1. e \in SinkContext(BOOLEAN) /\ Orderly(e.sdh, A)
      BY <1>0, <2>2, <2>4 DEF SinkSame
    <3> QED BY <3>1, SinkFlushPasses
  <2> QED BY <2>2, <2>3, <2>4, <2>5 DEF SinkDone, SinkSame
<1>2. SinkDone(c, Sink!Params(c), A)
  <2> DEFINE d == [c EXCEPT !.codecOpen = TRUE]
  <2>1. d \in SinkContext(BOOLEAN) /\ d.sdh = c.sdh
    BY DEF SinkContext
  <2>2. Sink!Params(c) = IF c.exists THEN d ELSE c
    BY DEF Sink!Params
  <2> HIDE DEF d
  <2> QED BY <1>0, <2>1, <2>2 DEF SinkDone
<1>3. \A d \in SinkContext(BOOLEAN) : d.sdh = c.sdh => SinkDone(c, Sink!Trigger(d), A)
  BY SinkTriggerFields DEF SinkDone, SinkSame
<1>4. SinkDone(c, Sink!Start(c), A)
  <2>1. Sink!Start(c) = IF c.exists /\ ~c.prevFinished THEN Sink!Trigger(c) ELSE c
    BY DEF Sink!Start, Sink!Trigger
  <2> QED BY <1>0, <1>3, <2>1
<1>5. \A d \in SinkContext(BOOLEAN), r \in {"finished", "failed"} : d.sdh = c.sdh => SinkDone(c, Sink!Report(d, r), A)
  <2> SUFFICES ASSUME NEW d \in SinkContext(BOOLEAN), NEW r \in {"finished", "failed"}, d.sdh = c.sdh
               PROVE  SinkDone(c, Sink!Report(d, r), A)
    OBVIOUS
  <2>1. Sink!Report(d, r) \in SinkContext(BOOLEAN)
    BY SinkReports
  <2>2. Sink!Report(d, r).sdh = d.sdh
    BY DEF Sink!Report, SinkContext
  <2> QED BY <2>1, <2>2 DEF SinkDone
<1>6. ASSUME NEW load \in Seq(FrameType)
      PROVE  SinkDone(c, Sink!FramesWritten(c, load), A) /\ SinkDone(c, Sink!LastWritten(c, load), A)
  <2> DEFINE d == Sink!FlushBuffer(c, load)
             e == [d EXCEPT !.finished = TRUE]
  <2>1. d \in SinkContext(BOOLEAN)
    BY FlushBufferTyped
  <2>2. d.sdh = c.sdh
    BY FlushBufferIs DEF SinkContext
  <2>3. Sink!FramesWritten(c, load) = Sink!Trigger(d) /\ Sink!LastWritten(c, load) = Sink!Report(e, "finished")
    BY DEF Sink!FramesWritten, Sink!LastWritten
  <2> HIDE DEF d
  <2>4. e \in SinkContext(BOOLEAN) /\ e.sdh = c.sdh
    BY <2>1, <2>2 DEF SinkContext
  <2> HIDE DEF e
  <2> QED BY <1>3, <1>5, <2>1, <2>2, <2>3, <2>4
<1>7. SinkDone(c, Sink!WriteFailed(c), A)
  BY <1>5 DEF Sink!WriteFailed
<1> QED BY <1>1, <1>2, <1>4, <1>6, <1>7

LEMMA SinkAddPasses ==
    ASSUME NEW c \in SinkContext(BOOLEAN), NEW A \in SUBSET FrameType, Orderly(c.sdh, A),
           NEW E \in SUBSET A, IsFiniteSet(E), \A e, f \in E : e.number = f.number => e = f,
           NumbersOf(E) \intersect Seen(c.sdh) = {}
    PROVE  LET f == Sink!AddAll(c, E)
           IN  f \in SinkContext(BOOLEAN) /\ Settled(f.sdh, A) /\ Seen(f.sdh) = Seen(c.sdh) \union NumbersOf(E)
<1> DEFINE d == [c EXCEPT !.sdh.in = @ \union E]
           g == [c.sdh EXCEPT !.in = @ \union E]
<1>1. Orderly(g, A) /\ Seen(g) = Seen(c.sdh) \union NumbersOf(E) /\ g \in Handler
  BY EntriesAdded DEF SinkContext
<1>2. Sink!AddAll(c, E) = Sink!Flush(d)
  BY SinkAddIs
<1>3. d = [c EXCEPT !.sdh = g]
  OBVIOUS
<1> HIDE DEF g, d
<1>4. d \in SinkContext(BOOLEAN) /\ d.sdh = g
  BY <1>1, <1>3 DEF SinkContext
<1>5. SinkSame(d, Sink!Flush(d)) /\ Settled(Sink!Flush(d).sdh, A) /\ Seen(Sink!Flush(d).sdh) = Seen(g)
  BY <1>1, <1>4, SinkFlushPasses
<1> QED BY <1>1, <1>2, <1>5 DEF SinkSame

(* Frames x .. y - 1 arrive.                                               *)
SinkTakes(f, y, A) ==
    f \in SinkContext(BOOLEAN) /\ Settled(f.sdh, A) /\ Seen(f.sdh) = 0 .. y - 1

LEMMA SinkProcessTakes ==
    ASSUME NEW c \in SinkContext(BOOLEAN), c.exists, NEW A \in SUBSET FrameType, Settled(c.sdh, A),
           NEW x \in Nat, Seen(c.sdh) = 0 .. x - 1,
           NEW y, NEW load \in Seq(FrameType), Batch(load, x, y, A)
    PROVE  SinkTakes(Sink!Process(c, load), y, A)
<1> DEFINE E == Range(load)
<1>1. /\ E \in SUBSET A /\ IsFiniteSet(E)
      /\ \A e, f \in E : e.number = f.number => e = f
      /\ NumbersOf(E) = x .. y - 1 /\ y \in Nat /\ x <= y
  BY LoadTyped, BatchNumbers DEF Batch
<1>2. NumbersOf(E) \intersect Seen(c.sdh) = {}
  BY <1>1
<1>3. Orderly(c.sdh, A)
  BY DEF Settled
<1>4. Sink!Process(c, load) = Sink!AddAll(c, E)
  BY DEF Sink!Process, Sink!Range, Range
<1>5. Seen(c.sdh) \union NumbersOf(E) = 0 .. y - 1
  BY <1>1
<1> HIDE DEF E
<1>6. LET f == Sink!AddAll(c, E)
      IN  f \in SinkContext(BOOLEAN) /\ Settled(f.sdh, A) /\ Seen(f.sdh) = Seen(c.sdh) \union NumbersOf(E)
  BY <1>1, <1>2, <1>3, SinkAddPasses
<1> QED BY <1>4, <1>5, <1>6 DEF SinkTakes

-----------------------------------------------------------------------------
(* What a job of the source leaves behind: z is the place of its flush     *)
(* frame as far as the stages behind it know.                              *)
SourceDone(v, c, f) ==
    /\ f \in SourceContext(v, BOOLEAN, TRUE)
    /\ SourceFlow(v, f)
    /\ End(f) = End(c) \/ End(c) = -1
    /\ Stream(f.eff.calls["processors"], Deliveries("frame"), Handed(c.sdh), Handed(f.sdh), Passing(End(f)))

(* The context d in which the job begins to send.                          *)
SourceLike(c, d) ==
    /\ d.exists \/ d.exists = c.exists
    /\ d.sdh = c.sdh /\ d.eff = NoEffects
    /\ d.loaded = c.loaded /\ d.processed = c.processed
    /\ d.eofReached = c.eofReached /\ d.eofFlushed = c.eofFlushed

LEMMA FlushPlaceTyped ==
    ASSUME NEW v, NEW c \in SourceContext(v, BOOLEAN, TRUE)
    PROVE  /\ FlushPlace(c) \in Nat \union {-1} /\ c.processed \in Nat /\ c.processed # -1
           /\ FlushPlace(c) \in Nat => c.eofReached
           /\ SourceFlow(v, c) => End(c) \in {FlushPlace(c), -1} /\ Sent(c, FlushPlace(c)) = Passing(End(c))
<1>1. c.processed \in Nat /\ c.eofReached \in BOOLEAN /\ c.eofFlushed \in BOOLEAN
  BY DEF SourceContext
<1> QED BY <1>1 DEF FlushPlace, End, SourceFlow, Sent

LEMMA SourceDoneWhenPassed ==
    ASSUME NEW v, NEW c \in SourceContext(v, BOOLEAN, TRUE), SourceFlow(v, c), NEW d, SourceLike(c, d),
           NEW f, SourcePasses(v, d, f, FlushPlace(c))
    PROVE  SourceDone(v, c, f)
<1>1. f \in SourceContext(v, BOOLEAN, TRUE)
  BY DEF SourcePasses
<1>2. /\ f.loaded = c.loaded /\ f.processed = c.processed /\ f.eofReached = c.eofReached
      /\ c.eofFlushed => f.eofFlushed
      /\ f.eofFlushed => c.eofFlushed \/ FlushPlace(c) \in Nat
      /\ f.exists = d.exists
  BY DEF SourcePasses, SourceLike
<1>3. FlushPlace(f) = FlushPlace(c)
  BY <1>2 DEF FlushPlace
<1>4. Settled(f.sdh, Passing(FlushPlace(f))) /\ Seen(f.sdh) = Seen(c.sdh)
  BY <1>3 DEF SourcePasses, SourceLike, SourceFlow
<1>5. SourceFlow(v, f)
  <2>1. f.exists \in BOOLEAN /\ c.exists \in BOOLEAN
    BY <1>1 DEF SourceContext
  <2>2. ~f.exists => f.processed = 0
    BY <1>2, <2>1 DEF SourceLike, SourceFlow
  <2>3. f.eofFlushed => f.eofReached
    BY <1>2, FlushPlaceTyped DEF SourceFlow
  <2>4. f.processed <= v.decoded[f.loaded] + (IF f.eofReached THEN 1 ELSE 0)
    BY <1>2 DEF SourceFlow
  <2> QED BY <1>2, <1>4, <2>2, <2>3, <2>4 DEF SourceFlow
<1>6. End(f) = End(c) \/ End(c) = -1
  BY <1>2 DEF End
<1>7. Stream(d.eff.calls["processors"], Deliveries("frame"), Handed(c.sdh), Handed(d.sdh), Sent(d, FlushPlace(c)))
  <2>1. Handed(c.sdh) \in Nat
    BY HandedTyped DEF SourceFlow, Settled
  <2> QED BY <2>1, NothingSent, ThreadsAre DEF SourceLike
<1>8. Stream(f.eff.calls["processors"], Deliveries("frame"), Handed(c.sdh), Handed(f.sdh), Sent(f, FlushPlace(c)))
  BY <1>7 DEF SourcePasses
<1>9. Sent(f, FlushPlace(c)) = Passing(End(f))
  BY <1>1, <1>3, <1>5, FlushPlaceTyped
<1> QED BY <1>1, <1>5, <1>6, <1>8, <1>9 DEF SourceDone
-----------------------------------------------------------------------------
(* The jobs of the source that read nothing.                               *)
LEMMA SourceStays ==
    ASSUME NEW v, NEW c \in SourceContext(v, BOOLEAN, TRUE), SourceFlow(v, c), NEW d \in SourceContext(v, BOOLEAN, TRUE),
           SourceLike(c, d)
    PROVE  SourceDone(v, c, d)
<1>1. SourcePasses(v, d, d, FlushPlace(c))
  BY DEF SourcePasses
<1> QED BY <1>1, SourceDoneWhenPassed

LEMMA SourceReportsDone ==
    ASSUME NEW v, NEW c, NEW d \in SourceContext(v, BOOLEAN, TRUE), SourceDone(v, c, d),
           NEW r \in {"finished", "failed", "crashed"}
    PROVE  SourceDone(v, c, Source!Report(d, r))
<1> DEFINE f == Source!Report(d, r)
<1>1. f \in SourceContext(v, BOOLEAN, TRUE)
  BY SourceReports
<1>2. /\ f.exists = d.exists /\ f.sdh = d.sdh /\ f.loaded = d.loaded /\ f.processed = d.processed
      /\ f.eofReached = d.eofReached /\ f.eofFlushed = d.eofFlushed /\ f.eff.calls = d.eff.calls
  BY DEF Source!Report, SourceContext, Effect
<1> HIDE DEF f
<1>3. End(f) = End(d) /\ FlushPlace(f) = FlushPlace(d)
  BY <1>2 DEF End, FlushPlace
<1>4. SourceFlow(v, f)
  BY <1>2, <1>3 DEF SourceDone, SourceFlow
<1> QED BY <1>1, <1>2, <1>3, <1>4 DEF SourceDone, f

LEMMA SourceInitDone ==
    ASSUME NEW v, NEW c \in SourceContext(v, BOOLEAN, TRUE), SourceFlow(v, c), c.eff = NoEffects, NEW opened \in BOOLEAN
    PROVE  SourceDone(v, c, Source!Init(c, opened))
<1> DEFINE o == [c EXCEPT !.exists = TRUE, !.opened = TRUE]
           x == [c EXCEPT !.exists = TRUE]
           m == Call("frame", "params")
           k == Call("pipeline", "initialized")
           p == Source!Send(o, m)
           z == FlushPlace(c)
<1>1. /\ o \in SourceContext(v, BOOLEAN, TRUE) /\ x \in SourceContext(v, BOOLEAN, TRUE)
      /\ SourceLike(c, o) /\ SourceLike(c, x)
  BY DEF SourceContext, SourceLike
<1>2. /\ Is(m, "frame", "params") /\ m \in SourceCalls(TRUE)
      /\ Is(k, "pipeline", "initialized") /\ k \in SourceCalls(TRUE)
  BY SourceCallsMade, CallsMade
<1>3. m \notin Deliveries("frame") /\ k \notin Deliveries("frame")
  BY <1>2 DEF Is, Deliveries
<1>4. Source!Init(c, opened) = IF opened THEN Source!Send(p, k) ELSE Source!Report(x, "failed")
  BY DEF Source!Init, Source!Call, Call
<1> HIDE DEF o, x, m, k
<1>5. SourcePasses(v, o, p, z)
  BY <1>1, <1>2, <1>3, SourceSendPasses
<1> HIDE DEF p
<1>6. SourcePasses(v, p, Source!Send(p, k), z)
  <2>1. p \in SourceContext(v, BOOLEAN, TRUE)
    BY <1>5 DEF SourcePasses
  <2> QED BY <2>1, <1>2, <1>3, SourceSendPasses
<1>7. SourcePasses(v, o, Source!Send(p, k), z)
  BY <1>5, <1>6, SourcePassesOn
<1>8. SourceDone(v, c, Source!Send(p, k))
  BY <1>1, <1>7, SourceDoneWhenPassed
<1>9. SourceDone(v, c, Source!Report(x, "failed"))
  BY <1>1, SourceStays, SourceReportsDone
<1> QED BY <1>4, <1>8, <1>9

LEMMA SourceNextDone ==
    ASSUME NEW v, NEW c \in SourceContext(v, BOOLEAN, TRUE), SourceFlow(v, c), c.eff = NoEffects, NEW n \in 0 .. MaxOut
    PROVE  SourceDone(v, c, Source!Next(c, n))
<1> DEFINE d == [c EXCEPT !.waiting = n]
           z == FlushPlace(c)
<1>1. d \in SourceContext(v, BOOLEAN, TRUE) /\ SourceLike(c, d)
  BY DEF SourceContext, SourceLike, Demand
<1>2. Source!Next(c, n) = IF c.exists THEN Source!Flush(d) ELSE c
  BY DEF Source!Next
<1> HIDE DEF d
<1>3. z \in Nat \union {-1} /\ Orderly(d.sdh, Passing(z))
  BY <1>1, FlushPlaceTyped DEF SourceLike, SourceFlow, Settled
<1> HIDE DEF z
<1>4. SourcePasses(v, d, Source!Flush(d), z)
  BY <1>1, <1>3, SourceFlushPasses
<1>5. SourceDone(v, c, Source!Flush(d))
  BY <1>1, <1>4, SourceDoneWhenPassed DEF z
<1>6. SourceDone(v, c, c)
  BY SourceStays DEF SourceLike
<1> QED BY <1>2, <1>5, <1>6

-----------------------------------------------------------------------------
(* start reads on: new frames for the handler.                             *)
LEMMA SourceAddPasses ==
    ASSUME NEW v, NEW c \in SourceContext(v, BOOLEAN, TRUE), NEW z \in Nat \union {-1}, Orderly(c.sdh, Passing(z)),
           NEW E \in SUBSET Passing(z), IsFiniteSet(E), \A e, f \in E : e.number = f.number => e = f,
           NumbersOf(E) \intersect Seen(c.sdh) = {}
    PROVE  \E d : /\ SourcePasses(v, d, Source!AddAll(c, E), z) /\ Settled(Source!AddAll(c, E).sdh, Passing(z))
                  /\ d = [c EXCEPT !.sdh = d.sdh]
                  /\ Seen(d.sdh) = Seen(c.sdh) \union NumbersOf(E) /\ Handed(d.sdh) = Handed(c.sdh)
<1> DEFINE d == [c EXCEPT !.sdh.in = @ \union E]
           g == [c.sdh EXCEPT !.in = @ \union E]
<1>0. Passing(z) \in SUBSET FrameType
  BY FrameSets
<1>1. Orderly(g, Passing(z)) /\ Seen(g) = Seen(c.sdh) \union NumbersOf(E) /\ Handed(g) = Handed(c.sdh) /\ g \in Handler
  BY <1>0, EntriesAdded DEF SourceContext
<1>2. Source!AddAll(c, E) = Source!Flush(d)
  BY SourceAddIs
<1>3. d = [c EXCEPT !.sdh = g]
  OBVIOUS
<1> HIDE DEF g, d
<1>4. d \in SourceContext(v, BOOLEAN, TRUE) /\ d.sdh = g
  BY <1>1, <1>3 DEF SourceContext
<1>5. SourcePasses(v, d, Source!Flush(d), z) /\ Settled(Source!Flush(d).sdh, Passing(z))
  BY <1>1, <1>4, SourceFlushPasses
<1> QED BY <1>1, <1>2, <1>3, <1>4, <1>5
-----------------------------------------------------------------------------
(* The packets are read, their images not yet numbered.                    *)
ReadOn(c, d) ==
    /\ d.sdh = c.sdh /\ d.eff = c.eff /\ d.exists = c.exists /\ d.processed = c.processed
    /\ ~d.eofFlushed /\ ~c.eofFlushed

LEMMA SourceReadIs ==
    ASSUME NEW v \in Videos, NEW c \in SourceContext(v, BOOLEAN, TRUE), SourceFlow(v, c), ~c.eofReached
    PROVE  /\ Read(c, v) \in SourceContext(v, BOOLEAN, TRUE) /\ ReadOn(c, Read(c, v))
           /\ Gain(c, v) \in Nat /\ c.processed \in Nat
           /\ c.processed + Gain(c, v) <= v.decoded[Read(c, v).loaded]
           /\ FlushPlace(c) = -1 /\ End(c) = -1
<1>1. /\ c.sdh \in Handler /\ c.loaded \in 0 .. v.packets /\ c.processed \in Nat
      /\ c.eofFlushed \in BOOLEAN /\ MaxRead \in Nat
  BY FileToFileAssumption DEF SourceContext
<1>2. Want(c) \in Nat
  BY <1>1, FreeTyped DEF Want
<1>3. /\ c.loaded + Count(c, v) \in 0 .. v.packets /\ Gain(c, v) \in Nat
      /\ v.decoded[c.loaded] \in Nat /\ v.decoded[c.loaded + Count(c, v)] \in Nat
  BY <1>1, <1>2, ReadTyped DEF Count, Gain
<1>4. Read(c, v) \in SourceContext(v, BOOLEAN, TRUE)
  BY <1>3 DEF SourceContext, Read
<1>5. ~c.eofFlushed /\ c.processed <= v.decoded[c.loaded] + 0
  BY <1>1 DEF SourceFlow
<1>6. ReadOn(c, Read(c, v)) /\ Read(c, v).loaded = c.loaded + Count(c, v)
  BY <1>5 DEF SourceContext, Read, ReadOn
<1>7. c.processed + Gain(c, v) <= v.decoded[c.loaded + Count(c, v)]
  BY <1>1, <1>3, <1>5 DEF Gain
<1> QED BY <1>1, <1>3, <1>4, <1>5, <1>6, <1>7 DEF FlushPlace, End

(* Nothing is passed on by then.                                           *)
LEMMA SourceReadDone ==
    ASSUME NEW v \in Videos, NEW c \in SourceContext(v, BOOLEAN, TRUE), SourceFlow(v, c), ~c.eofReached, c.eff = NoEffects
    PROVE  SourceDone(v, c, Read(c, v))
<1> DEFINE d == Read(c, v)
<1>1. /\ d \in SourceContext(v, BOOLEAN, TRUE) /\ ReadOn(c, d)
      /\ Gain(c, v) \in Nat /\ c.processed \in Nat
      /\ c.processed + Gain(c, v) <= v.decoded[d.loaded]
      /\ FlushPlace(c) = -1 /\ End(c) = -1
  BY SourceReadIs
<1>2. v.decoded[d.loaded] \in Nat
  BY <1>1, FileToFileAssumption DEF SourceContext
<1> HIDE DEF d
<1>3. Settled(d.sdh, Passing(FlushPlace(d))) /\ Seen(d.sdh) = 0 .. d.processed - 1
  <2>1. Settled(c.sdh, Passing(-1)) /\ Seen(c.sdh) = 0 .. c.processed - 1
    BY <1>1 DEF SourceFlow
  <2> QED BY <1>1, <2>1, FrameSets, OrderlyWider DEF ReadOn
<1>4. d.processed <= v.decoded[d.loaded] + (IF d.eofReached THEN 1 ELSE 0)
  BY <1>1, <1>2 DEF ReadOn
<1>5. SourceFlow(v, d)
  BY <1>1, <1>3, <1>4 DEF ReadOn, SourceFlow
<1>6. End(d) = -1
  BY <1>1 DEF ReadOn, End
<1>7. Stream(d.eff.calls["processors"], Deliveries("frame"), Handed(c.sdh), Handed(d.sdh), Passing(End(d)))
  <2>1. Handed(c.sdh) \in Nat
    BY HandedTyped DEF SourceFlow, Settled
  <2> QED BY <1>1, <2>1, NothingSent, ThreadsAre DEF ReadOn
<1> QED BY <1>1, <1>5, <1>6, <1>7 DEF SourceDone, d

(* The images are numbered and added to the handler.                       *)
ImagesIn(v, c, a) ==
    /\ a \in SourceContext(v, BOOLEAN, TRUE)
    /\ Settled(a.sdh, Passing(-1)) /\ Seen(a.sdh) = 0 .. a.processed - 1
    /\ a.processed <= v.decoded[a.loaded] /\ ~a.eofFlushed
    /\ a.exists = c.exists
    /\ a.processed = c.processed + Gain(c, v) /\ a.loaded = Read(c, v).loaded
    /\ Stream(a.eff.calls["processors"], Deliveries("frame"), Handed(c.sdh), Handed(a.sdh), Passing(-1))

NewFrames(E, a, b) ==
    /\ E \subseteq Passing(-1) /\ IsFiniteSet(E) /\ NumbersOf(E) = a .. (b - 1)
    /\ \A e, f \in E : e.number = f.number => e = f

LEMMA FramesPass ==
    ASSUME NEW a \in Nat, NEW b \in Nat
    PROVE  NewFrames(Source!FramesOf(a, b), a, b)
<1> DEFINE E == Source!FramesOf(a, b)
           fr(k) == Source!Frame(k, <<k>>)
<1>1. IsFiniteSet(E) /\ E \subseteq FrameType
  BY FramesTyped
<1>2. E = {fr(k) : k \in a .. b - 1}
  BY DEF Source!FramesOf
<1>3. \A k \in a .. b - 1 : fr(k).number = k /\ fr(k).image = <<k>>
  BY DEF Source!Frame
<1> HIDE DEF fr, E
<1>4. \A e \in E : e = fr(e.number) /\ e.number \in a .. b - 1 /\ e.image = <<e.number>>
  BY <1>2, <1>3
<1>5. \A k \in a .. b - 1 : fr(k) \in E
  BY <1>2
<1>6. NumbersOf(E) = a .. b - 1
  <2>1. NumbersOf(E) \subseteq a .. b - 1
    BY <1>4 DEF NumbersOf
  <2>2. a .. b - 1 \subseteq NumbersOf(E)
    BY <1>3, <1>5 DEF NumbersOf
  <2> QED BY <2>1, <2>2
<1>7. E \subseteq Passing(-1)
  BY <1>1, <1>4 DEF Passing
<1>8. \A e, f \in E : e.number = f.number => e = f
  BY <1>4
<1> QED BY <1>1, <1>6, <1>7, <1>8 DEF E, NewFrames

LEMMA SourceImagesIn ==
    ASSUME NEW v \in Videos, NEW c \in SourceContext(v, BOOLEAN, TRUE), SourceFlow(v, c), ~c.eofReached, c.eff = NoEffects
    PROVE  ImagesIn(v, c, Added(c, v))
<1> DEFINE r == Read(c, v)
           n == Numbering(c, v)
           E == Source!FramesOf(c.processed, c.processed + Gain(c, v))
           g == Gain(c, v)
           a == Source!AddAll(n, E)
<1>1. /\ r \in SourceContext(v, BOOLEAN, TRUE) /\ ReadOn(c, r)
      /\ g \in Nat /\ c.processed \in Nat
      /\ c.processed + g <= v.decoded[r.loaded]
      /\ FlushPlace(c) = -1
  BY SourceReadIs
<1>2. n = [r EXCEPT !.processed = c.processed + g]
  BY <1>1 DEF Numbering, ReadOn
<1>3. /\ E \subseteq Passing(-1) /\ IsFiniteSet(E) /\ NumbersOf(E) = c.processed .. ((c.processed + g) - 1)
      /\ \A e, f \in E : e.number = f.number => e = f
  <2>1. c.processed + g \in Nat
    BY <1>1
  <2>2. NewFrames(E, c.processed, c.processed + g)
    BY <1>1, <2>1, FramesPass
  <2> HIDE DEF E, g
  <2> QED BY <2>2 DEF NewFrames
<1>4. Added(c, v) = a
  BY DEF Added
<1> HIDE DEF r, n, E, g
<1>5. /\ n \in SourceContext(v, BOOLEAN, TRUE) /\ n.processed = c.processed + g /\ n.loaded = r.loaded
      /\ n.sdh = c.sdh /\ n.eff = NoEffects /\ n.exists = c.exists /\ ~n.eofFlushed
  <2>1. c.processed + g \in Nat
    BY <1>1
  <2>2. n \in SourceContext(v, BOOLEAN, TRUE)
    BY <1>1, <1>2, <2>1 DEF SourceContext
  <2>3. /\ n.processed = c.processed + g /\ n.loaded = r.loaded
        /\ n.sdh = r.sdh /\ n.eff = r.eff /\ n.exists = r.exists /\ n.eofFlushed = r.eofFlushed
    BY <1>1, <1>2 DEF SourceContext
  <2> QED BY <1>1, <2>2, <2>3 DEF ReadOn
<1>6. Settled(c.sdh, Passing(-1)) /\ Orderly(n.sdh, Passing(-1)) /\ Seen(n.sdh) = 0 .. c.processed - 1
  BY <1>1, <1>5 DEF SourceFlow, Settled
<1>7. NumbersOf(E) \intersect Seen(n.sdh) = {}
  BY <1>1, <1>3, <1>6
<1>8. PICK d : /\ SourcePasses(v, d, a, -1) /\ Settled(a.sdh, Passing(-1))
               /\ d = [n EXCEPT !.sdh = d.sdh]
               /\ Seen(d.sdh) = Seen(n.sdh) \union NumbersOf(E) /\ Handed(d.sdh) = Handed(n.sdh)
  BY <1>3, <1>5, <1>6, <1>7, SourceAddPasses
<1> HIDE DEF a
<1>9. /\ d.processed = n.processed /\ d.loaded = n.loaded /\ d.exists = n.exists
      /\ d.eofFlushed = n.eofFlushed /\ d.eff = n.eff
  BY <1>5, <1>8 DEF SourceContext
<1>10. Seen(a.sdh) = 0 .. a.processed - 1 /\ a.processed = c.processed + g
  <2>1. Seen(a.sdh) = Seen(d.sdh) /\ a.processed = d.processed
    BY <1>8 DEF SourcePasses
  <2>2. Seen(d.sdh) = 0 .. c.processed + g - 1
    BY <1>1, <1>3, <1>6, <1>8
  <2>3. a.processed = c.processed + g
    BY <1>5, <1>9, <2>1
  <2> QED BY <1>1, <2>1, <2>2, <2>3
<1>11. /\ a \in SourceContext(v, BOOLEAN, TRUE) /\ a.loaded = r.loaded /\ a.exists = c.exists /\ ~a.eofFlushed
  <2>1. a \in SourceContext(v, BOOLEAN, TRUE) /\ a.loaded = d.loaded /\ a.exists = d.exists
        /\ (a.eofFlushed => d.eofFlushed \/ -1 \in Nat)
    BY <1>8 DEF SourcePasses
  <2>2. a.eofFlushed \in BOOLEAN
    BY <2>1 DEF SourceContext
  <2>3. -1 \notin Nat /\ ~d.eofFlushed
    BY <1>5, <1>9
  <2>4. ~a.eofFlushed
    BY <2>1, <2>3
  <2> QED BY <1>5, <1>9, <2>1, <2>4
<1>12. Stream(a.eff.calls["processors"], Deliveries("frame"), Handed(c.sdh), Handed(a.sdh), Passing(-1))
  <2>1. Handed(c.sdh) \in Nat
    BY HandedTyped, <1>6 DEF Settled
  <2>2. Stream(d.eff.calls["processors"], Deliveries("frame"), Handed(c.sdh), Handed(d.sdh), Sent(d, -1))
    BY <1>5, <1>8, <1>9, <2>1, NothingSent, ThreadsAre
  <2>3. Stream(a.eff.calls["processors"], Deliveries("frame"), Handed(c.sdh), Handed(a.sdh), Sent(a, -1))
    BY <1>8, <2>2 DEF SourcePasses
  <2> QED BY <2>3 DEF Sent
<1> QED BY <1>1, <1>4, <1>8, <1>10, <1>11, <1>12 DEF ImagesIn, r, g

(* The flush frame comes behind the last image.                            *)
LEMMA SourceFlushIn ==
    ASSUME NEW v \in Videos, NEW c \in SourceContext(v, BOOLEAN, TRUE), SourceFlow(v, c), c.exists,
           NEW a, ImagesIn(v, c, a), a.eofReached, End(c) = -1
    PROVE  SourceDone(v, c, Source!AddAll([a EXCEPT !.processed = a.processed + 1], {Source!FlushFrame(a.processed)}))
<1> DEFINE d == [a EXCEPT !.processed = a.processed + 1]
           z == a.processed
           E == {Source!FlushFrame(z)}
           f == Source!AddAll(d, E)
<1>0. a \in SourceContext(v, BOOLEAN, TRUE) /\ z \in Nat
  BY DEF ImagesIn, SourceContext
<1>1. E \subseteq Passing(z) /\ IsFiniteSet(E) /\ NumbersOf(E) = {z}
  <2>1. Source!FlushFrame(z) \in FrameType
    BY <1>0, FramesTyped
  <2>2. Source!FlushFrame(z).number = z /\ Source!FlushFrame(z).image = <<>>
    BY DEF Source!FlushFrame, Source!Frame
  <2>3. IsFiniteSet(E)
    BY FS_Singleton
  <2>4. NumbersOf(E) = {z}
    BY <2>2 DEF NumbersOf
  <2> QED BY <2>1, <2>2, <2>3, <2>4 DEF Passing
<1>2. \A x, y \in E : x.number = y.number => x = y
  OBVIOUS
<1>3. /\ d \in SourceContext(v, BOOLEAN, TRUE) /\ d.processed = z + 1 /\ d.loaded = a.loaded /\ d.exists = a.exists
      /\ d.sdh = a.sdh /\ d.eff = a.eff /\ ~d.eofFlushed /\ d.eofReached
  <2>1. z + 1 \in Nat /\ ~a.eofFlushed
    BY <1>0 DEF ImagesIn
  <2>2. d \in SourceContext(v, BOOLEAN, TRUE)
    BY <1>0, <2>1 DEF SourceContext
  <2>3. /\ d.processed = z + 1 /\ d.loaded = a.loaded /\ d.exists = a.exists
        /\ d.sdh = a.sdh /\ d.eff = a.eff /\ d.eofFlushed = a.eofFlushed /\ d.eofReached = a.eofReached
    BY <1>0 DEF SourceContext
  <2> QED BY <2>1, <2>2, <2>3
<1>4. Orderly(d.sdh, Passing(z)) /\ Seen(d.sdh) = 0 .. z - 1
  BY <1>3, FrameSets, OrderlyWider DEF ImagesIn, Settled
<1> HIDE DEF d, E, z
<1>5. NumbersOf(E) \intersect Seen(d.sdh) = {}
  BY <1>0, <1>1, <1>4
<1>6. PICK k : /\ SourcePasses(v, k, f, z) /\ Settled(f.sdh, Passing(z))
               /\ k = [d EXCEPT !.sdh = k.sdh]
               /\ Seen(k.sdh) = Seen(d.sdh) \union NumbersOf(E) /\ Handed(k.sdh) = Handed(d.sdh)
  BY <1>0, <1>1, <1>2, <1>3, <1>4, <1>5, SourceAddPasses
<1> HIDE DEF f
<1>7. /\ k.processed = d.processed /\ k.loaded = d.loaded /\ k.exists = d.exists
      /\ k.eofFlushed = d.eofFlushed /\ k.eofReached = d.eofReached /\ k.eff = d.eff
  BY <1>3, <1>6 DEF SourceContext
<1>8. /\ f \in SourceContext(v, BOOLEAN, TRUE)
      /\ f.processed = z + 1 /\ f.loaded = a.loaded /\ f.exists = a.exists /\ f.eofReached
      /\ Seen(f.sdh) = Seen(k.sdh)
  BY <1>3, <1>6, <1>7 DEF SourcePasses
<1>9. FlushPlace(f) = z
  BY <1>0, <1>8 DEF FlushPlace
<1>10. SourceFlow(v, f)
  <2>1. Seen(f.sdh) = 0 .. f.processed - 1
    BY <1>0, <1>1, <1>4, <1>6, <1>8
  <2>2. f.processed <= v.decoded[f.loaded] + 1
    <3>1. v.decoded[a.loaded] \in Nat
      BY <1>0, FileToFileAssumption DEF SourceContext
    <3> QED BY <1>0, <1>8, <3>1 DEF ImagesIn, z
  <2>3. f.exists
    BY <1>8 DEF ImagesIn
  <2> QED BY <1>6, <1>8, <1>9, <2>1, <2>2, <2>3 DEF SourceFlow
<1>11. Stream(f.eff.calls["processors"], Deliveries("frame"), Handed(c.sdh), Handed(f.sdh), Passing(End(f)))
  <2>1. Stream(k.eff.calls["processors"], Deliveries("frame"), Handed(c.sdh), Handed(k.sdh), Sent(k, z))
    BY <1>3, <1>6, <1>7 DEF ImagesIn, Sent
  <2>2. Stream(f.eff.calls["processors"], Deliveries("frame"), Handed(c.sdh), Handed(f.sdh), Sent(f, z))
    BY <1>6, <2>1 DEF SourcePasses
  <2>3. Sent(f, z) = Passing(End(f))
    BY <1>8, <1>9, <1>10, FlushPlaceTyped
  <2> QED BY <2>2, <2>3
<1> QED BY <1>8, <1>10, <1>11 DEF SourceDone, f, d, E, z

(* start, whichever way it ends.                                           *)
LEMMA SourceStartDone ==
    ASSUME NEW v \in Videos, NEW c \in SourceContext(v, BOOLEAN, TRUE), SourceFlow(v, c), c.eff = NoEffects
    PROVE  SourceDone(v, c, Source!Start(c, v))
<1>1. SourceDone(v, c, c) /\ SourceDone(v, c, Source!Report(c, "crashed"))
  BY SourceStays, SourceReportsDone DEF SourceLike
<1>2. CASE c.eofReached \/ ~c.exists
  BY <1>1, <1>2, SourceStartIs
<1>3. CASE ~c.eofReached /\ c.exists
  <2>1. SourceDone(v, c, Read(c, v)) /\ Read(c, v) \in SourceContext(v, BOOLEAN, TRUE)
    BY <1>3, SourceReadDone, SourceReadIs
  <2>2. SourceDone(v, c, Source!Report(Read(c, v), "failed"))
    BY <2>1, SourceReportsDone
  <2> DEFINE a == Added(c, v)
  <2>3. ImagesIn(v, c, a) /\ End(c) = -1 /\ a \in SourceContext(v, BOOLEAN, TRUE) /\ ~a.eofFlushed
    BY <1>3, SourceImagesIn, SourceReadIs DEF ImagesIn
  <2>4. Source!Start(c, v) = c \/ Source!Start(c, v) = Source!Report(c, "crashed")
        \/ Source!Start(c, v) = Source!Report(Read(c, v), "failed")
        \/ Source!Start(c, v) = Read(c, v)
        \/ (a.eofReached /\ Source!Start(c, v) = Source!AddAll([a EXCEPT !.processed = a.processed + 1], {Source!FlushFrame(a.processed)}))
        \/ (~a.eofReached /\ Source!Start(c, v) = a)
    BY <2>3, SourceStartIs DEF Ended, ImagesIn
  <2> HIDE DEF a
  <2>5. CASE a.eofReached
    <3>1. SourceDone(v, c, Source!AddAll([a EXCEPT !.processed = a.processed + 1], {Source!FlushFrame(a.processed)}))
      BY <1>3, <2>3, <2>5, SourceFlushIn
    <3> QED BY <1>1, <2>1, <2>2, <2>4, <2>5, <3>1
  <2>6. CASE ~a.eofReached
    <3>0. FlushPlace(a) = -1 /\ End(a) = -1 /\ v.decoded[a.loaded] \in Nat
      BY <2>3, <2>6, FileToFileAssumption DEF FlushPlace, End, SourceContext
    <3>1. SourceFlow(v, a)
      BY <1>3, <2>3, <2>6, <3>0 DEF ImagesIn, SourceFlow
    <3>2. SourceDone(v, c, a)
      BY <2>3, <3>0, <3>1 DEF ImagesIn, SourceDone
    <3> QED BY <1>1, <2>1, <2>2, <2>4, <2>6, <3>2
  <2> QED BY <2>5, <2>6
<1> QED BY <1>2, <1>3
-----------------------------------------------------------------------------
(* Part 5: the steps of the system.                                        *)

(* The queues after a job of stage s, which ended with the context f.      *)
LEMMA HandledQueues ==
    ASSUME TypeInv, NEW s \in Stage, NEW op, Calls(s, op), NEW f, Handled(s, f), f.eff.calls \in Queues(AllCalls),
           NEW t \in Thread
    PROVE  /\ Dequeued(s)[t] \in Seq(CallType) /\ f.eff.calls[t] \in Seq(CallType)
           /\ queue'[t] = Dequeued(s)[t] \o f.eff.calls[t]
           /\ \A M : (t = ThreadOf(s) => Job(s) \notin M) => Same(queue[t], Dequeued(s)[t], M)
           /\ t = ThreadOf(s) => /\ queue[t] \in Seq(CallType) /\ queue[t] # <<>>
                                 /\ Job(s) = Head(queue[t]) /\ Dequeued(s)[t] = Tail(queue[t])
<1>1. /\ Dequeued(s) \in Queues(AllCalls) /\ queue \in Queues(AllCalls)
      /\ s \in Callee /\ ThreadOf(s) \in Thread
  BY JobTyped DEF TypeInv, Callee, Stage, ThreadOf, Thread
<1>2. Dequeued(s)[t] \in Seq(CallType) /\ f.eff.calls[t] \in Seq(CallType) /\ queue[t] \in Seq(CallType)
      /\ queue \in [Thread -> Seq(CallType)]
  BY <1>1 DEF Queues
<1>3. queue' = Post(Dequeued(s), f.eff.calls)
  BY DEF Handled, Effects
<1>4. queue'[t] = Dequeued(s)[t] \o f.eff.calls[t]
  BY <1>3 DEF Post
<1>5. /\ Dequeued(s) = [queue EXCEPT ![ThreadOf(s)] = Tail(@)]
      /\ queue[ThreadOf(s)] # <<>> /\ Job(s) = Head(queue[ThreadOf(s)])
  BY DEF Calls, Job, Dequeued
<1>6. CASE t # ThreadOf(s)
  <2>1. Dequeued(s)[t] = queue[t]
    BY <1>2, <1>5, <1>6
  <2>2. \A M : Same(queue[t], queue[t], M)
    BY DEF Same
  <2> QED BY <1>2, <1>4, <1>6, <2>1, <2>2
<1>7. CASE t = ThreadOf(s)
  <2>1. Dequeued(s)[t] = Tail(queue[t]) /\ queue[t] # <<>> /\ Job(s) = Head(queue[t])
    BY <1>2, <1>5, <1>7
  <2>2. \A M : Job(s) \notin M => Same(queue[t], Tail(queue[t]), M)
    BY <1>2, <2>1, SameTail
  <2> QED BY <1>2, <1>4, <1>7, <2>1, <2>2
<1> QED BY <1>6, <1>7

(* Frames and results in a queue to which the job adds none.               *)
LEMMA HandledSame ==
    ASSUME TypeInv, NEW s \in Stage, NEW op, Calls(s, op), NEW f, Handled(s, f), f.eff.calls \in Queues(AllCalls),
           NEW t \in Thread, NEW M, t = ThreadOf(s) => Job(s) \notin M,
           \A i \in DOMAIN f.eff.calls[t] : f.eff.calls[t][i] \notin M
    PROVE  Same(queue[t], queue'[t], M)
<1>1. /\ Dequeued(s)[t] \in Seq(CallType) /\ f.eff.calls[t] \in Seq(CallType)
      /\ queue'[t] = Dequeued(s)[t] \o f.eff.calls[t]
      /\ Same(queue[t], Dequeued(s)[t], M)
  BY HandledQueues
<1>2. Same(Dequeued(s)[t], Dequeued(s)[t] \o f.eff.calls[t], M)
  BY <1>1, SameBehind
<1> QED BY <1>1, <1>2, SameStream

(* The rest of the state after it.                                         *)
LEMMA HandledIs ==
    ASSUME TypeInv, NEW s \in Stage, NEW f, Handled(s, f)
    PROVE  /\ video' = video
           /\ context'[s] = [f EXCEPT !.eff = NoEffects]
           /\ \A r \in Stage : r # s => context'[r] = context[r]
           /\ images'.evaluating = images.evaluating \union f.eff.jobs
           /\ \A L, r : (\A j \in f.eff.jobs : j.stage # r) => Pending(L, r)' = Pending(L, r)
           /\ \A L : (\A j \in f.eff.jobs : j.stage = s) => Pending(L, s)' = Pending(L, s) \union f.eff.jobs
<1>1. context \in Contexts(video) /\ images \in ImagesType
  BY DEF TypeInv
<1>2. DOMAIN context = Stage
  BY <1>1 DEF Contexts, Stage
<1>3. context' = [context EXCEPT ![s] = [f EXCEPT !.eff = NoEffects]] /\ video' = video
  BY DEF Handled, Effects
<1>4. images'.evaluating = images.evaluating \union f.eff.jobs
  BY <1>1 DEF Handled, ImagesType
<1>5. context'[s] = [f EXCEPT !.eff = NoEffects] /\ \A r \in Stage : r # s => context'[r] = context[r]
  BY <1>2, <1>3
<1>6. \A L, r : Pending(L, r)' = {j \in images.evaluating \union f.eff.jobs : j.stage = r} \union {j \in L : j.stage = r}
  BY <1>4 DEF Evaluating, Pending
<1>7. \A L, r : Pending(L, r) = {j \in images.evaluating : j.stage = r} \union {j \in L : j.stage = r}
  BY DEF Evaluating, Pending
<1> QED BY <1>3, <1>4, <1>5, <1>6, <1>7
-----------------------------------------------------------------------------
(* Which calls a stage does not make.                                      *)
LEMMA QuietCalls ==
    ASSUME NEW s
    PROVE  /\ \A m \in SourceCalls(TRUE) : m \notin Returns(s) /\ (s # "frame" => m \notin Deliveries(s))
           /\ \A m \in FrameCalls(TRUE) : m \notin Returns(s) /\ (s # "interframe" => m \notin Deliveries(s))
           /\ \A m \in InterCalls(TRUE) : m \notin Returns(s) /\ (s # "sink" => m \notin Deliveries(s))
           /\ \A m \in SinkCalls : m \notin Returns(s) /\ m \notin Deliveries(s)
<1>1. \A m \in SourceCalls(TRUE) : m \notin Returns(s) /\ (s # "frame" => m \notin Deliveries(s))
  BY DEF SourceCalls, Returns, Deliveries, AllCalls, Made
<1>2. \A m \in FrameCalls(TRUE) : m \notin Returns(s) /\ (s # "interframe" => m \notin Deliveries(s))
  BY DEF FrameCalls, Returns, Deliveries, AllCalls, Made
<1>3. \A m \in InterCalls(TRUE) : m \notin Returns(s) /\ (s # "sink" => m \notin Deliveries(s))
  BY DEF InterCalls, Returns, Deliveries, AllCalls, Made
<1>4. \A m \in SinkCalls : m \notin Returns(s) /\ m \notin Deliveries(s)
  BY DEF SinkCalls, Returns, Deliveries, AllCalls, Made
<1> QED BY <1>1, <1>2, <1>3, <1>4

(* The calls of a stage, thread by thread.                                 *)
LEMMA CallsOfStage ==
    ASSUME NEW M \in SUBSET AllCalls, NEW J, NEW e \in Effect(M, J)
    PROVE  /\ e.calls \in Queues(AllCalls)
           /\ \A t \in Thread : \A i \in DOMAIN e.calls[t] : e.calls[t][i] \in M
<1>1. e.calls \in Queues(M)
  BY DEF Effect
<1>2. e.calls \in Queues(AllCalls)
  BY EffectsWider, CallsTyped DEF Effect
<1> QED BY <1>1, <1>2, QueueCalls

(* What stage s gets from a job that changed the context from c to f: the   *)
(* frames that were handed on.                                             *)
HandsOn(c, f, e, s) ==
    /\ Handed(f.sdh) \in Nat
    /\ Carried(e, Deliveries(s)) = Handed(c.sdh) .. Handed(f.sdh) - 1

(* What the flow says of a stage does not depend on what it sent.          *)
Forgets(f) == [f EXCEPT !.eff = NoEffects]

SourceLeft(v, f, e) == e.sdh = f.sdh /\ End(e) = End(f) /\ (SourceFlow(v, f) => SourceFlow(v, e))

FrameLeft(f, e) == e.sdh = f.sdh /\ e.framesId = f.framesId

InterLeft(f, e) ==
    /\ e.sdh = f.sdh /\ e.buffer = f.buffer /\ e.nextFrame = f.nextFrame /\ e.created = f.created
    /\ e.framesId = f.framesId

LEMMA Forgetting ==
    /\ \A v : \A f \in SourceContext(v, BOOLEAN, TRUE) : SourceLeft(v, f, Forgets(f))
    /\ \A f \in FrameContext(BOOLEAN, TRUE) : FrameLeft(f, Forgets(f))
    /\ \A f \in InterContext(BOOLEAN, TRUE) : InterLeft(f, Forgets(f))
    /\ \A f \in SinkContext(BOOLEAN) : Forgets(f).sdh = f.sdh
<1>1. ASSUME NEW v, NEW f \in SourceContext(v, BOOLEAN, TRUE)
      PROVE  SourceLeft(v, f, Forgets(f))
  <2> DEFINE e == Forgets(f)
  <2>1. /\ e.exists = f.exists /\ e.sdh = f.sdh /\ e.loaded = f.loaded /\ e.processed = f.processed
        /\ e.eofReached = f.eofReached /\ e.eofFlushed = f.eofFlushed
    BY DEF SourceContext, Forgets
  <2> HIDE DEF e
  <2>2. FlushPlace(e) = FlushPlace(f) /\ End(e) = End(f)
    BY <2>1 DEF FlushPlace, End
  <2> QED BY <2>1, <2>2 DEF SourceFlow, SourceLeft, e
<1>2. ASSUME NEW f \in FrameContext(BOOLEAN, TRUE) PROVE FrameLeft(f, Forgets(f))
  BY DEF FrameContext, FrameLeft, Forgets
<1>3. ASSUME NEW f \in InterContext(BOOLEAN, TRUE) PROVE InterLeft(f, Forgets(f))
  BY DEF InterContext, InterLeft, Forgets
<1>4. ASSUME NEW f \in SinkContext(BOOLEAN) PROVE Forgets(f).sdh = f.sdh
  BY DEF SinkContext, Forgets
<1> QED BY <1>1, <1>2, <1>3, <1>4

(* The invariant, part by part.                                            *)
FramePart(q, C, J) == FrameFlow(q["processors"], Handed(C.source.sdh), J, C.frame.sdh, End(C.source))
InterPart(q, C, J) == InterFlow(q["processors"], Handed(C.frame.sdh), J, C.interframe, End(C.source))
SinkPart(q, C)     == SinkFlow(q["sink"], Handed(C.interframe.sdh), C.sink.sdh, End(C.source))

LEMMA FlowParts ==
  \A L :
    FlowWith(L) <=> /\ SourceFlow(video, context.source)
                /\ FramePart(queue, context, Pending(L, "frame"))
                /\ InterPart(queue, context, Pending(L, "interframe"))
                /\ SinkPart(queue, context)
BY DEF FlowWith, FramePart, InterPart, SinkPart

LEMMA FlowPartsNext ==
  \A L :
    FlowWith(L)' <=> /\ SourceFlow(video', context'.source)
                 /\ FramePart(queue', context', Pending(L, "frame")')
                 /\ InterPart(queue', context', Pending(L, "interframe")')
                 /\ SinkPart(queue', context')
BY DEF FlowWith, FramePart, InterPart, SinkPart
-----------------------------------------------------------------------------
(* A job of the source.                                                    *)
LEMMA SourceFlows ==
    ASSUME NEW L, TypeInv, FlowWith(L), NEW op, Calls("source", op), NEW f, Handled("source", f),
           SourceDone(video, context.source, f)
    PROVE  FlowWith(L)'
<1> DEFINE c == context.source
           d == context'.source
           p == f.eff.calls["processors"]
           r == Dequeued("source")["processors"]
<1>1. /\ f \in SourceContext(video, BOOLEAN, TRUE) /\ SourceFlow(video, f)
      /\ End(f) = End(c) \/ End(c) = -1
      /\ Stream(p, Deliveries("frame"), Handed(c.sdh), Handed(f.sdh), Passing(End(f)))
  BY DEF SourceDone
<1>2. f.eff \in Effect(SourceCalls(TRUE), {}) /\ f.eff.jobs = {}
  BY <1>1 DEF SourceContext, Effect
<1>3. /\ f.eff.calls \in Queues(AllCalls)
      /\ \A t \in Thread : \A i \in DOMAIN f.eff.calls[t] : f.eff.calls[t][i] \in SourceCalls(TRUE)
  BY <1>2, CallsOfStage, CallsTyped
<1>4. /\ d = Forgets(f) /\ video' = video
      /\ context'.frame = context.frame /\ context'.interframe = context.interframe /\ context'.sink = context.sink
      /\ \A s : Pending(L, s)' = Pending(L, s)
  BY <1>2, HandledIs DEF Stage, Forgets
<1>5. d.sdh = f.sdh /\ End(d) = End(f) /\ SourceFlow(video, d)
  BY <1>1, <1>4, Forgetting DEF SourceLeft
<1>6. "source" \in Stage /\ ThreadOf("source") # "processors" /\ ThreadOf("source") # "sink"
  BY ThreadsAre DEF Stage
<1> HIDE DEF d
<1>7. /\ r \in Seq(CallType) /\ p \in Seq(CallType) /\ queue'["processors"] = r \o p
      /\ \A M : Same(queue["processors"], r, M)
  BY <1>3, <1>6, ThreadsAre, HandledQueues
<1>8. \A t \in {"processors", "sink"} : \A M : (\A m \in SourceCalls(TRUE) : m \notin M) => Same(queue[t], queue'[t], M)
  BY <1>3, <1>6, ThreadsAre, HandledSame
<1> HIDE DEF r, p, c
<1>9. FramePart(queue', context', Pending(L, "frame")')
  <2>1. FrameFlow(queue["processors"], Handed(c.sdh), Pending(L, "frame"), context.frame.sdh, End(f))
    BY <1>1, FlowsWider, FlowParts DEF FramePart, c
  <2>2. FrameFlow(r, Handed(c.sdh), Pending(L, "frame"), context.frame.sdh, End(f))
    BY <1>7, <2>1, FlowsKept
  <2>3. \A i \in DOMAIN p : p[i] \notin Returns("frame")
    BY <1>3, QuietCalls, ThreadsAre DEF p
  <2>4. FrameFlow(r \o p, Handed(f.sdh), Pending(L, "frame"), context.frame.sdh, End(f))
    BY <1>1, <1>7, <2>2, <2>3, FlowsFed
  <2> QED BY <1>4, <1>5, <1>7, <2>4 DEF FramePart, d
<1>10. InterPart(queue', context', Pending(L, "interframe")')
  <2>1. InterFlow(queue["processors"], Handed(context.frame.sdh), Pending(L, "interframe"), context.interframe, End(f))
    BY <1>1, FlowsWider, FlowParts DEF InterPart, c
  <2>2. /\ Same(queue["processors"], queue'["processors"], Deliveries("interframe"))
        /\ Same(queue["processors"], queue'["processors"], Returns("interframe"))
    BY <1>8, QuietCalls
  <2>3. InterFlow(queue'["processors"], Handed(context.frame.sdh), Pending(L, "interframe"), context.interframe, End(f))
    BY <2>1, <2>2, FlowsKept
  <2> QED BY <1>4, <1>5, <2>3 DEF InterPart, d
<1>11. SinkPart(queue', context')
  <2>1. SinkFlow(queue["sink"], Handed(context.interframe.sdh), context.sink.sdh, End(f))
    BY <1>1, FlowsWider, FlowParts DEF SinkPart, c
  <2>2. Same(queue["sink"], queue'["sink"], Deliveries("sink"))
    BY <1>8, QuietCalls
  <2>3. SinkFlow(queue'["sink"], Handed(context.interframe.sdh), context.sink.sdh, End(f))
    BY <2>1, <2>2, FlowsKept
  <2> QED BY <1>4, <1>5, <2>3 DEF SinkPart, d
<1> QED BY <1>4, <1>5, <1>9, <1>10, <1>11, FlowPartsNext DEF d
-----------------------------------------------------------------------------
(* The flush frame does not move unless the source does.                   *)
LEMMA JobOfStage ==
    ASSUME TypeInv, NEW s \in Stage, NEW op, Calls(s, op)
    PROVE  /\ Job(s) \in AllCalls /\ Job(s).callee = s /\ Job(s).op = op
           /\ Made(s, op, Job(s).amount, Job(s).load)
           /\ Job(s).amount \in Nat /\ Job(s).load \in Seq(FrameType)
           /\ \A r : r # s => Job(s) \notin Deliveries(r) /\ Job(s) \notin Returns(r)
           /\ op # "process" => \A r : Job(s) \notin Deliveries(r)
           /\ op # "evaluated" => \A r : Job(s) \notin Returns(r)
           /\ op = "process" => Job(s) \in Deliveries(s)
           /\ op = "evaluated" => Job(s) \in Returns(s)
<1>1. /\ Job(s) \in AllCalls /\ Job(s).callee = s /\ Job(s).op = op
      /\ Made(s, op, Job(s).amount, Job(s).load)
      /\ Job(s).amount \in Nat /\ Job(s).load \in Seq(FrameType)
  BY JobTyped DEF TypeInv, Callee
<1> QED BY <1>1 DEF Deliveries, Returns

(* A job of the frame stage.                                               *)
LEMMA FrameFlows ==
    ASSUME NEW L, TypeInv, FlowWith(L), NEW op, Calls("frame", op), NEW f \in FrameContext(BOOLEAN, TRUE), Handled("frame", f),
           \A j \in f.eff.jobs : j.stage = "frame",
           FrameFlow(Dequeued("frame")["processors"], Handed(context.source.sdh),
                     Pending(L, "frame") \union f.eff.jobs, f.sdh, End(context.source)),
           Stream(f.eff.calls["processors"], Deliveries("interframe"), Handed(context.frame.sdh), Handed(f.sdh),
                  Passing(End(context.source)))
    PROVE  FlowWith(L)'
<1> DEFINE d == context'.frame
           p == f.eff.calls["processors"]
           r == Dequeued("frame")["processors"]
           z == End(context.source)
           J == Pending(L, "frame") \union f.eff.jobs
<1>2. f.eff \in Effect(FrameCalls(TRUE), Jobs("frame"))
  BY DEF FrameContext
<1>3. /\ f.eff.calls \in Queues(AllCalls)
      /\ \A t \in Thread : \A i \in DOMAIN f.eff.calls[t] : f.eff.calls[t][i] \in FrameCalls(TRUE)
  BY <1>2, CallsOfStage, CallsTyped
<1>4. /\ d = Forgets(f) /\ video' = video
      /\ context'.source = context.source /\ context'.interframe = context.interframe /\ context'.sink = context.sink
      /\ Pending(L, "frame")' = J /\ Pending(L, "interframe")' = Pending(L, "interframe")
  BY HandledIs DEF Stage, Forgets
<1>5. d.sdh = f.sdh
  BY <1>4, Forgetting DEF FrameLeft
<1>6. "frame" \in Stage /\ ThreadOf("frame") = "processors"
  BY ThreadsAre DEF Stage
<1> HIDE DEF d, J
<1>7. /\ r \in Seq(CallType) /\ p \in Seq(CallType) /\ queue'["processors"] = r \o p
      /\ \A M : Job("frame") \notin M => Same(queue["processors"], r, M)
  BY <1>3, <1>6, ThreadsAre, HandledQueues
<1>8. \A M : (\A m \in FrameCalls(TRUE) : m \notin M) => Same(queue["sink"], queue'["sink"], M)
  BY <1>3, <1>6, ThreadsAre, HandledSame
<1>9. \A i \in DOMAIN p : p[i] \in FrameCalls(TRUE)
  BY <1>3, ThreadsAre
<1> HIDE DEF r, p
<1>10. FramePart(queue', context', Pending(L, "frame")')
  <2>1. FrameFlow(r, Handed(context.source.sdh), J, f.sdh, z)
    BY DEF r, J
  <2>2. \A i \in DOMAIN p : p[i] \notin Deliveries("frame") /\ p[i] \notin Returns("frame")
    BY <1>9, QuietCalls
  <2>3. Same(r, r \o p, Deliveries("frame")) /\ Same(r, r \o p, Returns("frame"))
    BY <1>7, <2>2, SameBehind
  <2>4. FrameFlow(r \o p, Handed(context.source.sdh), J, f.sdh, z)
    BY <2>1, <2>3, FlowsKept
  <2> QED BY <1>4, <1>5, <1>7, <2>4 DEF FramePart, d
<1>11. InterPart(queue', context', Pending(L, "interframe")')
  <2>1. InterFlow(queue["processors"], Handed(context.frame.sdh), Pending(L, "interframe"), context.interframe, z)
    BY FlowParts DEF InterPart
  <2>2. Job("frame") \notin Deliveries("interframe") /\ Job("frame") \notin Returns("interframe")
    BY <1>6, JobOfStage
  <2>3. InterFlow(r, Handed(context.frame.sdh), Pending(L, "interframe"), context.interframe, z)
    BY <1>7, <2>1, <2>2, FlowsKept
  <2>4. \A i \in DOMAIN p : p[i] \notin Returns("interframe")
    BY <1>9, QuietCalls
  <2>5. Stream(p, Deliveries("interframe"), Handed(context.frame.sdh), Handed(f.sdh), Passing(z))
    BY DEF p
  <2>6. InterFlow(r \o p, Handed(f.sdh), Pending(L, "interframe"), context.interframe, z)
    BY <1>7, <2>3, <2>4, <2>5, FlowsFed
  <2> QED BY <1>4, <1>5, <1>7, <2>6 DEF InterPart, d
<1>12. SinkPart(queue', context')
  <2>1. SinkFlow(queue["sink"], Handed(context.interframe.sdh), context.sink.sdh, z)
    BY FlowParts DEF SinkPart
  <2>2. Same(queue["sink"], queue'["sink"], Deliveries("sink"))
    BY <1>8, QuietCalls
  <2>3. SinkFlow(queue'["sink"], Handed(context.interframe.sdh), context.sink.sdh, z)
    BY <2>1, <2>2, FlowsKept
  <2> QED BY <1>4, <2>3 DEF SinkPart
<1>13. SourceFlow(video, context.source)
  BY FlowParts
<1> QED BY <1>4, <1>10, <1>11, <1>12, <1>13, FlowPartsNext

(* A job of the inter-frame stage.                                         *)
LEMMA InterFlows ==
    ASSUME NEW L, TypeInv, FlowWith(L), NEW op, Calls("interframe", op), NEW f \in InterContext(BOOLEAN, TRUE), Handled("interframe", f),
           \A j \in f.eff.jobs : j.stage = "interframe",
           InterFlow(Dequeued("interframe")["processors"], Handed(context.frame.sdh),
                     Pending(L, "interframe") \union f.eff.jobs, f, End(context.source)),
           Stream(f.eff.calls["sink"], Deliveries("sink"), Handed(context.interframe.sdh), Handed(f.sdh),
                  Pairs(End(context.source)))
    PROVE  FlowWith(L)'
<1> DEFINE d == context'.interframe
           p == f.eff.calls["processors"]
           o == f.eff.calls["sink"]
           r == Dequeued("interframe")["processors"]
           u == Dequeued("interframe")["sink"]
           z == End(context.source)
           J == Pending(L, "interframe") \union f.eff.jobs
<1>2. f.eff \in Effect(InterCalls(TRUE), Jobs("interframe"))
  BY DEF InterContext
<1>3. /\ f.eff.calls \in Queues(AllCalls)
      /\ \A t \in Thread : \A i \in DOMAIN f.eff.calls[t] : f.eff.calls[t][i] \in InterCalls(TRUE)
  BY <1>2, CallsOfStage, CallsTyped
<1>4. /\ d = Forgets(f) /\ video' = video
      /\ context'.source = context.source /\ context'.frame = context.frame /\ context'.sink = context.sink
      /\ Pending(L, "interframe")' = J /\ Pending(L, "frame")' = Pending(L, "frame")
  BY HandledIs DEF Stage, Forgets
<1>5. InterLeft(f, d)
  BY <1>4, Forgetting
<1>6. "interframe" \in Stage /\ ThreadOf("interframe") = "processors" /\ "processors" # "sink"
  BY ThreadsAre DEF Stage
<1> HIDE DEF d, J
<1>7. /\ r \in Seq(CallType) /\ p \in Seq(CallType) /\ queue'["processors"] = r \o p
      /\ \A M : Job("interframe") \notin M => Same(queue["processors"], r, M)
  BY <1>3, <1>6, ThreadsAre, HandledQueues
<1>8. /\ u \in Seq(CallType) /\ o \in Seq(CallType) /\ queue'["sink"] = u \o o
      /\ \A M : Same(queue["sink"], u, M)
  BY <1>3, <1>6, ThreadsAre, HandledQueues
<1>9. \A i \in DOMAIN p : p[i] \in InterCalls(TRUE)
  BY <1>3, ThreadsAre
<1> HIDE DEF r, p, u, o
<1>10. FramePart(queue', context', Pending(L, "frame")')
  <2>1. FrameFlow(queue["processors"], Handed(context.source.sdh), Pending(L, "frame"), context.frame.sdh, z)
    BY FlowParts DEF FramePart
  <2>2. Job("interframe") \notin Deliveries("frame") /\ Job("interframe") \notin Returns("frame")
    BY <1>6, JobOfStage
  <2>7. Same(queue["processors"], r, Deliveries("frame")) /\ Same(queue["processors"], r, Returns("frame"))
    BY <1>7, <2>2
  <2>3. FrameFlow(r, Handed(context.source.sdh), Pending(L, "frame"), context.frame.sdh, z)
    BY <2>1, <2>7, FlowsKept
  <2>4. \A i \in DOMAIN p : p[i] \notin Deliveries("frame") /\ p[i] \notin Returns("frame")
    BY <1>9, QuietCalls
  <2>5. Same(r, r \o p, Deliveries("frame")) /\ Same(r, r \o p, Returns("frame"))
    BY <1>7, <2>4, SameBehind
  <2>6. FrameFlow(r \o p, Handed(context.source.sdh), Pending(L, "frame"), context.frame.sdh, z)
    BY <2>3, <2>5, FlowsKept
  <2> QED BY <1>4, <1>7, <2>6 DEF FramePart
<1>11. InterPart(queue', context', Pending(L, "interframe")')
  <2>1. InterFlow(r, Handed(context.frame.sdh), J, f, z)
    BY DEF r, J
  <2>2. \A i \in DOMAIN p : p[i] \notin Deliveries("interframe") /\ p[i] \notin Returns("interframe")
    BY <1>9, QuietCalls
  <2>3. Same(r, r \o p, Deliveries("interframe")) /\ Same(r, r \o p, Returns("interframe"))
    BY <1>7, <2>2, SameBehind
  <2>4. InterFlow(r \o p, Handed(context.frame.sdh), J, f, z)
    BY <2>1, <2>3, FlowsKept
  <2>5. InterFlow(r \o p, Handed(context.frame.sdh), J, d, z)
    BY <1>5, <2>4 DEF InterLeft, InterFlow, Buffered
  <2> QED BY <1>4, <1>7, <2>5 DEF InterPart, d
<1>12. SinkPart(queue', context')
  <2>1. SinkFlow(queue["sink"], Handed(context.interframe.sdh), context.sink.sdh, z)
    BY FlowParts DEF SinkPart
  <2>2. SinkFlow(u, Handed(context.interframe.sdh), context.sink.sdh, z)
    BY <1>8, <2>1, FlowsKept, ZenonT(40)
  <2>3. Stream(o, Deliveries("sink"), Handed(context.interframe.sdh), Handed(f.sdh), Pairs(z))
    BY DEF o
  <2>4. SinkFlow(u \o o, Handed(f.sdh), context.sink.sdh, z)
    BY <1>8, <2>2, <2>3, FlowsFed
  <2> QED BY <1>4, <1>5, <1>8, <2>4 DEF SinkPart, InterLeft, d
<1>13. SourceFlow(video, context.source)
  BY FlowParts
<1> QED BY <1>4, <1>10, <1>11, <1>12, <1>13, FlowPartsNext

(* A job of the sink.                                                      *)
LEMMA SinkFlows ==
    ASSUME NEW L, TypeInv, FlowWith(L), NEW op, Calls("sink", op), NEW f \in SinkContext(BOOLEAN), Handled("sink", f),
           SinkFlow(Dequeued("sink")["sink"], Handed(context.interframe.sdh), f.sdh, End(context.source))
    PROVE  FlowWith(L)'
<1> DEFINE d == context'.sink
           o == f.eff.calls["sink"]
           u == Dequeued("sink")["sink"]
           z == End(context.source)
<1>2. f.eff \in Effect(SinkCalls, {}) /\ f.eff.jobs = {}
  BY DEF SinkContext, Effect
<1>3. /\ f.eff.calls \in Queues(AllCalls)
      /\ \A t \in Thread : \A i \in DOMAIN f.eff.calls[t] : f.eff.calls[t][i] \in SinkCalls
  BY <1>2, CallsOfStage, CallsTyped
<1>4. /\ d = Forgets(f) /\ video' = video
      /\ context'.source = context.source /\ context'.frame = context.frame /\ context'.interframe = context.interframe
      /\ \A s : Pending(L, s)' = Pending(L, s)
  BY <1>2, HandledIs DEF Stage, Forgets
<1>5. d.sdh = f.sdh
  BY <1>4, Forgetting
<1>6. "sink" \in Stage /\ ThreadOf("sink") = "sink" /\ "processors" # "sink"
  BY ThreadsAre DEF Stage
<1> HIDE DEF d
<1>7. \A M : (\A m \in SinkCalls : m \notin M) => Same(queue["processors"], queue'["processors"], M)
  BY <1>3, <1>6, ThreadsAre, HandledSame
<1>8. u \in Seq(CallType) /\ o \in Seq(CallType) /\ queue'["sink"] = u \o o
  BY <1>3, <1>6, ThreadsAre, HandledQueues
<1>9. \A i \in DOMAIN o : o[i] \in SinkCalls
  BY <1>3, ThreadsAre
<1> HIDE DEF u, o
<1>10. FramePart(queue', context', Pending(L, "frame")')
  <2>1. FrameFlow(queue["processors"], Handed(context.source.sdh), Pending(L, "frame"), context.frame.sdh, z)
    BY FlowParts DEF FramePart
  <2>2. /\ Same(queue["processors"], queue'["processors"], Deliveries("frame"))
        /\ Same(queue["processors"], queue'["processors"], Returns("frame"))
    BY <1>7, QuietCalls
  <2>3. FrameFlow(queue'["processors"], Handed(context.source.sdh), Pending(L, "frame"), context.frame.sdh, z)
    BY <2>1, <2>2, FlowsKept
  <2> QED BY <1>4, <2>3 DEF FramePart
<1>11. InterPart(queue', context', Pending(L, "interframe")')
  <2>1. InterFlow(queue["processors"], Handed(context.frame.sdh), Pending(L, "interframe"), context.interframe, z)
    BY FlowParts DEF InterPart
  <2>2. /\ Same(queue["processors"], queue'["processors"], Deliveries("interframe"))
        /\ Same(queue["processors"], queue'["processors"], Returns("interframe"))
    BY <1>7, QuietCalls
  <2>3. InterFlow(queue'["processors"], Handed(context.frame.sdh), Pending(L, "interframe"), context.interframe, z)
    BY <2>1, <2>2, FlowsKept
  <2> QED BY <1>4, <2>3 DEF InterPart
<1>12. SinkPart(queue', context')
  <2>1. SinkFlow(u, Handed(context.interframe.sdh), f.sdh, z)
    BY DEF u
  <2>2. \A i \in DOMAIN o : o[i] \notin Deliveries("sink")
    BY <1>9, QuietCalls
  <2>3. Same(u, u \o o, Deliveries("sink"))
    BY <1>8, <2>2, SameBehind
  <2>4. SinkFlow(u \o o, Handed(context.interframe.sdh), f.sdh, z)
    BY <2>1, <2>3, FlowsKept
  <2> QED BY <1>4, <1>5, <1>8, <2>4 DEF SinkPart, d
<1>13. SourceFlow(video, context.source)
  BY FlowParts
<1> QED BY <1>4, <1>10, <1>11, <1>12, <1>13, FlowPartsNext
-----------------------------------------------------------------------------
(* What happens at a stage: nothing of importance, a result arrives, or    *)
(* new frames, some of which are evaluated.                                *)
LEMMA WorkGoesOn ==
    ASSUME NEW q, NEW s, NEW J, NEW h, NEW A, NEW n, Working(q, s, J, h, A, n),
           NEW g, Settled(g, A), Seen(g) = Seen(h)
    PROVE  Working(q, s, J, g, A, n)
BY DEF Working

LEMMA ResultTaken ==
    ASSUME NEW s, NEW q \in Seq(CallType), q # <<>>, Head(q) \in Returns(s),
           NEW J, NEW h, NEW A, \A f \in A : f.number \in Nat, NEW n, Working(q, s, J, h, A, n)
    PROVE  /\ Head(q).load[1] \in A /\ Head(q).load[1].number \notin Seen(h)
           /\ \A g : Settled(g, A) /\ Seen(g) = Seen(h) \union {Head(q).load[1].number} =>
                  Working(Tail(q), s, J, g, A, n)
<1> DEFINE k == Head(q).load[1].number
           C == Carried(Tail(q), Returns(s))
<1>1. OneEach(Returns(s)) /\ Answers(q, Returns(s), A)
  BY OneResult DEF Working
<1>2. /\ Answers(Tail(q), Returns(s), A) /\ Head(q).load[1] \in A
      /\ k \notin C /\ Carried(q, Returns(s)) = C \union {k}
  BY <1>1, AnswersTail
<1> HIDE DEF C, k
<1>3. /\ JobsFit(J, A) /\ Balanced(NumbersOf(J), C \union {k}, Seen(h), n)
      /\ Reliable => Complete(NumbersOf(J), C \union {k}, Seen(h), n)
  BY <1>2 DEF Working
<1>4. k \notin Seen(h)
  BY <1>3 DEF Balanced
<1>5. /\ Balanced(NumbersOf(J), C, Seen(h) \union {k}, n)
      /\ Reliable => Complete(NumbersOf(J), C, Seen(h) \union {k}, n)
  BY <1>2, <1>3, BalancedMoves
<1>6. ASSUME NEW g, Settled(g, A), Seen(g) = Seen(h) \union {k}
      PROVE  Working(Tail(q), s, J, g, A, n)
  BY <1>2, <1>3, <1>5, <1>6 DEF Working, C
<1> QED BY <1>2, <1>4, <1>6 DEF k

LEMMA MoreWork ==
    ASSUME NEW q, NEW s, NEW J, NEW h, NEW A, NEW n, Working(q, s, J, h, A, n),
           NEW K, JobsFit(K, A), NEW S, NEW m, NumbersOf(K) \intersect S = {},
           (NumbersOf(K) \union S) \intersect 0 .. n - 1 = {},
           0 .. m - 1 = (0 .. n - 1) \union NumbersOf(K) \union S,
           NEW g, Settled(g, A), Seen(g) = Seen(h) \union S
    PROVE  Working(q, s, J \union K, g, A, m)
<1> DEFINE C == Carried(q, Returns(s))
           below == 0 .. n - 1
<1>1. /\ JobsFit(J, A) /\ Answers(q, Returns(s), A) /\ Balanced(NumbersOf(J), C, Seen(h), n)
      /\ Reliable => Complete(NumbersOf(J), C, Seen(h), n)
  BY DEF Working
<1>2. NumbersOf(J \union K) = NumbersOf(J) \union NumbersOf(K)
  BY DEF NumbersOf
<1>3. NumbersOf(J) \subseteq below /\ NumbersOf(K) \intersect below = {}
  BY <1>1 DEF Balanced
<1> HIDE DEF below
<1>4. \A j \in J, k \in K : j.number # k.number
  BY <1>3 DEF NumbersOf
<1>5. JobsFit(J \union K, A)
  BY <1>1, <1>4 DEF JobsFit
<1> HIDE DEF C
<1>6. /\ Balanced(NumbersOf(J) \union NumbersOf(K), C, Seen(h) \union S, m)
      /\ Reliable => Complete(NumbersOf(J) \union NumbersOf(K), C, Seen(h) \union S, m)
  BY <1>1, BalancedGrows
<1> QED BY <1>1, <1>2, <1>5, <1>6 DEF Working, C
-----------------------------------------------------------------------------
(* When nothing but the opening fails, both scripts are known beforehand   *)
(* and every number of a script that a stage or an evaluation has is one   *)
(* of theirs: no evaluation fails for want of its script.                  *)
ScriptsInv ==
    Reliable => /\ images.scripts = <<"frame", "interframe">>
                /\ context.frame.framesId \in {0, 1} /\ context.interframe.framesId \in {0, 1}
                /\ \A j \in images.evaluating : j.script \in {0, 1}

(* The script of the evaluations that the stage s asks for.                *)
AsksFor(s, f) ==
    \/ /\ s \in {"frame", "interframe"} /\ f \in FrameContext(BOOLEAN, TRUE) \union InterContext(BOOLEAN, TRUE)
       /\ f.framesId = context[s].framesId /\ \A j \in f.eff.jobs : j.script = context[s].framesId
    \/ s \in {"source", "sink"} /\ f.eff.jobs = {}

LEMMA HandledScripts ==
    ASSUME TypeInv, ScriptsInv, NEW s \in Stage, NEW f, Handled(s, f), AsksFor(s, f)
    PROVE  ScriptsInv'
<1> SUFFICES ASSUME Reliable
             PROVE  /\ images'.scripts = <<"frame", "interframe">>
                    /\ context'.frame.framesId \in {0, 1} /\ context'.interframe.framesId \in {0, 1}
                    /\ \A j \in images'.evaluating : j.script \in {0, 1}
  BY DEF ScriptsInv, Reliable
<1>1. /\ images.scripts = <<"frame", "interframe">>
      /\ context.frame.framesId \in {0, 1} /\ context.interframe.framesId \in {0, 1}
      /\ \A j \in images.evaluating : j.script \in {0, 1}
  BY DEF ScriptsInv
<1>2. images'.scripts = images.scripts
  BY DEF Handled, TypeInv, ImagesType
<1>3. /\ context'[s] = Forgets(f) /\ \A r \in Stage : r # s => context'[r] = context[r]
      /\ images'.evaluating = images.evaluating \union f.eff.jobs
  BY HandledIs DEF Forgets
<1>4. CASE s \in {"source", "sink"}
  BY <1>1, <1>2, <1>3, <1>4 DEF AsksFor, Stage
<1>5. CASE s \in {"frame", "interframe"}
  <2>1. f.framesId = context[s].framesId /\ \A j \in f.eff.jobs : j.script = context[s].framesId
    BY <1>5 DEF AsksFor
  <2>2. Forgets(f).framesId = f.framesId
    BY <1>5, Forgetting DEF AsksFor, FrameLeft, InterLeft
  <2>3. context[s].framesId \in {0, 1}
    BY <1>1, <1>5
  <2>4. context'.frame.framesId \in {0, 1} /\ context'.interframe.framesId \in {0, 1}
    BY <1>1, <1>3, <1>5, <2>1, <2>2, <2>3 DEF Stage
  <2> QED BY <1>1, <1>2, <1>3, <2>1, <2>3, <2>4
<1> QED BY <1>4, <1>5 DEF Stage
-----------------------------------------------------------------------------
(* The queue of a stage when one of its jobs is done.                      *)
LEMMA StageQueue ==
    ASSUME TypeInv, NEW s \in Stage, NEW op, Calls(s, op), NEW f, Handled(s, f), f.eff.calls \in Queues(AllCalls),
           NEW t, t = ThreadOf(s)
    PROVE  /\ queue[t] \in Seq(CallType) /\ queue[t] # <<>>
           /\ Job(s) = Head(queue[t]) /\ Dequeued(s)[t] = Tail(queue[t])
           /\ \A M : Job(s) \notin M => Same(queue[t], Dequeued(s)[t], M)
<1>1. t \in Thread
  BY ThreadsAre DEF Stage
<1> QED BY <1>1, HandledQueues

(* The frame stage: any other job than process and evaluated.              *)
LEMMA FrameQuiet ==
    ASSUME NEW L, TypeInv, FlowWith(L), ScriptsInv, NEW op, op # "process", op # "evaluated", Calls("frame", op),
           NEW f, Handled("frame", f), NEW report, FrameDone(context.frame, f, Passing(End(context.source)), report)
    PROVE  FlowWith(L)' /\ ScriptsInv'
<1> DEFINE z == End(context.source)
           q == queue["processors"]
           r == Dequeued("frame")["processors"]
           m == Handed(context.source.sdh)
           J == Pending(L, "frame")
<1>1. /\ f \in FrameContext(BOOLEAN, TRUE) /\ Settled(f.sdh, Passing(z)) /\ Seen(f.sdh) = Seen(context.frame.sdh)
      /\ f.eff.jobs = {} /\ f.framesId = context.frame.framesId
      /\ Stream(f.eff.calls["processors"], Deliveries("interframe"), Handed(context.frame.sdh), Handed(f.sdh), Passing(z))
  BY DEF FrameDone
<1>2. f.eff.calls \in Queues(AllCalls) /\ "frame" \in Stage
  BY <1>1, CallsOfStage, CallsTyped DEF FrameContext, Stage
<1>3. Same(q, r, Deliveries("frame")) /\ Same(q, r, Returns("frame"))
  BY <1>2, StageQueue, JobOfStage, ThreadsAre
<1>4. FrameFlow(q, m, J, context.frame.sdh, z)
  BY FlowParts DEF FramePart
<1>5. FrameFlow(r, m, J, context.frame.sdh, z)
  BY <1>3, <1>4, FlowsKept
<1>6. FrameFlow(r, m, J, f.sdh, z)
  BY <1>1, <1>5, WorkGoesOn DEF FrameFlow
<1>7. J \union f.eff.jobs = J /\ \A j \in f.eff.jobs : j.stage = "frame"
  BY <1>1
<1>30. AsksFor("frame", f) /\ "frame" \in Stage
  BY <1>1 DEF AsksFor, Stage
<1>31. FlowWith(L)'
  BY <1>1, <1>6, <1>7, FrameFlows
<1> QED BY <1>1, <1>30, <1>31, HandledScripts

(* A result of the frame stage arrives.                                    *)
LEMMA FrameEvaluatedFlows ==
    ASSUME NEW L, TypeInv, FlowWith(L), ScriptsInv, FrameEvaluated
    PROVE  /\ FlowWith(L)' /\ ScriptsInv'
           /\ LET f == FrameStage!Evaluated(context.frame, Job("frame").load[1])
              IN  HandsOn(context.frame, f, f.eff.calls["processors"], "interframe")
<1> DEFINE z == End(context.source)
           q == queue["processors"]
           r == Dequeued("frame")["processors"]
           m == Handed(context.source.sdh)
           J == Pending(L, "frame")
           c == context.frame
           x == Job("frame").load[1]
           f == FrameStage!Evaluated(c, x)
<1>1. Calls("frame", "evaluated") /\ Handled("frame", f) /\ "frame" \in Stage
  BY DEF FrameEvaluated, Stage
<1>2. c \in FrameContext(BOOLEAN, TRUE) /\ c.eff = NoEffects
  BY ContextsTyped
<1> HIDE DEF f
<1>3. /\ Job("frame") \in Returns("frame") /\ Job("frame") \notin Deliveries("frame")
      /\ Made("frame", "evaluated", Job("frame").amount, Job("frame").load) /\ Job("frame").load \in Seq(FrameType)
  BY <1>1, JobOfStage
<1>4. x \in FrameType
  BY <1>3, LoadTyped DEF Made
<1>5. f \in FrameContext(BOOLEAN, TRUE)
  BY <1>2, <1>4, FrameStepsTyped DEF f
<1>6. f.eff.calls \in Queues(AllCalls)
  BY <1>5, CallsOfStage, CallsTyped DEF FrameContext
<1>7. /\ q \in Seq(CallType) /\ q # <<>> /\ Job("frame") = Head(q) /\ r = Tail(q)
      /\ Same(q, r, Deliveries("frame"))
  BY <1>1, <1>3, <1>6, StageQueue, ThreadsAre
<1>8. FrameFlow(q, m, J, c.sdh, z)
  BY FlowParts DEF FramePart
<1>9. PICK n \in Nat : Stream(q, Deliveries("frame"), n, m, Passing(z)) /\ Working(q, "frame", J, c.sdh, Passing(z), n)
  BY <1>8 DEF FrameFlow
<1> HIDE DEF z, q, r, m, J, c
<1>10. \A a \in Passing(z) : a.number \in Nat
  BY FrameSets
<1>11. /\ x \in Passing(z) /\ x.number \notin Seen(c.sdh)
       /\ \A g : Settled(g, Passing(z)) /\ Seen(g) = Seen(c.sdh) \union {x.number} =>
             Working(r, "frame", J, g, Passing(z), n)
  BY <1>3, <1>7, <1>9, <1>10, ResultTaken, ZenonT(40)
<1>12. Passing(z) \in SUBSET FrameType /\ Settled(c.sdh, Passing(z))
  BY <1>9, FrameSets DEF Working
<1>13. /\ Settled(f.sdh, Passing(z)) /\ Seen(f.sdh) = Seen(c.sdh) \union {x.number}
       /\ f.eff.jobs = {} /\ f.framesId = c.framesId
       /\ Stream(f.eff.calls["processors"], Deliveries("interframe"), Handed(c.sdh), Handed(f.sdh), Passing(z))
  <2>1. FrameReceives(f, c, x.number, Passing(z))
    BY <1>2, <1>11, <1>12, FrameEvaluatedTakes DEF f
  <2> QED BY <2>1 DEF FrameReceives
<1>14. Stream(r, Deliveries("frame"), n, m, Passing(z)) /\ Working(r, "frame", J, f.sdh, Passing(z), n)
  BY <1>7, <1>9, <1>11, <1>13, SameStream
<1>15. FrameFlow(r, m, J \union f.eff.jobs, f.sdh, z) /\ \A j \in f.eff.jobs : j.stage = "frame"
  BY <1>13, <1>14 DEF FrameFlow
<1>30. AsksFor("frame", f) /\ "frame" \in Stage
  BY <1>5, <1>13 DEF AsksFor, Stage, c
<1>31. FlowWith(L)'
  BY <1>1, <1>5, <1>13, <1>15, FrameFlows DEF z, q, r, m, J, c
<1>32. HandsOn(context.frame, f, f.eff.calls["processors"], "interframe")
  BY <1>13 DEF HandsOn, Stream, c
<1> QED BY <1>1, <1>30, <1>31, <1>32, HandledScripts DEF f, c

(* Frames arrive at the frame stage.                                       *)
LEMMA FrameProcessFlows ==
    ASSUME NEW L, TypeInv, StartInv, FlowWith(L), ScriptsInv, FrameProcess
    PROVE  /\ FlowWith(L)' /\ ScriptsInv'
           /\ LET f == FrameStage!Process(context.frame, Job("frame").load)
              IN  HandsOn(context.frame, f, f.eff.calls["processors"], "interframe")
<1> DEFINE z == End(context.source)
           q == queue["processors"]
           r == Dequeued("frame")["processors"]
           m == Handed(context.source.sdh)
           J == Pending(L, "frame")
           c == context.frame
           load == Job("frame").load
           f == FrameStage!Process(c, load)
<1>1. Calls("frame", "process") /\ Handled("frame", f) /\ "frame" \in Stage
  BY DEF FrameProcess, Stage
<1>2. c \in FrameContext(BOOLEAN, TRUE) /\ c.eff = NoEffects
  BY ContextsTyped
<1> HIDE DEF f
<1>3. Job("frame") \in Deliveries("frame") /\ Job("frame") \notin Returns("frame") /\ load \in Seq(FrameType)
  BY <1>1, JobOfStage
<1>4. f \in FrameContext(BOOLEAN, TRUE)
  BY <1>2, <1>3, FrameProcessTyped DEF f
<1>5. c.exists
  BY <1>1, CalledAtHome, ThereIs DEF Early
<1>6. f.eff.calls \in Queues(AllCalls)
  BY <1>4, CallsOfStage, CallsTyped DEF FrameContext
<1>7. /\ q \in Seq(CallType) /\ q # <<>> /\ Job("frame") = Head(q) /\ r = Tail(q)
      /\ Same(q, r, Returns("frame"))
  BY <1>1, <1>3, <1>6, StageQueue, ThreadsAre
<1>8. FrameFlow(q, m, J, c.sdh, z)
  BY FlowParts DEF FramePart
<1>9. PICK n \in Nat : Stream(q, Deliveries("frame"), n, m, Passing(z)) /\ Working(q, "frame", J, c.sdh, Passing(z), n)
  BY <1>8 DEF FrameFlow
<1> HIDE DEF z, q, r, m, J, c
<1>10. (\A a \in Passing(z) : a.number \in Nat) /\ Passing(z) \in SUBSET FrameType
  BY FrameSets
<1>11. PICK y \in n .. m : Batch(load, n, y, Passing(z)) /\ Stream(r, Deliveries("frame"), y, m, Passing(z))
  BY <1>3, <1>7, <1>9, <1>10, StreamTaken
<1>12. Working(r, "frame", J, c.sdh, Passing(z), n)
  BY <1>7, <1>9, WorkingKept
<1>13. Settled(c.sdh, Passing(z)) /\ Seen(c.sdh) \subseteq 0 .. n - 1
  BY <1>9 DEF Working, Balanced
<1>14. PICK S \in SUBSET Nat : FrameTakes(f, c, n, y, Passing(z), S)
  BY <1>2, <1>3, <1>5, <1>9, <1>10, <1>11, <1>13, FrameProcessTakes DEF f
<1>15. y \in Nat
  BY <1>9, <1>11 DEF Stream
<1>16. /\ (NumbersOf(f.eff.jobs) \union S) \intersect 0 .. n - 1 = {}
       /\ 0 .. y - 1 = (0 .. n - 1) \union NumbersOf(f.eff.jobs) \union S
  <2> DEFINE E == NumbersOf(f.eff.jobs) \union S
  <2>1. E = n .. y - 1 /\ n <= y
    BY <1>11, <1>14 DEF FrameTakes, Batch
  <2> HIDE DEF E
  <2>2. E \intersect 0 .. n - 1 = {} /\ 0 .. y - 1 = (0 .. n - 1) \union E
    BY <1>15, <2>1
  <2> QED BY <2>2 DEF E
<1>17. Working(r, "frame", J \union f.eff.jobs, f.sdh, Passing(z), y)
  BY <1>12, <1>14, <1>16, MoreWork DEF FrameTakes
<1>18. FrameFlow(r, m, J \union f.eff.jobs, f.sdh, z)
  BY <1>11, <1>15, <1>17 DEF FrameFlow
<1>30. AsksFor("frame", f) /\ "frame" \in Stage
  BY <1>4, <1>14 DEF AsksFor, Stage, FrameTakes, c
<1>31. FlowWith(L)'
  BY <1>1, <1>4, <1>14, <1>18, FrameFlows DEF FrameTakes, z, q, r, m, J, c
<1>32. HandsOn(context.frame, f, f.eff.calls["processors"], "interframe")
  BY <1>14 DEF HandsOn, Stream, c, FrameTakes
<1> QED BY <1>1, <1>30, <1>31, <1>32, HandledScripts DEF f, c
-----------------------------------------------------------------------------
(* No more frames go through a stage than came out of the one before it.   *)
LEMMA Below ==
    ASSUME NEW a \in Nat, NEW b \in Nat, 0 .. a - 1 \subseteq 0 .. b - 1
    PROVE  a <= b
<1>1. CASE a = 0
  BY <1>1
<1>2. CASE a # 0
  <2>1. a - 1 \in 0 .. a - 1
    BY <1>2
  <2>2. a - 1 \in 0 .. b - 1
    BY <2>1
  <2> QED BY <2>2
<1> QED BY <1>1, <1>2

LEMMA HandedBelow ==
    ASSUME NEW A, NEW h, Settled(h, A), NEW n \in Nat, Seen(h) \subseteq 0 .. n - 1
    PROVE  Handed(h) \in Nat /\ Handed(h) <= n
<1>1. Handed(h) \in Nat /\ Handed(h) <= h.next /\ h.next \in Nat
  BY HandedTyped DEF Settled
<1>2. 0 .. h.next - 1 \subseteq 0 .. n - 1
  BY DEF Seen
<1>3. h.next <= n
  BY <1>1, <1>2, Below
<1> QED BY <1>1, <1>3

(* The numbers of the frames do not wrap, and none is behind the flush     *)
(* frame.                                                                  *)
LEMMA FlowBounds ==
    ASSUME NEW L, TypeInv, FlowWith(L)
    PROVE  LET m == Handed(context.frame.sdh)
               z == End(context.source)
           IN  m \in Nat /\ m <= SizeModulus /\ z \in Nat \union {-1} /\ (z # -1 => m - 1 <= z)
<1> DEFINE c == context.source
           z == End(c)
           p == c.processed
<1>1. c \in SourceContext(video, BOOLEAN, TRUE) /\ video \in Videos
  BY ContextsTyped
<1>2. /\ SourceFlow(video, c)
      /\ FrameFlow(queue["processors"], Handed(c.sdh), Pending(L, "frame"), context.frame.sdh, z)
  BY FlowParts DEF FramePart
<1> HIDE DEF c
<1>3. /\ p \in Nat /\ p < SizeModulus /\ SizeModulus \in Nat /\ Settled(c.sdh, Passing(FlushPlace(c)))
      /\ Seen(c.sdh) = 0 .. p - 1
  <2>1. p \in Nat /\ c.loaded \in 0 .. video.packets
    BY <1>1 DEF SourceContext
  <2>2. /\ video.packets \in Nat /\ video.decoded \in [0 .. video.packets -> Nat] /\ SizeModulus \in Nat
        /\ \A j, k \in 0 .. video.packets : j <= k => video.decoded[j] <= video.decoded[k]
        /\ video.decoded[video.packets] + 2 < SizeModulus
    BY <1>1, FileToFileAssumption
  <2>3. /\ video.decoded[c.loaded] <= video.decoded[video.packets]
        /\ video.decoded[c.loaded] \in Nat /\ video.decoded[video.packets] \in Nat
    BY <2>1, <2>2
  <2>4. p <= video.decoded[c.loaded] + 1 \/ p <= video.decoded[c.loaded]
    BY <1>2, <2>1, <2>3 DEF SourceFlow
  <2>5. p < SizeModulus
    BY <2>1, <2>2, <2>3, <2>4, SMTT(40)
  <2> QED BY <1>2, <2>1, <2>2, <2>5 DEF SourceFlow
<1>4. Handed(c.sdh) \in Nat /\ Handed(c.sdh) <= p
  BY <1>3, HandedBelow
<1>5. PICK n \in Nat : /\ Stream(queue["processors"], Deliveries("frame"), n, Handed(c.sdh), Passing(z))
                       /\ Working(queue["processors"], "frame", Pending(L, "frame"), context.frame.sdh, Passing(z), n)
  BY <1>2 DEF FrameFlow
<1>6. n <= Handed(c.sdh)
  BY <1>5 DEF Stream
<1>7. Settled(context.frame.sdh, Passing(z)) /\ Seen(context.frame.sdh) \subseteq 0 .. n - 1
  BY <1>5 DEF Working, Balanced
<1>8. Handed(context.frame.sdh) \in Nat /\ Handed(context.frame.sdh) <= n
  BY <1>7, HandedBelow
<1>9. z = -1 \/ z = p - 1
  BY DEF End
<1> QED BY <1>3, <1>4, <1>6, <1>8, <1>9 DEF c
-----------------------------------------------------------------------------
(* The inter-frame stage: any other job than process and evaluated.        *)
LEMMA InterQuiet ==
    ASSUME NEW L, TypeInv, FlowWith(L), ScriptsInv, NEW op, op # "process", op # "evaluated", Calls("interframe", op),
           NEW f, Handled("interframe", f), NEW report, InterDone(context.interframe, f, Pairs(End(context.source)), report)
    PROVE  FlowWith(L)' /\ ScriptsInv'
<1> DEFINE z == End(context.source)
           q == queue["processors"]
           r == Dequeued("interframe")["processors"]
           m == Handed(context.frame.sdh)
           J == Pending(L, "interframe")
           c == context.interframe
<1>1. /\ f \in InterContext(BOOLEAN, TRUE) /\ Settled(f.sdh, Pairs(z)) /\ Seen(f.sdh) = Seen(c.sdh)
      /\ f.eff.jobs = {} /\ InterSame(c, f)
      /\ Stream(f.eff.calls["sink"], Deliveries("sink"), Handed(c.sdh), Handed(f.sdh), Pairs(z))
  BY DEF InterDone
<1>2. f.eff.calls \in Queues(AllCalls) /\ "interframe" \in Stage
  BY <1>1, CallsOfStage, CallsTyped DEF InterContext, Stage
<1>3. Same(q, r, Deliveries("interframe")) /\ Same(q, r, Returns("interframe"))
  BY <1>2, StageQueue, JobOfStage, ThreadsAre
<1>4. InterFlow(q, m, J, c, z)
  BY FlowParts DEF InterPart
<1>5. InterFlow(r, m, J, c, z)
  BY <1>3, <1>4, FlowsKept
<1>6. \A n : Buffered(c, n, z) => Buffered(f, n, z)
  BY <1>1 DEF Buffered, InterSame
<1>7. InterFlow(r, m, J, f, z)
  BY <1>1, <1>5, <1>6, WorkGoesOn DEF InterFlow
<1>8. J \union f.eff.jobs = J /\ \A j \in f.eff.jobs : j.stage = "interframe"
  BY <1>1
<1>30. AsksFor("interframe", f) /\ "interframe" \in Stage
  BY <1>1 DEF AsksFor, Stage, InterSame
<1>31. FlowWith(L)'
  BY <1>1, <1>7, <1>8, InterFlows
<1> QED BY <1>1, <1>30, <1>31, HandledScripts

(* A result of the inter-frame stage arrives.                              *)
LEMMA InterEvaluatedFlows ==
    ASSUME NEW L, TypeInv, FlowWith(L), ScriptsInv, InterframeEvaluated
    PROVE  /\ FlowWith(L)' /\ ScriptsInv'
           /\ LET f == InterStage!Common!Evaluated(context.interframe, Job("interframe").load[1])
              IN  HandsOn(context.interframe, f, f.eff.calls["sink"], "sink")
<1> DEFINE z == End(context.source)
           q == queue["processors"]
           r == Dequeued("interframe")["processors"]
           m == Handed(context.frame.sdh)
           J == Pending(L, "interframe")
           c == context.interframe
           x == Job("interframe").load[1]
           f == InterStage!Common!Evaluated(c, x)
<1>1. Calls("interframe", "evaluated") /\ Handled("interframe", f) /\ "interframe" \in Stage
  BY InterStageIs DEF InterframeEvaluated, Stage
<1>2. c \in InterContext(BOOLEAN, TRUE) /\ c.eff = NoEffects
  BY ContextsTyped
<1> HIDE DEF f
<1>3. /\ Job("interframe") \in Returns("interframe") /\ Job("interframe") \notin Deliveries("interframe")
      /\ Made("interframe", "evaluated", Job("interframe").amount, Job("interframe").load)
      /\ Job("interframe").load \in Seq(FrameType)
  BY <1>1, JobOfStage
<1>4. x \in FrameType
  BY <1>3, LoadTyped DEF Made
<1>5. f \in InterContext(BOOLEAN, TRUE)
  BY <1>2, <1>4, InterStepsTyped DEF f
<1>6. f.eff.calls \in Queues(AllCalls)
  BY <1>5, CallsOfStage, CallsTyped DEF InterContext
<1>7. /\ q \in Seq(CallType) /\ q # <<>> /\ Job("interframe") = Head(q) /\ r = Tail(q)
      /\ Same(q, r, Deliveries("interframe"))
  BY <1>1, <1>3, <1>6, StageQueue, ThreadsAre
<1>8. InterFlow(q, m, J, c, z)
  BY FlowParts DEF InterPart
<1>9. PICK n \in Nat : /\ Stream(q, Deliveries("interframe"), n, m, Passing(z)) /\ Buffered(c, n, z)
                       /\ Working(q, "interframe", J, c.sdh, Pairs(z), n - 1)
  BY <1>8 DEF InterFlow
<1> DEFINE k == n - 1
<1> HIDE DEF z, q, r, m, J, c
<1>16. Working(q, "interframe", J, c.sdh, Pairs(z), k)
  BY <1>9
<1> HIDE DEF k
<1>10. \A a \in Pairs(z) : a.number \in Nat
  BY FrameSets
<1>11. /\ x \in Pairs(z) /\ x.number \notin Seen(c.sdh)
       /\ \A g : Settled(g, Pairs(z)) /\ Seen(g) = Seen(c.sdh) \union {x.number} =>
             Working(r, "interframe", J, g, Pairs(z), k)
  <2> DEFINE y == Head(q).load[1]
  <2>1. Head(q) \in Returns("interframe") /\ q \in Seq(CallType) /\ q # <<>>
    BY <1>3, <1>7
  <2>2. /\ y \in Pairs(z) /\ y.number \notin Seen(c.sdh)
        /\ \A g : Settled(g, Pairs(z)) /\ Seen(g) = Seen(c.sdh) \union {y.number} =>
              Working(Tail(q), "interframe", J, g, Pairs(z), k)
    BY <1>10, <1>16, <2>1, ResultTaken
  <2>3. y = x /\ r = Tail(q)
    BY <1>7
  <2> HIDE DEF y, x
  <2> QED BY <2>2, <2>3
<1>12. Pairs(z) \in SUBSET FrameType /\ Settled(c.sdh, Pairs(z))
  BY <1>9, FrameSets DEF Working
<1>13. /\ Settled(f.sdh, Pairs(z)) /\ Seen(f.sdh) = Seen(c.sdh) \union {x.number}
       /\ f.eff.jobs = {} /\ InterSame(c, f)
       /\ Stream(f.eff.calls["sink"], Deliveries("sink"), Handed(c.sdh), Handed(f.sdh), Pairs(z))
  <2>1. InterReceives(f, c, x.number, Pairs(z))
    BY <1>2, <1>11, <1>12, InterEvaluatedTakes DEF f
  <2> QED BY <2>1 DEF InterReceives
<1>14. /\ Stream(r, Deliveries("interframe"), n, m, Passing(z)) /\ Working(r, "interframe", J, f.sdh, Pairs(z), k)
       /\ Buffered(f, n, z)
  <2>1. Buffered(f, n, z)
    BY <1>9, <1>13 DEF Buffered, InterSame
  <2> QED BY <1>7, <1>9, <1>11, <1>13, <2>1, SameStream
<1>15. InterFlow(r, m, J \union f.eff.jobs, f, z) /\ \A j \in f.eff.jobs : j.stage = "interframe"
  BY <1>13, <1>14 DEF InterFlow, k
<1>30. AsksFor("interframe", f) /\ "interframe" \in Stage
  BY <1>5, <1>13 DEF AsksFor, Stage, InterSame, c
<1>31. FlowWith(L)'
  BY <1>1, <1>5, <1>13, <1>15, InterFlows DEF z, q, r, m, J, c
<1>32. HandsOn(context.interframe, f, f.eff.calls["sink"], "sink")
  BY <1>13 DEF HandsOn, Stream, c
<1> QED BY <1>1, <1>30, <1>31, <1>32, HandledScripts DEF f, c

(* Frames arrive at the inter-frame stage.                                 *)
LEMMA InterProcessFlows ==
    ASSUME NEW L, TypeInv, StartInv, FlowWith(L), ScriptsInv, InterframeProcess
    PROVE  /\ FlowWith(L)' /\ ScriptsInv'
           /\ LET f == InterStage!Process(context.interframe, Job("interframe").load)
              IN  HandsOn(context.interframe, f, f.eff.calls["sink"], "sink")
<1> DEFINE z == End(context.source)
           q == queue["processors"]
           r == Dequeued("interframe")["processors"]
           m == Handed(context.frame.sdh)
           J == Pending(L, "interframe")
           c == context.interframe
           load == Job("interframe").load
           f == InterStage!Process(c, load)
<1>1. Calls("interframe", "process") /\ Handled("interframe", f) /\ "interframe" \in Stage
  BY DEF InterframeProcess, Stage
<1>2. c \in InterContext(BOOLEAN, TRUE) /\ c.eff = NoEffects
  BY ContextsTyped
<1> HIDE DEF f
<1>3. /\ Job("interframe") \in Deliveries("interframe") /\ Job("interframe") \notin Returns("interframe")
      /\ load \in Seq(FrameType) /\ load # <<>>
  <2>1. Made("interframe", "process", Job("interframe").amount, load)
    BY <1>1, JobOfStage
  <2>2. load # <<>>
    BY <2>1 DEF Made
  <2> QED BY <1>1, <2>2, JobOfStage
<1>4. f \in InterContext(BOOLEAN, TRUE)
  BY <1>2, <1>3, InterProcessTyped DEF f
<1>5. c.exists
  BY <1>1, CalledAtHome, ThereIs DEF Early
<1>6. f.eff.calls \in Queues(AllCalls)
  BY <1>4, CallsOfStage, CallsTyped DEF InterContext
<1>7. /\ q \in Seq(CallType) /\ q # <<>> /\ Job("interframe") = Head(q) /\ r = Tail(q)
      /\ Same(q, r, Returns("interframe"))
  BY <1>1, <1>3, <1>6, StageQueue, ThreadsAre
<1>8. InterFlow(q, m, J, c, z)
  BY FlowParts DEF InterPart
<1>9. PICK n \in Nat : /\ Stream(q, Deliveries("interframe"), n, m, Passing(z)) /\ Buffered(c, n, z)
                       /\ Working(q, "interframe", J, c.sdh, Pairs(z), n - 1)
  BY <1>8 DEF InterFlow
<1>20. m \in Nat /\ m <= SizeModulus /\ z \in Nat \union {-1} /\ (z # -1 => m - 1 <= z)
  BY FlowBounds
<1> HIDE DEF z, q, r, m, J, c
<1>10. (\A a \in Passing(z) : a.number \in Nat) /\ Pairs(z) \in SUBSET FrameType
  BY FrameSets
<1>11. PICK y \in n .. m : Batch(load, n, y, Passing(z)) /\ Stream(r, Deliveries("interframe"), y, m, Passing(z))
  BY <1>3, <1>7, <1>9, <1>10, StreamTaken
<1>12. Working(r, "interframe", J, c.sdh, Pairs(z), n - 1)
  BY <1>7, <1>9, WorkingKept
<1>13. Settled(c.sdh, Pairs(z)) /\ Seen(c.sdh) \subseteq 0 .. n - 2
  <2>1. Settled(c.sdh, Pairs(z)) /\ Seen(c.sdh) \subseteq 0 .. (n - 1) - 1
    BY <1>9 DEF Working, Balanced
  <2>2. (n - 1) - 1 = n - 2
    OBVIOUS
  <2> QED BY <2>1, <2>2
<1>14. y \in Nat /\ y <= SizeModulus /\ (z # -1 => y - 1 <= z)
  BY <1>9, <1>11, <1>20, FileToFileAssumption
<1>15. PICK S \in SUBSET Nat : InterTakes(f, c, n, y, z, S)
  BY <1>2, <1>3, <1>5, <1>9, <1>11, <1>13, <1>14, <1>20, InterProcessTakes DEF f
<1>16. /\ (NumbersOf(f.eff.jobs) \union S) \intersect 0 .. (n - 1) - 1 = {}
       /\ 0 .. (y - 1) - 1 = (0 .. (n - 1) - 1) \union NumbersOf(f.eff.jobs) \union S
  <2>1. (n - 1) - 1 = n - 2 /\ (y - 1) - 1 = y - 2
    BY <1>14
  <2>2. /\ (NumbersOf(f.eff.jobs) \union S) \intersect 0 .. n - 2 = {}
        /\ 0 .. y - 2 = (0 .. n - 2) \union NumbersOf(f.eff.jobs) \union S
    BY <1>15 DEF InterTakes
  <2> QED BY <2>1, <2>2
<1>17. Working(r, "interframe", J \union f.eff.jobs, f.sdh, Pairs(z), y - 1)
  BY <1>12, <1>15, <1>16, MoreWork DEF InterTakes
<1>18. InterFlow(r, m, J \union f.eff.jobs, f, z)
  BY <1>11, <1>14, <1>15, <1>17 DEF InterFlow, InterTakes
<1>30. AsksFor("interframe", f) /\ "interframe" \in Stage
  BY <1>4, <1>15 DEF AsksFor, Stage, InterTakes, InterSame, c
<1>31. FlowWith(L)'
  BY <1>1, <1>4, <1>15, <1>18, InterFlows DEF InterTakes, z, q, r, m, J, c
<1>32. HandsOn(context.interframe, f, f.eff.calls["sink"], "sink")
  BY <1>15 DEF HandsOn, Stream, c, InterTakes
<1> QED BY <1>1, <1>30, <1>31, <1>32, HandledScripts DEF f, c
-----------------------------------------------------------------------------
(* The sink: any other job than process.                                   *)
LEMMA SinkQuiet ==
    ASSUME NEW L, TypeInv, FlowWith(L), ScriptsInv, NEW op, op # "process", Calls("sink", op),
           NEW f, Handled("sink", f), SinkDone(context.sink, f, Pairs(End(context.source)))
    PROVE  FlowWith(L)' /\ ScriptsInv'
<1> DEFINE z == End(context.source)
           q == queue["sink"]
           r == Dequeued("sink")["sink"]
           m == Handed(context.interframe.sdh)
<1>1. f \in SinkContext(BOOLEAN) /\ Settled(f.sdh, Pairs(z)) /\ Seen(f.sdh) = Seen(context.sink.sdh)
  BY DEF SinkDone
<1>2. f.eff.calls \in Queues(AllCalls) /\ "sink" \in Stage
  BY <1>1, CallsOfStage, CallsTyped DEF SinkContext, Stage
<1>3. Same(q, r, Deliveries("sink"))
  BY <1>2, StageQueue, JobOfStage, ThreadsAre
<1>4. SinkFlow(q, m, context.sink.sdh, z)
  BY FlowParts DEF SinkPart
<1>5. SinkFlow(r, m, context.sink.sdh, z)
  BY <1>3, <1>4, FlowsKept
<1>6. SinkFlow(r, m, f.sdh, z)
  BY <1>1, <1>5 DEF SinkFlow
<1>30. AsksFor("sink", f) /\ "sink" \in Stage
  <2>1. f.eff \in Effect(SinkCalls, {})
    BY <1>1 DEF SinkContext
  <2>2. f.eff.jobs = {}
    BY <2>1 DEF Effect
  <2> QED BY <2>2 DEF AsksFor, Stage
<1>31. FlowWith(L)'
  BY <1>1, <1>6, SinkFlows
<1> QED BY <1>1, <1>30, <1>31, HandledScripts

(* Frames arrive at the sink.                                              *)
LEMMA SinkProcessFlows ==
    ASSUME NEW L, TypeInv, StartInv, FlowWith(L), ScriptsInv, SinkProcess
    PROVE  FlowWith(L)' /\ ScriptsInv'
<1> DEFINE z == End(context.source)
           q == queue["sink"]
           r == Dequeued("sink")["sink"]
           m == Handed(context.interframe.sdh)
           c == context.sink
           load == Job("sink").load
           f == Sink!Process(c, load)
<1>1. Calls("sink", "process") /\ Handled("sink", f) /\ "sink" \in Stage
  BY DEF SinkProcess, Stage
<1>2. c \in SinkContext(BOOLEAN)
  BY ContextsTyped
<1> HIDE DEF f
<1>3. Job("sink") \in Deliveries("sink") /\ load \in Seq(FrameType)
  BY <1>1, JobOfStage
<1>4. f \in SinkContext(BOOLEAN)
  BY <1>2, <1>3, SinkStepsTyped DEF f
<1>5. c.exists
  BY <1>1, CalledAtHome, ThereIs DEF Early
<1>6. f.eff.calls \in Queues(AllCalls)
  BY <1>4, CallsOfStage, CallsTyped DEF SinkContext
<1>7. q \in Seq(CallType) /\ q # <<>> /\ Job("sink") = Head(q) /\ r = Tail(q)
  BY <1>1, <1>6, StageQueue, ThreadsAre
<1>8. SinkFlow(q, m, c.sdh, z)
  BY FlowParts DEF SinkPart
<1>9. PICK n \in Nat : Stream(q, Deliveries("sink"), n, m, Pairs(z)) /\ Settled(c.sdh, Pairs(z)) /\ Seen(c.sdh) = 0 .. n - 1
  BY <1>8 DEF SinkFlow
<1> HIDE DEF z, q, r, m, c
<1>10. (\A a \in Pairs(z) : a.number \in Nat) /\ Pairs(z) \in SUBSET FrameType
  BY FrameSets
<1>11. PICK y \in n .. m : Batch(load, n, y, Pairs(z)) /\ Stream(r, Deliveries("sink"), y, m, Pairs(z))
  BY <1>3, <1>7, <1>9, <1>10, StreamTaken
<1>12. SinkTakes(f, y, Pairs(z))
  BY <1>2, <1>3, <1>5, <1>9, <1>10, <1>11, SinkProcessTakes DEF f
<1>13. y \in Nat
  BY <1>11 DEF Stream
<1>14. SinkFlow(r, m, f.sdh, z)
  BY <1>11, <1>12, <1>13 DEF SinkFlow, SinkTakes
<1>30. AsksFor("sink", f) /\ "sink" \in Stage
  <2>1. f.eff \in Effect(SinkCalls, {})
    BY <1>4 DEF SinkContext
  <2>2. f.eff.jobs = {}
    BY <2>1 DEF Effect
  <2> QED BY <2>2 DEF AsksFor, Stage
<1>31. FlowWith(L)'
  BY <1>1, <1>4, <1>14, SinkFlows DEF z, q, r, m, c
<1> QED BY <1>1, <1>30, <1>31, HandledScripts
-----------------------------------------------------------------------------
(* The parts of the invariant that are about the handlers.                 *)
LEMMA HandlersSettled ==
    ASSUME NEW L, FlowWith(L)
    PROVE  LET z == End(context.source)
           IN  /\ SourceFlow(video, context.source)
               /\ Settled(context.frame.sdh, Passing(z)) /\ Passing(z) \in SUBSET FrameType
               /\ Settled(context.interframe.sdh, Pairs(z)) /\ Pairs(z) \in SUBSET FrameType
               /\ Settled(context.sink.sdh, Pairs(z))
BY FlowParts, FrameSets DEF FramePart, InterPart, SinkPart, FrameFlow, InterFlow, SinkFlow, Working

(* What a stage is asked for.                                              *)
LEMMA AskedAmounts ==
    ASSUME TypeInv
    PROVE  /\ Calls("source", "next") => Job("source").amount \in 0 .. MaxOut
           /\ Calls("frame", "next") => Job("frame").amount \in 0 .. MaxOut
           /\ Calls("interframe", "next") => Job("interframe").amount \in 0 .. MaxWrite
<1>1. ASSUME NEW s \in Stage, Calls(s, "next")
      PROVE  Made(s, "next", Job(s).amount, Job(s).load) /\ Job(s).amount \in Nat
  BY <1>1, JobOfStage
<1> QED BY <1>1 DEF Made, Stage

(* The jobs of the source.                                                 *)
LEMMA SourceThreadFlows ==
    ASSUME NEW L, TypeInv, FlowWith(L), ScriptsInv, SourceThread
    PROVE  FlowWith(L)' /\ ScriptsInv'
<1>1. /\ video \in Videos /\ context.source \in SourceContext(video, BOOLEAN, TRUE) /\ context.source.eff = NoEffects
      /\ SourceFlow(video, context.source) /\ "source" \in Stage
  BY ContextsTyped, HandlersSettled DEF Stage
<1>2. ASSUME NEW op, Calls("source", op), NEW f, Handled("source", f), SourceDone(video, context.source, f)
      PROVE  FlowWith(L)' /\ ScriptsInv'
  <2>1. f.eff \in Effect(SourceCalls(TRUE), {})
    BY <1>2 DEF SourceDone, SourceContext
  <2>2. AsksFor("source", f)
    BY <2>1 DEF AsksFor, Effect
  <2>3. FlowWith(L)'
    BY <1>2, SourceFlows
  <2> QED BY <1>1, <1>2, <2>2, <2>3, HandledScripts
<1>3. CASE SourceInit
  <2>1. Calls("source", "init")
    BY <1>3 DEF SourceInit
  <2>2. PICK opened \in BOOLEAN : Handled("source", Source!Init(context.source, opened))
    BY <1>3, RtspIs DEF SourceInit
  <2>3. SourceDone(video, context.source, Source!Init(context.source, opened))
    BY <1>1, SourceInitDone
  <2> QED BY <1>2, <2>1, <2>2, <2>3
<1>4. CASE SourceStart
  <2>1. Calls("source", "start") /\ Handled("source", Source!Start(context.source, video))
    BY <1>4, RtspIs DEF SourceStart
  <2>2. SourceDone(video, context.source, Source!Start(context.source, video))
    BY <1>1, SourceStartDone
  <2> QED BY <1>2, <2>1, <2>2
<1>5. CASE SourceNext
  <2>1. /\ Calls("source", "next")
        /\ Handled("source", Source!Next(context.source, Job("source").amount))
    BY <1>5, RtspIs DEF SourceNext
  <2>2. SourceDone(video, context.source, Source!Next(context.source, Job("source").amount))
    BY <1>1, <2>1, AskedAmounts, SourceNextDone
  <2> QED BY <1>2, <2>1, <2>2
<1> QED BY <1>3, <1>4, <1>5 DEF SourceThread

(* The jobs of the frame stage.                                            *)
LEMMA FrameStageFlows ==
    ASSUME NEW L, TypeInv, StartInv, FlowWith(L), ScriptsInv,
           \/ FrameInit \/ FrameParams \/ FrameStart \/ FrameFinish
           \/ FrameProcess \/ FrameNext \/ FrameEvaluated \/ FrameEvaluationFailed
    PROVE  FlowWith(L)' /\ ScriptsInv'
<1> DEFINE c == context.frame
           A == Passing(End(context.source))
<1>1. /\ c \in FrameContext(BOOLEAN, TRUE) /\ c.eff = NoEffects
      /\ Settled(c.sdh, A) /\ A \in SUBSET FrameType
  BY ContextsTyped, HandlersSettled
<1>2. ASSUME NEW op, op # "process", op # "evaluated", Calls("frame", op), NEW f, Handled("frame", f),
             NEW report, FrameDone(c, f, A, report)
      PROVE  FlowWith(L)' /\ ScriptsInv'
  BY <1>2, FrameQuiet
<1>3. /\ FrameDone(c, FrameStage!Init(c), A, "none")
      /\ FrameDone(c, FrameStage!Params(c), A, "none")
      /\ FrameDone(c, FrameStage!Start(c), A, "none")
      /\ FrameDone(c, FrameStage!Finish(c), A, "none")
      /\ \A n \in 0 .. MaxOut : FrameDone(c, FrameStage!Next(c, n), A, "none")
      /\ FrameDone(c, FrameStage!EvaluationFailed(c), A, "failed")
  BY <1>1, FrameJobsDone
<1> HIDE DEF A
<1>4. CASE FrameInit
  <2>1. Calls("frame", "init") /\ Handled("frame", FrameStage!Init(c))
    BY <1>4 DEF FrameInit
  <2> QED BY <1>2, <1>3, <2>1
<1>5. CASE FrameParams
  <2>1. Calls("frame", "params") /\ Handled("frame", FrameStage!Params(c))
    BY <1>5 DEF FrameParams
  <2> QED BY <1>2, <1>3, <2>1
<1>6. CASE FrameStart
  <2>1. Calls("frame", "start") /\ Handled("frame", FrameStage!Start(c))
    BY <1>6 DEF FrameStart
  <2> QED BY <1>2, <1>3, <2>1
<1>7. CASE FrameFinish
  <2>1. Calls("frame", "finish") /\ Handled("frame", FrameStage!Finish(c))
    BY <1>7 DEF FrameFinish
  <2> QED BY <1>2, <1>3, <2>1
<1>8. CASE FrameNext
  <2>1. Calls("frame", "next") /\ Handled("frame", FrameStage!Next(c, Job("frame").amount))
    BY <1>8 DEF FrameNext
  <2>2. Job("frame").amount \in 0 .. MaxOut
    BY <2>1, AskedAmounts
  <2> QED BY <1>2, <1>3, <2>1, <2>2
<1>9. CASE FrameEvaluationFailed
  <2>1. Calls("frame", "failed") /\ Handled("frame", FrameStage!EvaluationFailed(c))
    BY <1>9 DEF FrameEvaluationFailed
  <2> QED BY <1>2, <1>3, <2>1
<1> QED BY <1>4, <1>5, <1>6, <1>7, <1>8, <1>9, FrameProcessFlows, FrameEvaluatedFlows

(* The jobs of the inter-frame stage.                                      *)
LEMMA InterStageFlows ==
    ASSUME NEW L, TypeInv, StartInv, FlowWith(L), ScriptsInv,
           \/ InterframeInit \/ InterframeParams \/ InterframeStart
           \/ InterframeProcess \/ InterframeNext
           \/ InterframeEvaluated \/ InterframeEvaluationFailed
    PROVE  FlowWith(L)' /\ ScriptsInv'
<1> DEFINE c == context.interframe
           A == Pairs(End(context.source))
<1>1. /\ c \in InterContext(BOOLEAN, TRUE) /\ c.eff = NoEffects
      /\ Settled(c.sdh, A) /\ A \in SUBSET FrameType
  BY ContextsTyped, HandlersSettled
<1>2. ASSUME NEW op, op # "process", op # "evaluated", Calls("interframe", op), NEW f, Handled("interframe", f),
             NEW report, InterDone(c, f, A, report)
      PROVE  FlowWith(L)' /\ ScriptsInv'
  BY <1>2, InterQuiet
<1>3. /\ InterDone(c, InterStage!Common!Init(c), A, "none")
      /\ InterDone(c, InterStage!Common!Params(c), A, "none")
      /\ InterDone(c, InterStage!Common!Start(c), A, "none")
      /\ \A n \in 0 .. MaxWrite : InterDone(c, InterStage!Common!Next(c, n), A, "none")
      /\ InterDone(c, InterStage!Common!EvaluationFailed(c), A, "failed")
  BY <1>1, InterJobsDone
<1> HIDE DEF A
<1>4. CASE InterframeInit
  <2>1. Calls("interframe", "init") /\ Handled("interframe", InterStage!Common!Init(c))
    BY <1>4, InterStageIs DEF InterframeInit
  <2> QED BY <1>2, <1>3, <2>1
<1>5. CASE InterframeParams
  <2>1. Calls("interframe", "params") /\ Handled("interframe", InterStage!Common!Params(c))
    BY <1>5, InterStageIs DEF InterframeParams
  <2> QED BY <1>2, <1>3, <2>1
<1>6. CASE InterframeStart
  <2>1. Calls("interframe", "start") /\ Handled("interframe", InterStage!Common!Start(c))
    BY <1>6, InterStageIs DEF InterframeStart
  <2> QED BY <1>2, <1>3, <2>1
<1>7. CASE InterframeNext
  <2>1. Calls("interframe", "next") /\ Handled("interframe", InterStage!Common!Next(c, Job("interframe").amount))
    BY <1>7, InterStageIs DEF InterframeNext
  <2>2. Job("interframe").amount \in 0 .. MaxWrite
    BY <2>1, AskedAmounts
  <2> QED BY <1>2, <1>3, <2>1, <2>2
<1>8. CASE InterframeEvaluationFailed
  <2>1. Calls("interframe", "failed") /\ Handled("interframe", InterStage!Common!EvaluationFailed(c))
    BY <1>8, InterStageIs DEF InterframeEvaluationFailed
  <2> QED BY <1>2, <1>3, <2>1
<1> QED BY <1>4, <1>5, <1>6, <1>7, <1>8, InterProcessFlows, InterEvaluatedFlows

(* The jobs of the sink.                                                   *)
LEMMA SinkThreadFlows ==
    ASSUME NEW L, TypeInv, StartInv, FlowWith(L), ScriptsInv, SinkThread
    PROVE  FlowWith(L)' /\ ScriptsInv'
<1> DEFINE c == context.sink
           A == Pairs(End(context.source))
<1>1. c \in SinkContext(BOOLEAN) /\ Settled(c.sdh, A) /\ A \in SUBSET FrameType
  BY ContextsTyped, HandlersSettled
<1>2. ASSUME NEW op, op # "process", Calls("sink", op), NEW f, Handled("sink", f), SinkDone(c, f, A)
      PROVE  FlowWith(L)' /\ ScriptsInv'
  BY <1>2, SinkQuiet
<1>3. ASSUME NEW op, Calls("sink", op) PROVE Job("sink").load \in Seq(FrameType)
  BY <1>3, JobOfStage DEF Stage
<1>4. /\ SinkDone(c, Sink!Init(c), A)
      /\ SinkDone(c, Sink!Params(c), A)
      /\ SinkDone(c, Sink!Start(c), A)
      /\ \A load \in Seq(FrameType) : SinkDone(c, Sink!FramesWritten(c, load), A) /\ SinkDone(c, Sink!LastWritten(c, load), A)
      /\ SinkDone(c, Sink!WriteFailed(c), A)
  BY <1>1, SinkJobsDone
<1> HIDE DEF A
<1>5. CASE SinkInit
  <2>1. Calls("sink", "init") /\ Handled("sink", Sink!Init(c))
    BY <1>5 DEF SinkInit
  <2> QED BY <1>2, <1>4, <2>1
<1>6. CASE SinkParams
  <2>1. Calls("sink", "params") /\ Handled("sink", Sink!Params(c))
    BY <1>6 DEF SinkParams
  <2> QED BY <1>2, <1>4, <2>1
<1>7. CASE SinkStart
  <2>1. Calls("sink", "start") /\ Handled("sink", Sink!Start(c))
    BY <1>7 DEF SinkStart
  <2> QED BY <1>2, <1>4, <2>1
<1>8. CASE SinkFramesWritten
  <2>1. Calls("sink", "framesWritten") /\ Handled("sink", Sink!FramesWritten(c, Job("sink").load))
    BY <1>8 DEF SinkFramesWritten
  <2> QED BY <1>2, <1>3, <1>4, <2>1
<1>9. CASE SinkLastWritten
  <2>1. Calls("sink", "lastWritten") /\ Handled("sink", Sink!LastWritten(c, Job("sink").load))
    BY <1>9 DEF SinkLastWritten
  <2> QED BY <1>2, <1>3, <1>4, <2>1
<1>10. CASE SinkWriteFailed
  <2>1. Calls("sink", "writeFailed") /\ Handled("sink", Sink!WriteFailed(c))
    BY <1>10 DEF SinkWriteFailed
  <2> QED BY <1>2, <1>4, <2>1
<1> QED BY <1>5, <1>6, <1>7, <1>8, <1>9, <1>10, SinkProcessFlows DEF SinkThread
-----------------------------------------------------------------------------
(* Steps that neither deliver frames nor return results.                   *)
CalmCall(m) == m \in AllCalls /\ \A s \in Stage : m \notin Deliveries(s) /\ m \notin Returns(s)

CalmQueue(q, r) ==
    \A t \in {"processors", "sink"}, s \in Stage :
        Same(q[t], r[t], Deliveries(s)) /\ Same(q[t], r[t], Returns(s))

LEMMA SameAfterAll ==
    ASSUME NEW q \in Queues(AllCalls), NEW m \in AllCalls, NEW M, m \notin M, NEW t \in Thread
    PROVE  Same(q[t], Posted(q, m)[t], M)
<1>1. q[t] \in Seq(CallType) /\ m \in CallType /\ DOMAIN q = Thread
  BY CallsTyped DEF Queues
<1>2. <<m>> \in Seq(CallType) /\ DOMAIN <<m>> = {1} /\ <<m>>[1] = m /\ Append(q[t], m) = q[t] \o <<m>>
  BY <1>1, OneMoreCall
<1>3. Posted(q, m)[t] = q[t] \/ Posted(q, m)[t] = Append(q[t], m)
  BY <1>1 DEF Posted
<1>4. Same(q[t], q[t], M)
  BY DEF Same
<1>5. Same(q[t], q[t] \o <<m>>, M)
  BY <1>1, <1>2, SameBehind
<1> QED BY <1>2, <1>3, <1>4, <1>5

LEMMA CalmQueues ==
    /\ \A q \in Queues(AllCalls) : \A m : CalmCall(m) =>
          Posted(q, m) \in Queues(AllCalls) /\ CalmQueue(q, Posted(q, m))
    /\ \A q : CalmQueue(q, q)
    /\ \A a, b, c : CalmQueue(a, b) /\ CalmQueue(b, c) => CalmQueue(a, c)
<1>1. ASSUME NEW q \in Queues(AllCalls), NEW m, CalmCall(m)
      PROVE  Posted(q, m) \in Queues(AllCalls) /\ CalmQueue(q, Posted(q, m))
  <2>1. m \in AllCalls /\ AllCalls \in SUBSET AllCalls /\ "processors" \in Thread /\ "sink" \in Thread
    BY <1>1 DEF CalmCall, Thread
  <2>2. Posted(q, m) \in Queues(AllCalls)
    BY <2>1, PostedTyped
  <2>3. ASSUME NEW t \in {"processors", "sink"}, NEW s \in Stage
        PROVE  Same(q[t], Posted(q, m)[t], Deliveries(s)) /\ Same(q[t], Posted(q, m)[t], Returns(s))
    BY <1>1, <2>1, SameAfterAll DEF CalmCall
  <2> QED BY <2>2, <2>3 DEF CalmQueue
<1>2. ASSUME NEW q PROVE CalmQueue(q, q)
  BY DEF CalmQueue, Same
<1>3. ASSUME NEW a, NEW b, NEW c, CalmQueue(a, b), CalmQueue(b, c) PROVE CalmQueue(a, c)
  BY <1>3, SameStream DEF CalmQueue
<1> QED BY <1>1, <1>2, <1>3

LEMMA CalmCalls ==
    /\ \A s \in Stage : CalmCall(Call(s, "init")) /\ CalmCall(Call(s, "start"))
    /\ \A load \in Seq(FrameType) : \A op \in {"framesWritten", "lastWritten", "writeFailed"} :
          CalmCall(CallWith("sink", op, load))
<1>1. \A m, s, op : Is(m, s, op) /\ op # "process" /\ op # "evaluated" => CalmCall(m)
  BY DEF Is, CalmCall, Deliveries, Returns
<1>2. \A s \in Stage : Is(Call(s, "init"), s, "init") /\ Is(Call(s, "start"), s, "start")
  BY CallsMade
<1>3. \A load \in Seq(FrameType) : /\ Is(CallWith("sink", "framesWritten", load), "sink", "framesWritten")
                                   /\ Is(CallWith("sink", "lastWritten", load), "sink", "lastWritten")
                                   /\ Is(CallWith("sink", "writeFailed", load), "sink", "writeFailed")
  BY CallsMade
<1> QED BY <1>1, <1>2, <1>3

LEMMA CalmDequeued ==
    ASSUME TypeInv, NEW s \in {"pipeline", "writer"}, NEW op, Calls(s, op)
    PROVE  CalmQueue(queue, Dequeued(s)) /\ Dequeued(s) \in Queues(AllCalls)
<1>1. s \in Callee /\ ThreadOf(s) \notin {"processors", "sink"}
  BY DEF Callee, ThreadOf
<1>2. Dequeued(s) \in Queues(AllCalls) /\ AllCalls \in SUBSET AllCalls /\ DOMAIN queue = Thread
  BY <1>1, JobTyped DEF TypeInv, Queues
<1>3. \A t \in {"processors", "sink"} : Dequeued(s)[t] = queue[t]
  BY <1>1, <1>2 DEF Dequeued, Thread
<1> QED BY <1>2, <1>3 DEF CalmQueue, Same

(* What the flow says of the inter-frame stage.                            *)
InterRests(c, d) == d.sdh = c.sdh /\ d.buffer = c.buffer /\ d.nextFrame = c.nextFrame /\ d.created = c.created

LEMMA FlowsCalm ==
    ASSUME NEW L, FlowWith(L), CalmQueue(queue, queue'), video' = video,
           context'.source = context.source, context'.frame.sdh = context.frame.sdh,
           InterRests(context.interframe, context'.interframe), context'.sink = context.sink,
           images'.evaluating = images.evaluating
    PROVE  FlowWith(L)'
<1> DEFINE z == End(context.source)
           p == queue["processors"]
           q == queue'["processors"]
<1>1. \A s : Pending(L, s)' = Pending(L, s)
  BY DEF Evaluating, Pending
<1>2. /\ Same(p, q, Deliveries("frame")) /\ Same(p, q, Returns("frame"))
      /\ Same(p, q, Deliveries("interframe")) /\ Same(p, q, Returns("interframe"))
      /\ Same(queue["sink"], queue'["sink"], Deliveries("sink"))
  BY DEF CalmQueue, Stage
<1>3. FramePart(queue', context', Pending(L, "frame")')
  <2>1. FrameFlow(p, Handed(context.source.sdh), Pending(L, "frame"), context.frame.sdh, z)
    BY FlowParts DEF FramePart
  <2>2. FrameFlow(q, Handed(context.source.sdh), Pending(L, "frame"), context.frame.sdh, z)
    BY <1>2, <2>1, FlowsKept
  <2> QED BY <1>1, <2>2 DEF FramePart
<1>4. InterPart(queue', context', Pending(L, "interframe")')
  <2>1. InterFlow(p, Handed(context.frame.sdh), Pending(L, "interframe"), context.interframe, z)
    BY FlowParts DEF InterPart
  <2>2. InterFlow(q, Handed(context.frame.sdh), Pending(L, "interframe"), context.interframe, z)
    BY <1>2, <2>1, FlowsKept
  <2> HIDE DEF z, q
  <2>3. InterFlow(q, Handed(context.frame.sdh), Pending(L, "interframe"), context'.interframe, z)
    BY <2>2 DEF InterFlow, InterRests, Buffered
  <2> QED BY <1>1, <2>3 DEF InterPart, z, q
<1>5. SinkPart(queue', context')
  <2>1. SinkFlow(queue["sink"], Handed(context.interframe.sdh), context.sink.sdh, z)
    BY FlowParts DEF SinkPart
  <2>2. SinkFlow(queue'["sink"], Handed(context.interframe.sdh), context.sink.sdh, z)
    BY <1>2, <2>1, FlowsKept
  <2> QED BY <2>2 DEF SinkPart, InterRests
<1>6. SourceFlow(video, context.source)
  BY FlowParts
<1> QED BY <1>3, <1>4, <1>5, <1>6, FlowPartsNext

(* A step that leaves the stages and the evaluations alone.                *)
LEMMA StagesRest ==
    ASSUME NEW L, FlowWith(L), ScriptsInv, CalmQueue(queue, queue'), UNCHANGED <<video, context>>,
           images'.evaluating = images.evaluating, Reliable => images'.scripts = images.scripts
    PROVE  FlowWith(L)' /\ ScriptsInv'
<1>1. FlowWith(L)'
  BY FlowsCalm DEF InterRests
<1>2. ScriptsInv'
  BY DEF ScriptsInv, Reliable
<1> QED BY <1>1, <1>2

(* The launch and the start of the stages.                                 *)
LEMMA PipelineThreadFlows ==
    ASSUME NEW L, TypeInv, FlowWith(L), ScriptsInv, PipelineThread
    PROVE  FlowWith(L)' /\ ScriptsInv'
<1>1. queue \in Queues(AllCalls) /\ pipeline.launched \in 0 .. 4
  BY DEF TypeInv
<1>2. /\ Len(StageOrder) = 4
      /\ \A n \in 1 .. 4 : CalmCall(Call(StageOrder[n], "init")) /\ CalmCall(Call(StageOrder[n], "start"))
  <2>1. \A n \in 1 .. 4 : StageOrder[n] \in Stage
    BY DEF StageOrder, Stage
  <2> QED BY <2>1, CalmCalls DEF StageOrder
<1>3. CASE Launch
  <2>1. pipeline.launched + 1 \in 1 .. 4
    BY <1>1, <1>2, <1>3 DEF Launch
  <2>2. queue' = Posted(queue, Call(StageOrder[pipeline.launched + 1], "init"))
    BY <1>3 DEF Launch
  <2>3. CalmQueue(queue, queue')
    BY <1>1, <1>2, <2>1, <2>2, CalmQueues
  <2> QED BY <1>3, <2>3, StagesRest DEF Launch
<1>4. CASE StageInitialized
  <2> DEFINE d == Dequeued("pipeline")
  <2>1. Calls("pipeline", "initialized")
    BY <1>4 DEF StageInitialized
  <2>2. CalmQueue(queue, d) /\ d \in Queues(AllCalls)
    BY <2>1, CalmDequeued
  <2> HIDE DEF d
  <2>3. ASSUME NEW q \in Queues(AllCalls), CalmQueue(queue, q), NEW n \in 1 .. 4
        PROVE  StartPosted(q, n) \in Queues(AllCalls) /\ CalmQueue(queue, StartPosted(q, n))
    <3>1. StartPosted(q, n) \in Queues(AllCalls) /\ CalmQueue(q, StartPosted(q, n))
      BY <1>2, CalmQueues DEF StartPosted
    <3> QED BY <2>3, <3>1, CalmQueues
  <2>4. CalmQueue(queue, AllStarted(d))
    BY <2>2, <2>3 DEF AllStarted
  <2>5. queue' = AllStarted(d) \/ queue' = d
    BY <1>4 DEF StageInitialized, d
  <2>6. CalmQueue(queue, queue')
    BY <2>2, <2>4, <2>5
  <2> QED BY <1>4, <2>6, StagesRest DEF StageInitialized
<1> QED BY <1>3, <1>4 DEF PipelineThread

(* The writer.                                                             *)
LEMMA WroteFlows ==
    ASSUME NEW L, TypeInv, FlowWith(L), ScriptsInv, NEW op \in {"framesWritten", "lastWritten", "writeFailed"},
           NEW e \in Encoder, NEW n \in 0 .. Len(e.held), NEW job, Calls("writer", job),
           Wrote(e, n, op)
    PROVE  FlowWith(L)' /\ ScriptsInv'
<1>1. CalmCall(CallWith("sink", op, Sink!EntriesOut(e, n)))
  BY EntriesOutTyped, CalmCalls
<1>2. CalmQueue(queue, Dequeued("writer")) /\ Dequeued("writer") \in Queues(AllCalls)
  BY CalmDequeued
<1>3. queue' = Posted(Dequeued("writer"), CallWith("sink", op, Sink!EntriesOut(e, n)))
  BY DEF Wrote
<1>4. CalmQueue(Dequeued("writer"), queue')
  BY <1>1, <1>2, <1>3, CalmQueues
<1>5. CalmQueue(queue, queue')
  BY <1>2, <1>4, CalmQueues
<1> QED BY <1>5, StagesRest DEF Wrote

LEMMA WriterThreadFlows ==
    ASSUME NEW L, TypeInv, FlowWith(L), ScriptsInv, WriterThread
    PROVE  FlowWith(L)' /\ ScriptsInv'
<1>1. encoder \in Encoder /\ 0 \in 0 .. Len(encoder.held) /\ Len(encoder.held) \in 0 .. Len(encoder.held)
  BY DEF TypeInv, Encoder
<1>2. CASE WriteFrames
  <2> DEFINE e == Sink!TakenIn(encoder, Job("writer").load)
  <2>1. Calls("writer", "frames") /\ Wrote(e, Sink!EntriesReady(e), "framesWritten")
    BY <1>2 DEF WriteFrames
  <2>2. /\ Made("writer", "frames", Job("writer").amount, Job("writer").load)
        /\ Job("writer").load \in Seq(FrameType)
    BY <2>1, JobTyped DEF TypeInv, Callee
  <2>3. ~HasFlush(Job("writer").load)
    BY <2>2 DEF Made
  <2>4. e \in Encoder
    BY <1>1, <2>2, <2>3, TakenInIs
  <2> HIDE DEF e
  <2>5. Sink!EntriesReady(e) \in 0 .. Len(e.held)
    BY <2>4, EntriesReadyTyped
  <2> QED BY <2>1, <2>4, <2>5, WroteFlows
<1>3. CASE WriteLastFrames
  BY <1>1, <1>3, WroteFlows DEF WriteLastFrames
<1>4. CASE WriteRefused
  <2>1. Wrote(encoder, 0, "writeFailed") /\ encoder \in Encoder /\ 0 \in 0 .. Len(encoder.held)
    BY <1>1, <1>4 DEF WriteRefused
  <2>2. CASE Calls("writer", "frames")
    BY <2>1, <2>2, WroteFlows
  <2>3. CASE Calls("writer", "last")
    BY <2>1, <2>3, WroteFlows
  <2> QED BY <1>4, <2>2, <2>3 DEF WriteRefused
<1> QED BY <1>2, <1>3, <1>4 DEF WriterThread
-----------------------------------------------------------------------------
(* The end of a compilation.                                               *)
CompiledKeeps(c, d, ok, id) ==
    /\ d.sdh = c.sdh /\ d.framesId = (IF ok THEN id ELSE 0)
    /\ d.eff.calls \in Queues(ToPipeline)

LEMMA CompiledRests ==
    ASSUME NEW ok \in BOOLEAN, NEW id
    PROVE  /\ \A c \in FrameContext(BOOLEAN, TRUE) :
                 c.eff = NoEffects => CompiledKeeps(c, FrameStage!Compiled(c, ok, id), ok, id)
           /\ \A c \in InterContext(BOOLEAN, TRUE) :
                 c.eff = NoEffects => /\ CompiledKeeps(c, InterStage!Compiled(c, ok, id), ok, id)
                                      /\ InterRests(c, InterStage!Compiled(c, ok, id))
<1>1. ASSUME NEW c \in FrameContext(BOOLEAN, TRUE), c.eff = NoEffects
      PROVE  CompiledKeeps(c, FrameStage!Compiled(c, ok, id), ok, id)
  <2> DEFINE d == FrameStage!Compiled(c, ok, id)
             s == FrameStage!Send([c EXCEPT !.script = "ready", !.framesId = id], FrameStage!Call("pipeline", "initialized"))
  <2>1. d.eff.calls \in Queues(ToPipeline)
    BY <1>1, CompiledPosts
  <2>2. d = IF ok THEN s ELSE [c EXCEPT !.script = "failed", !.framesId = 0]
    BY DEF FrameStage!Compiled
  <2>3. s.sdh = c.sdh /\ s.framesId = id
    BY DEF FrameStage!Send, FrameContext
  <2> HIDE DEF s, d
  <2>4. d.sdh = c.sdh /\ d.framesId = IF ok THEN id ELSE 0
    BY <2>2, <2>3 DEF FrameContext
  <2> QED BY <2>1, <2>4 DEF CompiledKeeps, d
<1>2. ASSUME NEW c \in InterContext(BOOLEAN, TRUE), c.eff = NoEffects
      PROVE  /\ CompiledKeeps(c, InterStage!Compiled(c, ok, id), ok, id)
             /\ InterRests(c, InterStage!Compiled(c, ok, id))
  <2> DEFINE d == InterStage!Compiled(c, ok, id)
             s == InterStage!Common!Send([c EXCEPT !.script = "ready", !.framesId = id], InterStage!Common!Call("pipeline", "initialized"))
             x == [c EXCEPT !.script = "failed", !.framesId = 0]
             y == InterStage!Report(x, "failed")
  <2>1. d.eff.calls \in Queues(ToPipeline)
    BY <1>2, CompiledPosts
  <2>2. d = IF ok THEN s ELSE y
    BY DEF InterStage!Compiled, InterStage!Common!Compiled
  <2>3. s.sdh = c.sdh /\ s.framesId = id /\ s.buffer = c.buffer /\ s.nextFrame = c.nextFrame /\ s.created = c.created
    BY DEF InterStage!Common!Send, InterContext
  <2>4. /\ x.sdh = c.sdh /\ x.framesId = 0 /\ x.buffer = c.buffer /\ x.nextFrame = c.nextFrame /\ x.created = c.created
        /\ y = [x EXCEPT !.eff.report = "failed"] /\ x \in InterContext(BOOLEAN, TRUE)
    BY DEF InterContext, InterStage!Report, Scripting
  <2> HIDE DEF s, d, x
  <2>5. y.sdh = c.sdh /\ y.framesId = 0 /\ y.buffer = c.buffer /\ y.nextFrame = c.nextFrame /\ y.created = c.created
    BY <2>4 DEF InterContext
  <2> HIDE DEF y
  <2>6. /\ d.sdh = c.sdh /\ d.framesId = IF ok THEN id ELSE 0
        /\ InterRests(c, d)
    BY <2>2, <2>3, <2>5 DEF InterRests
  <2> QED BY <2>1, <2>6 DEF CompiledKeeps, d
<1> QED BY <1>1, <1>2

LEMMA ScriptKnown ==
    ASSUME ScriptsInv, Reliable, NEW s \in {"frame", "interframe"}
    PROVE  Knows(s) /\ NumberOf(s) \in {0, 1}
<1>1. images.scripts = <<"frame", "interframe">>
  BY DEF ScriptsInv
<1>2. DOMAIN images.scripts = {1, 2} /\ images.scripts[1] = "frame" /\ images.scripts[2] = "interframe"
  BY <1>1
<1>3. \E i \in {1, 2} : images.scripts[i] = s
  BY <1>2
<1>4. Knows(s)
  BY <1>2, <1>3 DEF Knows, Range
<1>5. (CHOOSE i \in {1, 2} : images.scripts[i] = s) \in {1, 2}
  BY <1>3
<1>6. NumberOf(s) = (CHOOSE i \in {1, 2} : images.scripts[i] = s) - 1
  BY <1>2, <1>4 DEF NumberOf
<1> QED BY <1>4, <1>5, <1>6

LEMMA ContinueFlows ==
    ASSUME NEW L, TypeInv, FlowWith(L), ScriptsInv, NEW s \in {"frame", "interframe"}, NEW d, Continue(s, d), NEW ok \in BOOLEAN,
           CompiledKeeps(context[s], d, ok, NumberOf(s)),
           \/ s = "frame" /\ d \in FrameContext(BOOLEAN, TRUE)
           \/ /\ s = "interframe" /\ d \in InterContext(BOOLEAN, TRUE)
              /\ InterRests(context.interframe, d)
    PROVE  FlowWith(L)' /\ ScriptsInv'
<1>1. /\ context' = [context EXCEPT ![s] = Forgets(d)] /\ queue' = Post(queue, d.eff.calls)
      /\ UNCHANGED <<video, images>>
  BY DEF Continue, Effects, Forgets
<1>2. /\ DOMAIN context = Stage /\ queue \in Queues(AllCalls) /\ s \in Stage
  BY DEF TypeInv, Contexts, Stage
<1>3. context'[s] = Forgets(d) /\ \A r \in Stage : r # s => context'[r] = context[r]
  BY <1>1, <1>2
<1>4. CalmQueue(queue, queue')
  <2>1. ASSUME NEW t \in {"processors", "sink"}, NEW r \in Stage
        PROVE  /\ Same(queue[t], queue'[t], Deliveries(r)) /\ Same(queue[t], queue'[t], Returns(r))
    <3>1. t \in Thread /\ queue[t] \in Seq(CallType) /\ d.eff.calls[t] \in Seq(CallType)
          /\ \A i \in DOMAIN d.eff.calls[t] : d.eff.calls[t][i] \in ToPipeline
      <4>1. t \in Thread /\ ToPipeline \in SUBSET AllCalls /\ d.eff.calls \in Queues(ToPipeline)
            /\ AllCalls \in SUBSET AllCalls
        BY DEF Thread, CompiledKeeps, ToPipeline
      <4> QED BY <1>2, <4>1, QueueCalls
    <3>2. queue'[t] = queue[t] \o d.eff.calls[t]
      BY <1>1, <3>1 DEF Post
    <3>3. \A m \in ToPipeline : m \notin Deliveries(r) /\ m \notin Returns(r)
      BY DEF ToPipeline, Deliveries, Returns, Stage
    <3> QED BY <3>1, <3>2, <3>3, SameBehind
  <2> QED BY <2>1 DEF CalmQueue
<1>5. /\ context'.source = context.source /\ context'.sink = context.sink
      /\ context'.frame.sdh = context.frame.sdh /\ InterRests(context.interframe, context'.interframe)
  <2>1. CASE s = "frame"
    <3>1. Forgets(d).sdh = context.frame.sdh
      BY <2>1, Forgetting DEF FrameLeft, CompiledKeeps
    <3> QED BY <1>3, <2>1, <3>1 DEF Stage, InterRests
  <2>2. CASE s = "interframe"
    <3>1. InterRests(context.interframe, Forgets(d))
      BY <2>2, Forgetting DEF InterLeft, InterRests
    <3> QED BY <1>3, <2>2, <3>1 DEF Stage
  <2> QED BY <2>1, <2>2
<1>6. FlowWith(L)'
  BY <1>1, <1>4, <1>5, FlowsCalm
<1>7. ScriptsInv'
  <2> SUFFICES ASSUME Reliable
               PROVE  /\ images'.scripts = <<"frame", "interframe">>
                      /\ context'.frame.framesId \in {0, 1} /\ context'.interframe.framesId \in {0, 1}
                      /\ \A j \in images'.evaluating : j.script \in {0, 1}
    BY DEF ScriptsInv, Reliable
  <2>1. Forgets(d).framesId \in {0, 1}
    <3>1. Forgets(d).framesId = d.framesId
      BY Forgetting DEF FrameLeft, InterLeft
    <3> QED BY <3>1, ScriptKnown DEF CompiledKeeps
  <2> QED BY <1>1, <1>3, <2>1 DEF ScriptsInv, Stage
<1> QED BY <1>6, <1>7

(* Compilations.                                                           *)
LEMMA CompilationFlows ==
    ASSUME NEW L, TypeInv, FlowWith(L), ScriptsInv,
           FrameCompiled \/ InterframeCompiled \/ \E s \in {"frame", "interframe"} : Compile(s)
    PROVE  FlowWith(L)' /\ ScriptsInv'
<1>1. /\ context.frame \in FrameContext(BOOLEAN, TRUE) /\ context.frame.eff = NoEffects
      /\ context.interframe \in InterContext(BOOLEAN, TRUE) /\ context.interframe.eff = NoEffects
  BY ContextsTyped
<1>2. \A s : NumberOf(s) \in Nat
  BY NumberOfTyped
<1>3. ASSUME NEW s \in {"frame", "interframe"}, Compile(s) PROVE FlowWith(L)' /\ ScriptsInv'
  <2>1. UNCHANGED <<video, context, queue>>
    BY <1>3 DEF Compile
  <2>2. CalmQueue(queue, queue')
    BY <2>1, CalmQueues
  <2>3. images'.evaluating = images.evaluating /\ (Knows(s) => images'.scripts = images.scripts)
    BY <1>3 DEF Compile, TypeInv, ImagesType
  <2>4. Reliable => images'.scripts = images.scripts
    BY <2>3, ScriptKnown
  <2> QED BY <2>1, <2>2, <2>3, <2>4, StagesRest
<1>4. CASE FrameCompiled
  <2> DEFINE ok == images.compiled.frame = "yes"
             d == FrameStage!Compiled(context.frame, ok, NumberOf("frame"))
  <2>1. d \in FrameContext(BOOLEAN, TRUE) /\ CompiledKeeps(context.frame, d, ok, NumberOf("frame"))
    BY <1>1, <1>2, FrameStepsTyped, CompiledRests
  <2>2. Continue("frame", d)
    BY <1>4 DEF FrameCompiled
  <2> HIDE DEF d
  <2> QED BY <2>1, <2>2, ContinueFlows
<1>5. CASE InterframeCompiled
  <2> DEFINE ok == images.compiled.interframe = "yes"
             d == InterStage!Compiled(context.interframe, ok, NumberOf("interframe"))
  <2>1. /\ d \in InterContext(BOOLEAN, TRUE) /\ CompiledKeeps(context.interframe, d, ok, NumberOf("interframe"))
        /\ InterRests(context.interframe, d)
    BY <1>1, <1>2, InterCompiledTyped, CompiledRests
  <2>2. Continue("interframe", d)
    BY <1>5 DEF InterframeCompiled
  <2> HIDE DEF d
  <2> QED BY <2>1, <2>2, ContinueFlows
<1> QED BY <1>3, <1>4, <1>5
-----------------------------------------------------------------------------
(* The end of an evaluation.                                               *)
Ends(m, job) ==
    /\ m \in AllCalls /\ m.callee = job.stage
    /\ \/ m.op = "failed" /\ ~Reliable
       \/ m.op = "evaluated" /\ \E script : m.load = <<Frame(job.number, Result(script, job.images))>>

LEMMA EvaluationEnds ==
    ASSUME TypeInv, ScriptsInv, NEW job \in images.evaluating, EvaluationDone(job)
    PROVE  \E m : Ends(m, job) /\ queue' = Posted(queue, m)
<1>1. /\ job \in JobType /\ job.images # <<>> /\ job.stage \in {"frame", "interframe"}
      /\ job.number \in Nat /\ job.images \in Seq(Nat) /\ job.script \in Nat
  BY DEF TypeInv, ImagesType, Jobs, JobType
<1>2. CASE \E script :
              queue' = Posted(queue, CallWith(job.stage, "evaluated", <<Frame(job.number, Result(script, job.images))>>))
  <2>1. PICK script :
              queue' = Posted(queue, CallWith(job.stage, "evaluated", <<Frame(job.number, Result(script, job.images))>>))
    BY <1>2
  <2> DEFINE im == Result(script, job.images)
             f == Frame(job.number, im)
             m == CallWith(job.stage, "evaluated", <<f>>)
  <2>2. im \in Seq(Nat)
    <3>1. Len(job.images) \in Nat /\ Len(job.images) >= 1
      BY <1>1
    <3>2. SubSeq(job.images, 1, 1) \in Seq(Nat)
      <4>1. \A i \in 1 .. 1 : job.images[i] \in Nat
        BY <1>1, <3>1
      <4> QED BY <4>1, SubSeqProperties
    <3> QED BY <1>1, <3>2 DEF Result
  <2> HIDE DEF im
  <2>3. f \in FrameType
    BY <1>1, <2>2 DEF Frame, FrameType
  <2> HIDE DEF f
  <2>4. <<f>> \in Seq(FrameType) /\ Len(<<f>>) = 1
    BY <2>3
  <2>5. Is(m, job.stage, "evaluated")
    BY <1>1, <2>4, CallsMade
  <2>6. m.load = <<f>>
    BY DEF CallWith, Call
  <2> HIDE DEF m
  <2>7. \E x : m.load = <<Frame(job.number, Result(x, job.images))>>
    BY <2>6 DEF f, im
  <2>8. Ends(m, job)
    BY <2>5, <2>7 DEF Is, Ends
  <2> QED BY <2>1, <2>8 DEF m, f, im
<1>3. CASE queue' = [queue EXCEPT !.processors = @ \o FailedCalls(job)] /\ ~Reliable
  <2> DEFINE m == Call(job.stage, "failed")
  <2>1. Is(m, job.stage, "failed")
    BY <1>1, CallsMade
  <2>2. ThreadOf(m.callee) = "processors"
    BY <1>1, <2>1 DEF Is, ThreadOf
  <2>3. queue["processors"] \in Seq(CallType)
    BY DEF TypeInv, Queues, Thread
  <2>4. m \in CallType
    BY <2>1 DEF Is, AllCalls
  <2>5. queue' = [queue EXCEPT !["processors"] = queue["processors"] \o <<m>>]
    BY <1>3 DEF FailedCalls
  <2> HIDE DEF m
  <2>6. queue["processors"] \o <<m>> = Append(queue["processors"], m)
    BY <2>3, <2>4
  <2>7. queue' = Posted(queue, m)
    BY <2>2, <2>5, <2>6 DEF Posted
  <2>8. Ends(m, job)
    BY <1>3, <2>1 DEF Is, Ends
  <2> QED BY <2>7, <2>8
<1>4. CASE queue' = [queue EXCEPT !.processors = @ \o FailedCalls(job)]
           /\ ("evaluate" \in Failures \/ job.script >= Len(images.scripts))
  <2>1. Reliable => job.script < Len(images.scripts)
    <3> SUFFICES ASSUME Reliable PROVE job.script < Len(images.scripts)
      OBVIOUS
    <3>1. images.scripts = <<"frame", "interframe">> /\ job.script \in {0, 1}
      BY DEF ScriptsInv
    <3>2. Len(<<"frame", "interframe">>) = 2
      OBVIOUS
    <3> QED BY <3>1, <3>2
  <2>2. Reliable => "evaluate" \notin Failures
    BY DEF Reliable
  <2>3. Len(images.scripts) \in Nat
    BY DEF TypeInv, ImagesType
  <2>4. ~Reliable
    BY <1>1, <1>4, <2>1, <2>2, <2>3
  <2> QED BY <1>3, <1>4, <2>4
<1> QED BY <1>2, <1>4 DEF EvaluationDone

(* Its stage.                                                              *)
LEMMA WorkEnds ==
    ASSUME NEW q \in Seq(CallType), NEW s, NEW J, NEW h, NEW A, \A f \in A : f.number \in Nat,
           NEW n, Working(q, s, J, h, A, n), NEW job \in J, job.stage = s,
           NEW m \in CallType, Ends(m, job)
    PROVE  Working(Append(q, m), s, J \ {job}, h, A, n)
<1> DEFINE k == job.number
           C == Carried(q, Returns(s))
           r == Append(q, m)
           N == NumbersOf(J)
<1>1. /\ JobsFit(J, A) /\ Answers(q, Returns(s), A) /\ Balanced(N, C, Seen(h), n) /\ Settled(h, A)
      /\ Reliable => Complete(N, C, Seen(h), n)
  BY DEF Working
<1>2. NumbersOf(J \ {job}) = N \ {k} /\ k \in N
  BY <1>1 DEF NumbersOf, JobsFit
<1>3. JobsFit(J \ {job}, A)
  BY <1>1 DEF JobsFit
<1>4. CASE m.op = "failed" /\ ~Reliable
  <2>1. m \notin Returns(s)
    BY <1>4 DEF Returns
  <2>2. <<m>> \in Seq(CallType) /\ DOMAIN <<m>> = {1} /\ <<m>>[1] = m /\ r = q \o <<m>>
    BY OneMoreCall
  <2>3. Same(q, r, Returns(s))
    BY <2>1, <2>2, SameBehind
  <2> HIDE DEF r
  <2>4. Answers(r, Returns(s), A) /\ Carried(r, Returns(s)) = C
    BY <1>1, <2>3 DEF Same
  <2> HIDE DEF C, k, N
  <2>5. Balanced(N \ {k}, C, Seen(h), n)
    BY <1>1, BalancedMoves
  <2>6. Working(r, s, J \ {job}, h, A, n)
    BY <1>1, <1>2, <1>3, <1>4, <2>4, <2>5 DEF Working
  <2> QED BY <2>6 DEF r
<1>5. CASE m.op = "evaluated" /\ \E script : m.load = <<Frame(k, Result(script, job.images))>>
  <2>1. m \in Returns(s)
    BY <1>5 DEF Ends, Returns
  <2>2. PICK script : m.load = <<Frame(k, Result(script, job.images))>>
    BY <1>5
  <2>3. Frame(k, Result(script, job.images)) \in A
    BY <1>1 DEF JobsFit
  <2>4. m.load[1] \in A /\ m.load[1].number = k
    BY <2>2, <2>3 DEF Frame
  <2>5. k \notin C
    BY <1>1, <1>2 DEF Balanced
  <2> HIDE DEF k
  <2>6. Answers(r, Returns(s), A) /\ Carried(r, Returns(s)) = C \union {k}
    BY <1>1, <2>1, <2>4, <2>5, OneResult, AnswersAppend
  <2> HIDE DEF r, C, N
  <2>7. /\ Balanced(N \ {k}, C \union {k}, Seen(h), n)
        /\ Reliable => Complete(N \ {k}, C \union {k}, Seen(h), n)
    BY <1>1, <1>2, BalancedMoves
  <2>8. Working(r, s, J \ {job}, h, A, n)
    BY <1>1, <1>2, <1>3, <2>6, <2>7 DEF Working
  <2> QED BY <2>8 DEF r
<1> QED BY <1>4, <1>5 DEF Ends

LEMMA EvaluationFlows ==
    ASSUME NEW L, L \intersect JobType = {}, TypeInv, FlowWith(L), ScriptsInv,
           NEW job \in images.evaluating, EvaluationDone(job)
    PROVE  FlowWith(L)' /\ ScriptsInv'
<1> DEFINE z == End(context.source)
           q == queue["processors"]
           r == queue'["processors"]
<1>1. PICK m : Ends(m, job) /\ queue' = Posted(queue, m)
  BY EvaluationEnds
<1>2. /\ images' = [images EXCEPT !.evaluating = @ \ {job}] /\ UNCHANGED <<video, context>>
      /\ images \in ImagesType /\ queue \in Queues(AllCalls)
  BY DEF EvaluationDone, TypeInv
<1>3. images'.evaluating = images.evaluating \ {job} /\ images'.scripts = images.scripts
  BY <1>2 DEF ImagesType
<1>4. /\ m \in AllCalls /\ m \in CallType /\ job.stage \in {"frame", "interframe"} /\ m.callee = job.stage
      /\ m.op # "process" /\ q \in Seq(CallType) /\ DOMAIN queue = Thread
  BY <1>1, <1>2, CallsTyped DEF Ends, ImagesType, Jobs, JobType, Queues, Thread
<1>5. ThreadOf(m.callee) = "processors" /\ "processors" \in Thread /\ "sink" \in Thread /\ "sink" # "processors"
  BY <1>4 DEF ThreadOf, Thread
<1>6. r = Append(q, m) /\ queue'["sink"] = queue["sink"]
  BY <1>1, <1>4, <1>5 DEF Posted
<1>7. \A M : m \notin M => Same(q, r, M)
  BY <1>1, <1>2, <1>4, <1>5, SameAfterAll
<1>8. /\ \A s : m \notin Deliveries(s)
      /\ \A s : s # job.stage => m \notin Returns(s)
  BY <1>4 DEF Deliveries, Returns
<1>9. /\ job \in Pending(L, job.stage) /\ Pending(L, job.stage)' = Pending(L, job.stage) \ {job}
      /\ \A s : s # job.stage => Pending(L, s)' = Pending(L, s)
  <2>1. job \notin L
    BY <1>2 DEF ImagesType, Jobs
  <2> QED BY <1>3, <2>1 DEF Evaluating, Pending
<1>10. (\A a \in Passing(z) : a.number \in Nat) /\ (\A a \in Pairs(z) : a.number \in Nat)
  BY FrameSets
<1>20. /\ FrameFlow(q, Handed(context.source.sdh), Pending(L, "frame"), context.frame.sdh, z)
       /\ InterFlow(q, Handed(context.frame.sdh), Pending(L, "interframe"), context.interframe, z)
       /\ SinkFlow(queue["sink"], Handed(context.interframe.sdh), context.sink.sdh, z)
       /\ SourceFlow(video, context.source)
  BY FlowParts DEF FramePart, InterPart, SinkPart
<1> HIDE DEF z, q, r
<1>11. FrameFlow(r, Handed(context.source.sdh), Pending(L, "frame")', context.frame.sdh, z)
  <2>1. CASE job.stage = "frame"
    <3>1. PICK n \in Nat : /\ Stream(q, Deliveries("frame"), n, Handed(context.source.sdh), Passing(z))
                           /\ Working(q, "frame", Pending(L, "frame"), context.frame.sdh, Passing(z), n)
      BY <1>20 DEF FrameFlow
    <3>2. Working(r, "frame", Pending(L, "frame") \ {job}, context.frame.sdh, Passing(z), n)
      BY <1>1, <1>4, <1>6, <1>9, <1>10, <2>1, <3>1, WorkEnds
    <3>3. Stream(r, Deliveries("frame"), n, Handed(context.source.sdh), Passing(z))
      BY <1>7, <1>8, <3>1, SameStream
    <3> QED BY <1>9, <2>1, <3>2, <3>3 DEF FrameFlow
  <2>2. CASE job.stage # "frame"
    BY <1>7, <1>8, <1>9, <1>20, <2>2, FlowsKept
  <2> QED BY <2>1, <2>2
<1>12. InterFlow(r, Handed(context.frame.sdh), Pending(L, "interframe")', context.interframe, z)
  <2>1. CASE job.stage = "interframe"
    <3>1. PICK n \in Nat : /\ Stream(q, Deliveries("interframe"), n, Handed(context.frame.sdh), Passing(z))
                           /\ Buffered(context.interframe, n, z)
                           /\ Working(q, "interframe", Pending(L, "interframe"), context.interframe.sdh, Pairs(z), n - 1)
      BY <1>20 DEF InterFlow
    <3> DEFINE k == n - 1
    <3>4. Working(q, "interframe", Pending(L, "interframe"), context.interframe.sdh, Pairs(z), k)
      BY <3>1
    <3> HIDE DEF k
    <3>2. Working(r, "interframe", Pending(L, "interframe") \ {job}, context.interframe.sdh, Pairs(z), k)
      BY <1>1, <1>4, <1>6, <1>9, <1>10, <2>1, <3>4, WorkEnds
    <3>3. Stream(r, Deliveries("interframe"), n, Handed(context.frame.sdh), Passing(z))
      BY <1>7, <1>8, <3>1, SameStream
    <3> QED BY <1>9, <2>1, <3>1, <3>2, <3>3 DEF InterFlow, k
  <2>2. CASE job.stage # "interframe"
    BY <1>7, <1>8, <1>9, <1>20, <2>2, FlowsKept
  <2> QED BY <2>1, <2>2
<1>13. FlowWith(L)'
  BY <1>2, <1>6, <1>11, <1>12, <1>20, FlowPartsNext DEF FramePart, InterPart, SinkPart, z, r
<1>14. ScriptsInv'
  BY <1>2, <1>3 DEF ScriptsInv, Reliable
<1> QED BY <1>13, <1>14
-----------------------------------------------------------------------------
(* Before the launch there are no frames.                                  *)
LEMMA FlowInit ==
    ASSUME Init
    PROVE  FlowInv /\ ScriptsInv
<1> DEFINE h == EmptyHandler
           z == End(context.source)
<1>1. /\ Source!EmptyHandler = h /\ FrameStage!EmptyHandler = h
      /\ InterStage!EmptyHandler = h /\ Sink!EmptyHandler = h
  BY DEF Source!EmptyHandler, EmptyHandler, FrameStage!EmptyHandler, InterStage!EmptyHandler, Sink!EmptyHandler
<1>2. /\ context.source.sdh = h /\ context.frame.sdh = h /\ context.interframe.sdh = h /\ context.sink.sdh = h
      /\ context.source.processed = 0 /\ context.source.loaded = 0 /\ ~context.source.eofReached
      /\ ~context.source.eofFlushed /\ ~context.source.exists
      /\ context.frame.framesId = 0 /\ context.interframe.framesId = 0
      /\ context.interframe.buffer = {} /\ context.interframe.nextFrame = 0 /\ context.interframe.created = 0
      /\ images.evaluating = {} /\ \A t \in Thread : queue[t] = <<>>
  BY <1>1 DEF Init, Source!NoContext, FrameStage!NoContext, InterStage!NoContext, Sink!NoContext
<1>3. \A A : Settled(h, A)
  <2>1. h.in = {} /\ h.out = <<>> /\ h.next = 0
    BY DEF EmptyHandler
  <2>2. \A A : h \in [in : SUBSET A, out : Seq(A), next : Nat]
    BY DEF EmptyHandler
  <2>3. IsFiniteSet(h.in) /\ NumbersOf(h.in) = {}
    BY <2>1, FS_EmptySet DEF NumbersOf
  <2> HIDE DEF h
  <2> QED BY <2>1, <2>2, <2>3 DEF Settled, Orderly
<1>4. Seen(h) = {} /\ Handed(h) = 0
  BY DEF Seen, Handed, EmptyHandler, NumbersOf
<1>5. \A s : Pending({}, s) = {}
  BY <1>2 DEF Evaluating, Pending
<1>6. queue["processors"] = <<>> /\ queue["sink"] = <<>>
  BY <1>2 DEF Thread
<1>7. \A M, A : /\ Stream(<<>>, M, 0, 0, A) /\ Answers(<<>>, M, A) /\ Carried(<<>>, M) = {}
  <2>1. \A M, i : i \in DOMAIN <<>> => <<>>[i] \notin M
    OBVIOUS
  <2> QED BY <2>1, SilentStream, AnswersSmall
<1> HIDE DEF h
<1>8. 0 .. 0 - 1 = {} /\ 0 .. -1 - 1 = {} /\ 0 - 1 = -1
  OBVIOUS
<1>9. \A s, A : \A n \in {0, -1} : Working(<<>>, s, {}, h, A, n)
  <2>1. \A A : JobsFit({}, A)
    BY DEF JobsFit
  <2>2. NumbersOf({}) = {}
    BY DEF NumbersOf
  <2>3. \A n \in {0, -1} : Balanced({}, {}, {}, n) /\ Complete({}, {}, {}, n)
    BY <1>8 DEF Balanced, Complete
  <2> QED BY <1>3, <1>4, <1>7, <2>1, <2>2, <2>3 DEF Working
<1>10. SourceFlow(video, context.source)
  <2>1. video \in Videos /\ video.decoded[0] = 0
    BY FileToFileAssumption DEF Init
  <2> QED BY <1>2, <1>3, <1>4, <1>8, <2>1 DEF SourceFlow, FlushPlace
<1>11. FramePart(queue, context, Pending({}, "frame"))
  <2>1. FrameFlow(<<>>, 0, {}, h, z)
    BY <1>7, <1>9 DEF FrameFlow
  <2> QED BY <1>2, <1>4, <1>5, <1>6, <2>1 DEF FramePart
<1>12. InterPart(queue, context, Pending({}, "interframe"))
  <2>1. Buffered(context.interframe, 0, z)
    BY <1>2 DEF Buffered
  <2>2. InterFlow(<<>>, 0, {}, context.interframe, z)
    BY <1>2, <1>7, <1>8, <1>9, <2>1 DEF InterFlow
  <2> QED BY <1>2, <1>4, <1>5, <1>6, <2>2 DEF InterPart
<1>13. SinkPart(queue, context)
  <2>1. SinkFlow(<<>>, 0, h, z)
    BY <1>3, <1>4, <1>7, <1>8 DEF SinkFlow
  <2> QED BY <1>2, <1>4, <1>6, <2>1 DEF SinkPart
<1>14. ScriptsInv
  <2>1. Reliable => images.scripts = <<"frame", "interframe">>
    BY DEF Init, Reliable
  <2> QED BY <1>2, <2>1 DEF ScriptsInv
<1> QED BY <1>10, <1>11, <1>12, <1>13, <1>14, FlowParts DEF FlowInv

(* Every step keeps the invariant.                                         *)
LEMMA FlowKeeps ==
    ASSUME NEW L, L \intersect JobType = {}, TypeInv, StartInv, FlowWith(L), ScriptsInv, [Next]_vars
    PROVE  FlowWith(L)' /\ ScriptsInv'
<1>1. CASE UNCHANGED vars
  <2>1. UNCHANGED <<video, context, queue, images>>
    BY <1>1 DEF vars
  <2> QED BY <2>1, CalmQueues, StagesRest
<1>2. CASE PipelineThread
  BY <1>2, PipelineThreadFlows
<1>3. CASE SourceThread
  BY <1>3, SourceThreadFlows
<1>4. CASE ProcessorsThread
  BY <1>4, FrameStageFlows, InterStageFlows DEF ProcessorsThread
<1>5. CASE SinkThread
  BY <1>5, SinkThreadFlows
<1>6. CASE WriterThread
  BY <1>6, WriterThreadFlows
<1>7. CASE ImageProcessor
  BY <1>7, CompilationFlows, EvaluationFlows DEF ImageProcessor
<1>8. CASE Terminated
  BY <1>1, <1>8 DEF Terminated
<1> QED BY <1>1, <1>2, <1>3, <1>4, <1>5, <1>6, <1>7, <1>8 DEF Next
LEMMA FlowStep ==
    ASSUME TypeInv, StartInv, FlowInv, ScriptsInv, [Next]_vars
    PROVE  FlowInv' /\ ScriptsInv'
<1>1. {} \intersect JobType = {}
  OBVIOUS
<1> QED BY <1>1, FlowKeeps DEF FlowInv

(* The invariant as the theorems need it.                                  *)
LEMMA FlowInvParts ==
    FlowInv <=> /\ SourceFlow(video, context.source)
                /\ FramePart(queue, context, Evaluating("frame"))
                /\ InterPart(queue, context, Evaluating("interframe"))
                /\ SinkPart(queue, context)
<1>1. \A s : Pending({}, s) = Evaluating(s)
  BY DEF Pending
<1> QED BY <1>1, FlowParts DEF FlowInv
-----------------------------------------------------------------------------
(* Part 6: the theorems.                                                   *)

(* The properties speak of places in the calls, the invariant of the calls *)
(* by their kinds.                                                         *)
LEMMA PlacesAre ==
    ASSUME NEW s, NEW op, NEW p
    PROVE  p \in PlacesInCalls(s, op) <=>
             \E i \in DOMAIN queue[ThreadOf(s)] : \E k \in DOMAIN queue[ThreadOf(s)][i].load :
                 /\ p = <<i, k>>
                 /\ queue[ThreadOf(s)][i].callee = s /\ queue[ThreadOf(s)][i].op = op
<1> DEFINE q == queue[ThreadOf(s)]
<1>1. p \in UNION {{i} \X DOMAIN q[i].load : i \in DOMAIN q} <=>
        \E i \in DOMAIN q : \E k \in DOMAIN q[i].load : p = <<i, k>>
  OBVIOUS
<1>2. PlacesInCalls(s, op) =
        {x \in UNION {{i} \X DOMAIN q[i].load : i \in DOMAIN q} : q[x[1]].callee = s /\ q[x[1]].op = op}
  BY DEF PlacesInCalls
<1>3. \A i, k : <<i, k>>[1] = i
  OBVIOUS
<1> HIDE DEF q
<1>4. p \in PlacesInCalls(s, op) <=>
        \E i \in DOMAIN q : \E k \in DOMAIN q[i].load : p = <<i, k>> /\ q[i].callee = s /\ q[i].op = op
  BY <1>1, <1>2, <1>3
<1> QED BY <1>4 DEF q

LEMMA NumbersCarried ==
    ASSUME TypeInv, NEW s \in Stage
    PROVE  /\ NumbersInCalls(s, "process") = Carried(queue[ThreadOf(s)], Deliveries(s))
           /\ NumbersInCalls(s, "evaluated") = Carried(queue[ThreadOf(s)], Returns(s))
<1> DEFINE q == queue[ThreadOf(s)]
<1>1. \A i \in DOMAIN q : q[i] \in AllCalls /\ q[i] \in CallType
  <2>1. ThreadOf(s) \in Thread /\ queue \in Queues(AllCalls)
    BY DEF TypeInv, Stage, ThreadOf, Thread
  <2>2. \A i \in DOMAIN q : q[i] \in AllCalls
    BY <2>1, QueueCalls
  <2> QED BY <2>2 DEF AllCalls
<1>2. \A i \in DOMAIN q : \A k \in DOMAIN q[i].load : q[i].load[k].number \in Nat
  <2> SUFFICES ASSUME NEW i \in DOMAIN q, NEW k \in DOMAIN q[i].load PROVE q[i].load[k].number \in Nat
    OBVIOUS
  <2>1. q[i].load \in Seq(FrameType)
    BY <1>1 DEF CallType
  <2>2. q[i].load[k] \in FrameType
    BY <2>1
  <2> QED BY <2>2 DEF FrameType
<1>3. \A op, n : n \in NumbersInCalls(s, op) <=>
        \E i \in DOMAIN q : q[i].callee = s /\ q[i].op = op /\ \E k \in DOMAIN q[i].load : q[i].load[k].number = n
  <2>1. \A i, k : NumberAt(s, <<i, k>>) = q[i].load[k].number
    BY DEF NumberAt
  <2>2. \A op, n : n \in NumbersInCalls(s, op) <=> \E p \in PlacesInCalls(s, op) : n = NumberAt(s, p)
    BY DEF NumbersInCalls
  <2>3. \A op, p : p \in PlacesInCalls(s, op) <=>
          \E i \in DOMAIN q : \E k \in DOMAIN q[i].load : p = <<i, k>> /\ q[i].callee = s /\ q[i].op = op
    BY PlacesAre
  <2> HIDE DEF q
  <2> SUFFICES ASSUME NEW op, NEW n
               PROVE  n \in NumbersInCalls(s, op) <=>
                        \E i \in DOMAIN q : q[i].callee = s /\ q[i].op = op
                                         /\ \E k \in DOMAIN q[i].load : q[i].load[k].number = n
    OBVIOUS
  <2>4. ASSUME NEW p \in PlacesInCalls(s, op), n = NumberAt(s, p)
        PROVE  \E i \in DOMAIN q : q[i].callee = s /\ q[i].op = op
                                /\ \E k \in DOMAIN q[i].load : q[i].load[k].number = n
    BY <2>1, <2>3, <2>4
  <2>5. ASSUME NEW i \in DOMAIN q, q[i].callee = s, q[i].op = op, NEW k \in DOMAIN q[i].load, q[i].load[k].number = n
        PROVE  <<i, k>> \in PlacesInCalls(s, op) /\ n = NumberAt(s, <<i, k>>)
    BY <2>1, <2>3, <2>5
  <2> QED BY <2>2, <2>4, <2>5
<1>4. \A i \in DOMAIN q : /\ q[i] \in Deliveries(s) <=> q[i].callee = s /\ q[i].op = "process"
                          /\ q[i] \in Returns(s) <=> q[i].callee = s /\ q[i].op = "evaluated"
  BY <1>1, Kinds
<1> HIDE DEF q
<1>5. \A n : n \in NumbersInCalls(s, "process") <=> n \in Carried(q, Deliveries(s))
  BY <1>2, <1>3, <1>4 DEF Carried
<1>6. \A n : n \in NumbersInCalls(s, "evaluated") <=> n \in Carried(q, Returns(s))
  BY <1>2, <1>3, <1>4 DEF Carried
<1>7. /\ NumbersInCalls(s, "process") = Carried(q, Deliveries(s))
      /\ NumbersInCalls(s, "evaluated") = Carried(q, Returns(s))
  BY <1>5, <1>6
<1> QED BY <1>7 DEF q

(* Results that are on their way have different numbers.                   *)
LEMMA PlacesDiffer ==
    ASSUME TypeInv, NEW s \in Stage, NEW A, Answers(queue[ThreadOf(s)], Returns(s), A)
    PROVE  \A p, r \in PlacesInCalls(s, "evaluated") : NumberAt(s, p) = NumberAt(s, r) => p = r
<1> DEFINE q == queue[ThreadOf(s)]
<1> SUFFICES ASSUME NEW p \in PlacesInCalls(s, "evaluated"), NEW r \in PlacesInCalls(s, "evaluated"),
                    NumberAt(s, p) = NumberAt(s, r)
             PROVE  p = r
  OBVIOUS
<1>1. \A i \in DOMAIN q : q[i] \in AllCalls
  <2>1. ThreadOf(s) \in Thread /\ queue \in Queues(AllCalls)
    BY DEF TypeInv, Stage, ThreadOf, Thread
  <2> QED BY <2>1, QueueCalls
<1>2. PICK i \in DOMAIN q : \E k \in DOMAIN q[i].load : p = <<i, k>> /\ q[i].callee = s /\ q[i].op = "evaluated"
  BY PlacesAre
<1>3. PICK j \in DOMAIN q : \E k \in DOMAIN q[j].load : r = <<j, k>> /\ q[j].callee = s /\ q[j].op = "evaluated"
  BY PlacesAre
<1>4. q[i] \in Returns(s) /\ q[j] \in Returns(s)
  BY <1>1, <1>2, <1>3, Kinds
<1>5. p = <<i, 1>> /\ r = <<j, 1>>
  BY <1>2, <1>3, <1>4, OneResult DEF OneEach
<1>6. q[i].load[1].number = q[j].load[1].number
  BY <1>5 DEF NumberAt
<1>7. i = j
  BY <1>4, <1>6 DEF Answers
<1> QED BY <1>5, <1>7

(* The next number of a settled handler does not wait.                     *)
LEMMA SettledWaits ==
    ASSUME NEW A, \A f \in A : f.number \in Nat, NEW h, Settled(h, A)
    PROVE  /\ \A e, f \in h.in : e.number = f.number => e = f
           /\ \A e \in h.in : e.number > h.next
<1>1. h.next \in Nat /\ \A e \in h.in : e.number \in Nat /\ e.number >= h.next
  BY DEF Settled, Orderly
<1>2. \A e \in h.in : e.number # h.next
  BY DEF Settled, NumbersOf
<1> QED BY <1>1, <1>2 DEF Settled, Orderly

(* One stage.                                                              *)
LEMMA WorkIsUnique ==
    ASSUME TypeInv, NEW s \in Stage, NEW A, \A f \in A : f.number \in Nat, NEW n,
           Working(queue[ThreadOf(s)], s, Evaluating(s), context[s].sdh, A, n)
    PROVE  /\ \A j, k \in Evaluating(s) : j.number = k.number => j = k
           /\ \A p, q \in PlacesInCalls(s, "evaluated") : NumberAt(s, p) = NumberAt(s, q) => p = q
           /\ \A e, f \in context[s].sdh.in : e.number = f.number => e = f
           /\ \A e \in context[s].sdh.in : e.number > context[s].sdh.next
           /\ NumbersOf(Evaluating(s)) \intersect NumbersInCalls(s, "evaluated") = {}
           /\ (NumbersOf(Evaluating(s)) \union NumbersInCalls(s, "evaluated")) \intersect Arrived(s) = {}
           /\ NumbersIn(s) \subseteq 0 .. n - 1
           /\ Reliable => NumbersIn(s) = 0 .. n - 1
<1> DEFINE h == context[s].sdh
           C == NumbersInCalls(s, "evaluated")
           N == NumbersOf(Evaluating(s))
<1>1. /\ Settled(h, A) /\ Answers(queue[ThreadOf(s)], Returns(s), A) /\ JobsFit(Evaluating(s), A)
      /\ Balanced(N, C, Seen(h), n) /\ (Reliable => Complete(N, C, Seen(h), n))
  BY NumbersCarried DEF Working
<1>2. Arrived(s) = Seen(h) /\ NumbersIn(s) = N \union C \union Seen(h)
  BY DEF Arrived, Seen, NumbersIn
<1> HIDE DEF N, C, h
<1>3. \A j, k \in Evaluating(s) : j.number = k.number => j = k
  BY <1>1 DEF JobsFit
<1>4. \A p, q \in PlacesInCalls(s, "evaluated") : NumberAt(s, p) = NumberAt(s, q) => p = q
  BY <1>1, PlacesDiffer
<1>5. (\A e, f \in h.in : e.number = f.number => e = f) /\ \A e \in h.in : e.number > h.next
  BY <1>1, SettledWaits
<1>6. N \intersect C = {} /\ (N \union C) \intersect Arrived(s) = {} /\ NumbersIn(s) \subseteq 0 .. n - 1
  BY <1>1, <1>2 DEF Balanced
<1>7. Reliable => NumbersIn(s) = 0 .. n - 1
  BY <1>1, <1>2, <1>6 DEF Complete
<1> QED BY <1>3, <1>4, <1>5, <1>6, <1>7 DEF N, C, h

(* The image processor knows nothing of the sink.                          *)
LEMMA NoResultsForSink ==
    ASSUME TypeInv
    PROVE  Evaluating("sink") = {} /\ PlacesInCalls("sink", "evaluated") = {} /\ NumbersInCalls("sink", "evaluated") = {}
<1> DEFINE q == queue[ThreadOf("sink")]
<1>1. Evaluating("sink") = {}
  BY DEF TypeInv, ImagesType, Jobs, JobType, Evaluating
<1>2. \A i \in DOMAIN q : q[i] \in AllCalls
  <2>1. ThreadOf("sink") \in Thread /\ queue \in Queues(AllCalls)
    BY ThreadsAre DEF TypeInv
  <2> QED BY <2>1, QueueCalls
<1>3. \A i \in DOMAIN q : ~(q[i].callee = "sink" /\ q[i].op = "evaluated")
  BY <1>2 DEF AllCalls, Made
<1>4. \A p : p \notin PlacesInCalls("sink", "evaluated")
  BY <1>3, PlacesAre
<1>5. NumbersInCalls("sink", "evaluated") = {}
  BY <1>4 DEF NumbersInCalls
<1> QED BY <1>1, <1>4, <1>5

(* How many numbers a stream carries.                                      *)
LEMMA StreamCount ==
    ASSUME NEW q, NEW M, NEW r, NEW m, NEW A, Stream(q, M, r, m, A)
    PROVE  m - Cardinality(Carried(q, M)) = r
<1>1. r \in Nat /\ m \in Nat /\ r <= m /\ Carried(q, M) = r .. m - 1
  BY DEF Stream
<1> DEFINE l == m - 1
<1>2. r \in Int /\ l \in Int /\ (r > l => m - r = 0) /\ (l - r) + 1 = m - r
  BY <1>1
<1> HIDE DEF l
<1>3. Cardinality(r .. l) = m - r
  BY <1>2, FS_Interval
<1> QED BY <1>1, <1>3 DEF l

LEMMA FlowInvUnique ==
    ASSUME TypeInv, FlowInv
    PROVE  NoNumberTwice /\ (Reliable => NoFrameLost)
<1> DEFINE z == End(context.source)
           received(s, p) == HandedOn(p) - Cardinality(NumbersInCalls(s, "process"))
<1>1. /\ FrameFlow(queue[ThreadOf("frame")], Handed(context["source"].sdh), Evaluating("frame"), context["frame"].sdh, z)
      /\ InterFlow(queue[ThreadOf("interframe")], Handed(context["frame"].sdh), Evaluating("interframe"), context["interframe"], z)
      /\ SinkFlow(queue[ThreadOf("sink")], Handed(context["interframe"].sdh), context["sink"].sdh, z)
  BY FlowInvParts, ThreadsAre DEF FramePart, InterPart, SinkPart
<1>2. (\A f \in Passing(z) : f.number \in Nat) /\ (\A f \in Pairs(z) : f.number \in Nat)
  BY FrameSets
<1>3. \A s : HandedOn(s) = Handed(context[s].sdh)
  BY DEF HandedOn, Handed
<1>4. "frame" \in Stage /\ "interframe" \in Stage /\ "sink" \in Stage
  BY DEF Stage
<1> HIDE DEF z
<1>5. PICK r \in Nat : /\ Stream(queue[ThreadOf("frame")], Deliveries("frame"), r, Handed(context["source"].sdh), Passing(z))
                       /\ Working(queue[ThreadOf("frame")], "frame", Evaluating("frame"), context["frame"].sdh, Passing(z), r)
  BY <1>1 DEF FrameFlow
<1>6. PICK i \in Nat : /\ Stream(queue[ThreadOf("interframe")], Deliveries("interframe"), i, Handed(context["frame"].sdh), Passing(z))
                       /\ Working(queue[ThreadOf("interframe")], "interframe", Evaluating("interframe"), context["interframe"].sdh, Pairs(z), i - 1)
  BY <1>1 DEF InterFlow
<1>7. PICK k \in Nat : /\ Stream(queue[ThreadOf("sink")], Deliveries("sink"), k, Handed(context["interframe"].sdh), Pairs(z))
                       /\ Settled(context["sink"].sdh, Pairs(z)) /\ Seen(context["sink"].sdh) = 0 .. k - 1
  BY <1>1 DEF SinkFlow
<1>8. received("frame", "source") = r
  BY <1>3, <1>4, <1>5, StreamCount, NumbersCarried
<1>9. received("interframe", "frame") = i
  BY <1>3, <1>4, <1>6, StreamCount, NumbersCarried
<1>10. received("sink", "interframe") = k
  BY <1>3, <1>4, <1>7, StreamCount, NumbersCarried
<1> HIDE DEF received
<1> DEFINE Unique(s) ==
               /\ \A j, l \in Evaluating(s) : j.number = l.number => j = l
               /\ \A p, q \in PlacesInCalls(s, "evaluated") : NumberAt(s, p) = NumberAt(s, q) => p = q
               /\ \A e, f \in context[s].sdh.in : e.number = f.number => e = f
               /\ \A e \in context[s].sdh.in : e.number > context[s].sdh.next
               /\ NumbersOf(Evaluating(s)) \intersect NumbersInCalls(s, "evaluated") = {}
               /\ (NumbersOf(Evaluating(s)) \union NumbersInCalls(s, "evaluated"))
                      \intersect Arrived(s) = {}
<1>11. Unique("frame") /\ (Reliable => NumbersIn("frame") = 0 .. r - 1)
  BY <1>2, <1>4, <1>5, WorkIsUnique
<1>12. Unique("interframe") /\ (Reliable => NumbersIn("interframe") = 0 .. (i - 1) - 1)
  BY <1>2, <1>4, <1>6, WorkIsUnique
<1>13. Unique("sink") /\ NumbersIn("sink") = 0 .. k - 1
  <2>1. /\ Evaluating("sink") = {} /\ PlacesInCalls("sink", "evaluated") = {}
        /\ NumbersInCalls("sink", "evaluated") = {} /\ NumbersOf({}) = {}
    BY NoResultsForSink DEF NumbersOf
  <2>2. /\ \A e, f \in context["sink"].sdh.in : e.number = f.number => e = f
        /\ \A e \in context["sink"].sdh.in : e.number > context["sink"].sdh.next
    BY <1>2, <1>7, SettledWaits
  <2>3. NumbersIn("sink") = Seen(context["sink"].sdh)
    BY <2>1 DEF NumbersIn, Arrived, Seen
  <2> QED BY <1>7, <2>1, <2>2, <2>3
<1>14. NoNumberTwice
  BY <1>11, <1>12, <1>13 DEF NoNumberTwice
<1>15. ASSUME Reliable PROVE NoFrameLost
  <2>1. 0 .. (i - 1) - 1 = 0 .. i - 2
    OBVIOUS
  <2>2. /\ NumbersIn("frame") = 0 .. received("frame", "source") - 1
        /\ NumbersIn("interframe") = 0 .. received("interframe", "frame") - 2
        /\ NumbersIn("sink") = 0 .. received("sink", "interframe") - 1
    BY <1>8, <1>9, <1>10, <1>11, <1>12, <1>13, <1>15, <2>1
  <2> QED BY <2>2 DEF NoFrameLost, received
<1> QED BY <1>14, <1>15

(* No two results of a stage ever have the same number: frames_processed   *)
(* of the source and frames_created of the inter-frame stage count on      *)
(* without a repetition, in whatever portions the frames come, and a       *)
(* handler is never given an entry that it has passed on already.          *)
THEOREM NumbersAreUnique == Spec => []NoNumberTwice
<1>1. Init => TypeInv /\ StartInv /\ FlowInv /\ ScriptsInv
  BY TypeInit, StartInit, FlowInit
<1>2. TypeInv /\ StartInv /\ FlowInv /\ ScriptsInv /\ [Next]_vars => (TypeInv /\ StartInv /\ FlowInv /\ ScriptsInv)'
  BY TypeStep, StartStep, FlowStep
<1>3. TypeInv /\ FlowInv => NoNumberTwice
  BY FlowInvUnique
<1> QED BY <1>1, <1>2, <1>3, PTL DEF Spec

(* As long as only opening files may fail, no frame is lost: what was      *)
(* handed to a stage is in a call of process, in an evaluation, in a       *)
(* result on its way back, in the handler, or handed on.                   *)
THEOREM NothingIsLost ==
    ASSUME Failures \subseteq {"open"}
    PROVE  Spec => []NoFrameLost
<1>1. Init => TypeInv /\ StartInv /\ FlowInv /\ ScriptsInv
  BY TypeInit, StartInit, FlowInit
<1>2. TypeInv /\ StartInv /\ FlowInv /\ ScriptsInv /\ [Next]_vars => (TypeInv /\ StartInv /\ FlowInv /\ ScriptsInv)'
  BY TypeStep, StartStep, FlowStep
<1>3. TypeInv /\ FlowInv => NoFrameLost
  BY FlowInvUnique DEF Reliable
<1> QED BY <1>1, <1>2, <1>3, PTL DEF Spec
=============================================================================
