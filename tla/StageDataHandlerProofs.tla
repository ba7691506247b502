----------------------- MODULE StageDataHandlerProofs -----------------------
(***************************************************************************)
(* For every set of entries, every size and every sequence of adds and     *)
(* flushes: the stage data handler hands over the entries in order, once,  *)
(* loses none, and implements OrderedDelivery.                             *)
(***************************************************************************)
EXTENDS StageDataHandler, DataHandlerProofs

(* The situation in which try_flush starts: the queue of h holds the given *)
(* entries from h.next on, perhaps h.next itself among them.               *)
Flushable(h, g, d) ==
    /\ h \in [in : SUBSET Entry, out : Seq(Entry), next : Nat]
    /\ g \in SUBSET Entry /\ IsFiniteSet(g) /\ DistinctNumbers(g)
    /\ d \in Seq(Entry)
    /\ h.in = {e \in g : e.number >= h.next}
    /\ h.next = Len(d) + Len(h.out)
    /\ \A i \in 1 .. Len(d) : d[i] \in g /\ d[i].number = i - 1
    /\ \A i \in 1 .. Len(h.out) :
          h.out[i] \in g /\ h.out[i].number = Len(d) + i - 1

(* try_process_input takes the entries of the run, in order, and leaves    *)
(* nothing in the queue that could be ready.                               *)
LEMMA ProcessInputTakesRun ==
    ASSUME NEW h, NEW g, NEW d, Flushable(h, g, d)
    PROVE  /\ Flushable(TryProcessInput(h), g, d)
           /\ \A e \in g : e.number # TryProcessInput(h).next
<1> DEFINE p == TryProcessInput(h)
           m == RunEnd(h) - h.next
           run == RunOf(h)
<1> USE EntryAssumption
<1>1. /\ h \in [in : SUBSET Entry, out : Seq(Entry), next : Nat]
      /\ h.next \in Nat /\ h.in \subseteq g /\ g \subseteq Entry
      /\ d \in Seq(Entry) /\ h.out \in Seq(Entry)
  BY DEF Flushable
<1>2. IsFiniteSet(h.in) /\ \A e \in h.in : e.number \in Nat /\ e.number >= h.next
  BY <1>1, FS_Subset DEF Flushable
<1>3. /\ RunEnd(h) \in Nat
      /\ RunEnd(h) >= h.next
      /\ RunEnd(h) \notin NumbersOf(h.in)
      /\ \A k \in h.next .. RunEnd(h) - 1 : k \in NumbersOf(h.in)
  BY <1>1, <1>2, RunEndIsFirstGap
<1>4. m \in Nat
  BY <1>1, <1>3
<1>5. \A i \in 1 .. m :
         /\ Numbered(h.in, h.next + i - 1) \in h.in
         /\ Numbered(h.in, h.next + i - 1).number = h.next + i - 1
  <2> SUFFICES ASSUME NEW i \in 1 .. m
               PROVE  /\ Numbered(h.in, h.next + i - 1) \in h.in
                      /\ Numbered(h.in, h.next + i - 1).number = h.next + i - 1
    OBVIOUS
  <2>1. h.next + i - 1 \in h.next .. RunEnd(h) - 1
    BY <1>1, <1>3, <1>4
  <2>2. \E e \in h.in : e.number = h.next + i - 1
    BY <2>1, <1>3 DEF NumbersOf
  <2> QED  BY <2>2 DEF Numbered
<1>6. /\ run \in Seq(Entry)
      /\ Len(run) = m
      /\ \A i \in 1 .. m : run[i] \in h.in /\ run[i].number = h.next + i - 1
  <2>1. run = [i \in 1 .. m |-> Numbered(h.in, h.next + i - 1)]
    BY DEF RunOf
  <2>2. run \in [1 .. m -> Entry]
    BY <2>1, <1>1, <1>5
  <2> HIDE DEF m, run
  <2>3. run \in Seq(Entry) /\ Len(run) = m
    BY <2>2, <1>4
  <2>4. ASSUME NEW i \in 1 .. m
        PROVE  run[i] \in h.in /\ run[i].number = h.next + i - 1
    BY <2>1, <1>5
  <2> QED  BY <2>3, <2>4
<1>7. /\ p.in = {e \in h.in : e.number \notin h.next .. RunEnd(h) - 1}
      /\ p.out = h.out \o run
      /\ p.next = RunEnd(h)
      /\ p \in [in : SUBSET Entry, out : Seq(Entry), next : Nat]
  BY <1>1, <1>3, <1>6 DEF TryProcessInput
<1>8. p.in = {e \in g : e.number >= p.next}
  <2>1. \A e \in g : e.number \in Nat
    BY <1>1
  <2>2. h.in = {e \in g : e.number >= h.next}
    BY DEF Flushable
  <2> HIDE DEF p, m, run
  <2> QED  BY <2>1, <2>2, <1>1, <1>3, <1>7
<1>9. \A e \in g : e.number # p.next
  <2>1. h.in = {e \in g : e.number >= h.next}
    BY DEF Flushable
  <2> QED  BY <2>1, <1>1, <1>3, <1>7 DEF NumbersOf
<1>10. /\ Len(p.out) = Len(h.out) + m
       /\ \A i \in 1 .. Len(p.out) :
             p.out[i] = IF i <= Len(h.out) THEN h.out[i] ELSE run[i - Len(h.out)]
  <2> HIDE DEF p, m, run
  <2>1. /\ Len(h.out \o run) = Len(h.out) + Len(run)
        /\ \A i \in 1 .. Len(h.out) + Len(run) :
              (h.out \o run)[i] = IF i <= Len(h.out) THEN h.out[i] ELSE run[i - Len(h.out)]
    BY <1>1, <1>6, ConcatProperties
  <2> QED  BY <2>1, <1>6, <1>7
<1>11. p.next = Len(d) + Len(p.out)
  BY <1>1, <1>3, <1>7, <1>10 DEF Flushable
<1>12. ASSUME NEW i \in 1 .. Len(p.out)
       PROVE  p.out[i] \in g /\ p.out[i].number = Len(d) + i - 1
  <2> HIDE DEF p, m, run
  <2>1. CASE i <= Len(h.out)
    <3>1. i \in 1 .. Len(h.out) /\ p.out[i] = h.out[i]
      BY <2>1, <1>1, <1>10
    <3>2. h.out[i] \in g /\ h.out[i].number = Len(d) + i - 1
      BY <3>1 DEF Flushable
    <3> QED  BY <3>1, <3>2
  <2>2. CASE i > Len(h.out)
    <3>1. i - Len(h.out) \in 1 .. m /\ p.out[i] = run[i - Len(h.out)]
      BY <2>2, <1>1, <1>4, <1>10
    <3>2. p.out[i] \in h.in /\ p.out[i].number = h.next + (i - Len(h.out)) - 1
      BY <3>1, <1>6
    <3>3. h.next = Len(d) + Len(h.out)
      BY DEF Flushable
    <3> QED  BY <3>2, <3>3, <1>1
  <2> QED  BY <2>1, <2>2, <1>1
<1> HIDE DEF p, m, run
<1>13. Flushable(p, g, d)
  BY <1>7, <1>8, <1>11, <1>12 DEF Flushable
<1> QED  BY <1>9, <1>13 DEF p

-----------------------------------------------------------------------------
(* The inductive invariant: the checked ones, and that numbers are unique. *)
IInv ==
    /\ TypeOK
    /\ InOrder
    /\ QueueWaitsForGap
    /\ DistinctNumbers(given)

(* A flush cuts the ready entries in two; the front continues what was     *)
(* delivered, and the handler is left with nothing that could be ready.    *)
LEMMA FlushKeepsOrder ==
    ASSUME NEW h, NEW amount \in Amount,
           Flushable(h, given', delivered), FlushFrom(h, amount)
    PROVE  /\ IInv'
           /\ Len(delivered) <= Len(delivered')
           /\ \A i \in 1 .. Len(delivered) : delivered'[i] = delivered[i]
<1> DEFINE p == TryProcessInput(h)
           n == DeliverAmount(p, MaxStored, amount)
           front == SubSeq(p.out, 1, n)
           back == SubSeq(p.out, n + 1, Len(p.out))
<1>1. Flushable(p, given', delivered) /\ \A e \in given' : e.number # p.next
  BY ProcessInputTakesRun
<1>2. handler' = [p EXCEPT !.out = back] /\ delivered' = delivered \o front
  BY DEF FlushFrom, Kept, Taken
<1> HIDE DEF p
<1>3. /\ p \in [in : SUBSET Entry, out : Seq(Entry), next : Nat]
      /\ delivered \in Seq(Entry) /\ p.out \in Seq(Entry)
      /\ Len(p.out) \in Nat /\ Len(delivered) \in Nat
  BY <1>1 DEF Flushable
<1>14. /\ p.next = Len(delivered) + Len(p.out)
       /\ \A i \in 1 .. Len(delivered) :
             delivered[i] \in given' /\ delivered[i].number = i - 1
       /\ \A i \in 1 .. Len(p.out) :
             p.out[i] \in given' /\ p.out[i].number = Len(delivered) + i - 1
  BY <1>1 DEF Flushable
<1>4. n \in 0 .. Len(p.out)
  <2>1. MaxStored \in Nat /\ amount \in Nat
    BY SizeAssumption
  <2>2. n = Min({Len(p.out), MaxStored, amount})
    BY DEF DeliverAmount
  <2>3. n \in Nat /\ n <= Len(p.out)
    BY <2>1, <2>2, <1>3, MinOfThree
  <2> QED  BY <2>3, <1>3
<1> HIDE DEF n
<1>5. /\ front \in Seq(Entry) /\ Len(front) = n
      /\ \A i \in 1 .. n : front[i] = p.out[i]
  <2>1. \A i \in 1 .. n : p.out[i] \in Entry
    BY <1>3, <1>4
  <2> QED  BY <2>1, <1>4, SubSeqProperties
<1>6. /\ back \in Seq(Entry) /\ Len(back) = Len(p.out) - n
      /\ \A i \in 1 .. Len(p.out) - n : back[i] = p.out[n + i]
  <2>1. \A i \in n + 1 .. Len(p.out) : p.out[i] \in Entry
    BY <1>3, <1>4
  <2> QED  BY <2>1, <1>3, <1>4, SubSeqProperties
<1> HIDE DEF front, back
<1>7. /\ delivered' \in Seq(Entry)
      /\ Len(delivered') = Len(delivered) + n
      /\ \A i \in 1 .. Len(delivered) + n :
            delivered'[i] = IF i <= Len(delivered) THEN delivered[i]
                            ELSE p.out[i - Len(delivered)]
  <2>1. /\ delivered \o front \in Seq(Entry)
        /\ Len(delivered \o front) = Len(delivered) + Len(front)
        /\ \A i \in 1 .. Len(delivered) + Len(front) :
              (delivered \o front)[i] = IF i <= Len(delivered) THEN delivered[i]
                                        ELSE front[i - Len(delivered)]
    BY <1>3, <1>5, ConcatProperties
  <2>2. ASSUME NEW i \in 1 .. Len(delivered) + n, i > Len(delivered)
        PROVE  front[i - Len(delivered)] = p.out[i - Len(delivered)]
    BY <2>2, <1>3, <1>4, <1>5
  <2> QED  BY <2>1, <2>2, <1>2, <1>3, <1>4, <1>5
<1>8. handler'.in = p.in /\ handler'.out = back /\ handler'.next = p.next
  BY <1>2, <1>3
<1>9. TypeOK'
  BY <1>1, <1>2, <1>3, <1>6, <1>7 DEF TypeOK, Flushable
<1>10. InOrder'
  <2>1. handler'.next = Len(delivered') + Len(handler'.out)
    <3>1. handler'.next = Len(delivered) + Len(p.out)
      BY <1>14, <1>8
    <3>2. Len(delivered') = Len(delivered) + n /\ Len(handler'.out) = Len(p.out) - n
      BY <1>6, <1>7, <1>8
    <3> QED  BY <3>1, <3>2, <1>3, <1>4
  <2>2. ASSUME NEW i \in 1 .. Len(delivered')
        PROVE  delivered'[i] \in given' /\ delivered'[i].number = i - 1
    <3>1. CASE i <= Len(delivered)
      <4>1. i \in 1 .. Len(delivered) /\ delivered'[i] = delivered[i]
        BY <3>1, <1>3, <1>4, <1>7
      <4> QED  BY <4>1, <1>14
    <3>2. CASE i > Len(delivered)
      <4>1. i - Len(delivered) \in 1 .. Len(p.out) /\ delivered'[i] = p.out[i - Len(delivered)]
        BY <3>2, <1>3, <1>4, <1>7
      <4>2. /\ p.out[i - Len(delivered)] \in given'
            /\ p.out[i - Len(delivered)].number = Len(delivered) + (i - Len(delivered)) - 1
        BY <4>1, <1>14
      <4> QED  BY <4>1, <4>2, <1>3
    <3> QED  BY <3>1, <3>2, <1>3, <1>4, <1>7
  <2>3. ASSUME NEW i \in 1 .. Len(handler'.out)
        PROVE  /\ handler'.out[i] \in given'
               /\ handler'.out[i].number = Len(delivered') + i - 1
    <3>1. n + i \in 1 .. Len(p.out) /\ handler'.out[i] = p.out[n + i]
      BY <1>3, <1>4, <1>6, <1>8
    <3>2. p.out[n + i] \in given' /\ p.out[n + i].number = Len(delivered) + (n + i) - 1
      BY <3>1, <1>14
    <3> QED  BY <3>1, <3>2, <1>3, <1>4, <1>7
  <2> QED  BY <2>1, <2>2, <2>3 DEF InOrder
<1>11. QueueWaitsForGap'
  BY <1>1, <1>8 DEF QueueWaitsForGap, Flushable
<1>12. DistinctNumbers(given')
  BY <1>1 DEF Flushable
<1>13. /\ Len(delivered) <= Len(delivered')
       /\ \A i \in 1 .. Len(delivered) : delivered'[i] = delivered[i]
  BY <1>3, <1>4, <1>7
<1> QED  BY <1>9, <1>10, <1>11, <1>12, <1>13 DEF IInv, DistinctNumbers

(* Before an operation the handler may be flushed.                         *)
LEMMA InvariantIsFlushable ==
    ASSUME IInv PROVE Flushable(handler, given, delivered)
BY DEF IInv, TypeOK, InOrder, QueueWaitsForGap, Flushable

(* So it may after new entries were put into the queue: their numbers are  *)
(* new, hence not below m_next.                                            *)
LEMMA AddedIsFlushable ==
    ASSUME IInv, NEW entries \in SUBSET Entry, IsFiniteSet(entries),
           entries \intersect given = {},
           DistinctNumbers(given \union entries)
    PROVE  Flushable([handler EXCEPT !.in = @ \union entries],
                     given \union entries, delivered)
<1> DEFINE h == [handler EXCEPT !.in = @ \union entries]
           g == given \union entries
<1> USE EntryAssumption
<1>1. /\ h \in [in : SUBSET Entry, out : Seq(Entry), next : Nat]
      /\ h.in = handler.in \union entries
      /\ h.out = handler.out /\ h.next = handler.next
  BY DEF IInv, TypeOK
<1>2. g \in SUBSET Entry /\ IsFiniteSet(g) /\ DistinctNumbers(g)
  BY FS_Union DEF IInv, TypeOK
<1>3. ASSUME NEW e \in entries PROVE e.number >= handler.next
  <2>1. e.number \in Nat /\ handler.next \in Nat /\ handler.next = Len(delivered) + Len(handler.out)
    BY DEF IInv, TypeOK, InOrder
  <2>2. SUFFICES ASSUME e.number < handler.next PROVE FALSE
    BY <2>1
  <2>3. \E f \in given : f.number = e.number
    <3>1. Len(delivered) \in Nat /\ Len(handler.out) \in Nat
      BY DEF IInv, TypeOK
    <3>2. CASE e.number < Len(delivered)
      <4>1. e.number + 1 \in 1 .. Len(delivered)
        BY <3>1, <3>2, <2>1
      <4>2. /\ delivered[e.number + 1] \in given
            /\ delivered[e.number + 1].number = (e.number + 1) - 1
        BY <4>1 DEF IInv, InOrder
      <4> QED  BY <4>2, <2>1
    <3>3. CASE e.number >= Len(delivered)
      <4> DEFINE j == e.number - Len(delivered) + 1
      <4>1. j \in 1 .. Len(handler.out)
        BY <3>1, <3>3, <2>1, <2>2
      <4>2. handler.out[j] \in given /\ handler.out[j].number = Len(delivered) + j - 1
        BY <4>1 DEF IInv, InOrder
      <4> QED  BY <4>2, <3>1, <2>1
    <3> QED  BY <3>1, <3>2, <3>3, <2>1
  <2> QED  BY <2>3 DEF DistinctNumbers
<1>4. h.in = {e \in g : e.number >= h.next}
  BY <1>1, <1>3 DEF IInv, QueueWaitsForGap
<1> HIDE DEF h
<1>5. Flushable(h, g, delivered)
  BY <1>1, <1>2, <1>4 DEF IInv, TypeOK, InOrder, Flushable
<1> QED  BY <1>5 DEF h

-----------------------------------------------------------------------------
LEMMA InitEstablishes == Init => IInv
<1> SUFFICES ASSUME Init PROVE IInv
  OBVIOUS
<1>1. /\ handler = [in |-> {}, out |-> <<>>, next |-> 0]
      /\ given = {} /\ delivered = <<>>
  BY DEF Init, EmptyHandler
<1>2. TypeOK
  BY <1>1, FS_EmptySet, EmptySeq DEF TypeOK
<1>3. InOrder
  BY <1>1 DEF InOrder
<1>4. QueueWaitsForGap /\ DistinctNumbers(given)
  BY <1>1 DEF QueueWaitsForGap, DistinctNumbers
<1> QED  BY <1>2, <1>3, <1>4 DEF IInv

(* Every operation keeps the invariant, keeps what was given and delivered *)
(* and only appends to what was delivered.                                 *)
LEMMA OperationKeeps ==
    ASSUME IInv, Next
    PROVE  /\ IInv'
           /\ given \subseteq given'
           /\ Len(delivered) <= Len(delivered')
           /\ \A i \in 1 .. Len(delivered) : delivered'[i] = delivered[i]
<1>1. ASSUME NEW entries \in SUBSET Entry, NEW amount \in Amount,
             IsFiniteSet(entries), Add(entries, amount)
      PROVE  /\ IInv'
             /\ given \subseteq given'
             /\ Len(delivered) <= Len(delivered')
             /\ \A i \in 1 .. Len(delivered) : delivered'[i] = delivered[i]
  <2>1. given' = given \union entries
    BY <1>1 DEF Add
  <2>2. Flushable([handler EXCEPT !.in = @ \union entries], given \union entries, delivered)
    BY <1>1, AddedIsFlushable DEF Add
  <2>3. Flushable([handler EXCEPT !.in = @ \union entries], given', delivered)
    BY <2>1, <2>2
  <2>4. FlushFrom([handler EXCEPT !.in = @ \union entries], amount)
    BY <1>1 DEF Add
  <2> QED  BY <2>1, <2>3, <2>4, FlushKeepsOrder
<1>2. ASSUME NEW amount \in Amount, Flush(amount)
      PROVE  /\ IInv'
             /\ given \subseteq given'
             /\ Len(delivered) <= Len(delivered')
             /\ \A i \in 1 .. Len(delivered) : delivered'[i] = delivered[i]
  <2>1. given' = given /\ FlushFrom(handler, amount)
    BY <1>2 DEF Flush
  <2>2. Flushable(handler, given', delivered)
    BY <2>1, InvariantIsFlushable
  <2> QED  BY <2>1, <2>2, FlushKeepsOrder
<1> QED  BY <1>1, <1>2 DEF Next

(* The inductive invariant holds in every state.                           *)
THEOREM Invariance == Spec => []IInv
<1>1. IInv /\ [Next]_vars => IInv'
  <2>1. CASE Next
    BY <2>1, OperationKeeps
  <2>2. CASE UNCHANGED vars
    BY <2>2 DEF vars, IInv, TypeOK, InOrder, QueueWaitsForGap, DistinctNumbers
  <2> QED  BY <2>1, <2>2
<1> QED  BY InitEstablishes, <1>1, PTL DEF Spec

(* The fields of the handler keep their types: an entry taken from the     *)
(* queue (stage_data_handler::try_process_input) is one that was added.    *)
THEOREM TypeCorrect == Spec => []TypeOK
<1>1. IInv => TypeOK
  BY DEF IInv
<1> QED  BY Invariance, <1>1, PTL

(* Whatever the order of the adds and the amounts accepted, the handler    *)
(* delivers 0, 1, 2, ... without gap or repetition.                        *)
THEOREM DeliversInOrder == Spec => []InOrder
<1>1. IInv => InOrder
  BY DEF IInv
<1> QED  BY Invariance, <1>1, PTL

(* No entry is lost, none is kept back, and the queue never blocks.        *)
THEOREM NothingKeptBack == Spec => []QueueWaitsForGap
<1>1. IInv => QueueWaitsForGap
  BY DEF IInv
<1> QED  BY Invariance, <1>1, PTL

(* The handler implements the promise of its header, OrderedDelivery: an   *)
(* operation maps to a step that takes entries in and hands over the next  *)
(* ones.                                                                   *)
THEOREM Implements == Spec => ImplementsOrderedDelivery
<1>1. Init => Promise!Init
  BY DEF Init, Promise!Init
<1>2. IInv /\ IInv' /\ [Next]_vars => [Promise!Next]_Promise!ordVars
  <2> SUFFICES ASSUME IInv, IInv', [Next]_vars
               PROVE  [Promise!Next]_Promise!ordVars
    OBVIOUS
  <2>1. CASE Next
    <3>1. /\ given \subseteq given'
          /\ Len(delivered) <= Len(delivered')
          /\ \A i \in 1 .. Len(delivered) : delivered'[i] = delivered[i]
      BY <2>1, OperationKeeps
    <3>2. \A i \in 1 .. Len(delivered') :
             delivered'[i] \in given' /\ delivered'[i].number = i - 1
      BY DEF IInv, InOrder
    <3>3. Len(delivered) \in Nat /\ Len(delivered') \in Nat
      BY DEF IInv, TypeOK
    <3>4. \A i \in Len(delivered) + 1 .. Len(delivered') :
             delivered'[i] \in given' /\ delivered'[i].number = i - 1
      BY <3>2, <3>3
    <3> QED  BY <3>1, <3>4 DEF Promise!Next
  <2>2. CASE UNCHANGED vars
    BY <2>2 DEF vars, Promise!ordVars
  <2> QED  BY <2>1, <2>2
<1> QED
  BY Invariance, <1>1, <1>2, PTL DEF Spec, ImplementsOrderedDelivery, Promise!Spec

=============================================================================
