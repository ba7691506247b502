-------------------------- MODULE DataHandlerProofs --------------------------
(***************************************************************************)
(* What the operations of stage_data_handler do to a handler whose queue   *)
(* and output are in order, whatever the entries are.                      *)
(***************************************************************************)
EXTENDS DataHandler, FiniteSetTheorems, WellFoundedInduction,
        SequenceTheorems, TLAPS

(* The smaller of three numbers, as try_flush computes it, is one of them  *)
(* and not above any.                                                      *)
LEMMA MinOfThree ==
    ASSUME NEW a \in Nat, NEW b \in Nat, NEW c \in Nat
    PROVE  /\ Min({a, b, c}) \in Nat
           /\ Min({a, b, c}) <= a /\ Min({a, b, c}) <= b /\ Min({a, b, c}) <= c
<1> DEFINE S == {a, b, c}
<1>1. \E x \in S : \A y \in S : x <= y
  <2>1. CASE a <= b /\ a <= c  BY <2>1
  <2>2. CASE b <= a /\ b <= c  BY <2>2
  <2>3. CASE c <= a /\ c <= b  BY <2>3
  <2> QED  BY <2>1, <2>2, <2>3
<1>2. Min(S) \in S /\ \A y \in S : Min(S) <= y
  BY <1>1 DEF Min
<1> QED  BY <1>2

(* A non-empty set of numbers has a smallest element, and Min is it.       *)
LEMMA MinOfNumbers ==
    ASSUME NEW S \in SUBSET Nat, S # {}
    PROVE  Min(S) \in S /\ \A y \in S : Min(S) <= y
<1> DEFINE Less == {ss \in Nat \X Nat : ss[1] < ss[2]}
<1>1. IsWellFoundedOn(Less, Nat)
  BY NatLessThanWellFounded DEF OpToRel
<1>2. PICK x \in S : \A y \in S : ~ (<<y, x>> \in Less)
  BY <1>1, WFMin
<1>3. ASSUME NEW y \in S PROVE x <= y
  <2>1. <<y, x>> \notin Less
    BY <1>2
  <2>2. x \in Nat /\ y \in Nat
    OBVIOUS
  <2> HIDE DEF Less
  <2>3. <<y, x>> \in Less <=> y < x
    BY <2>2 DEF Less
  <2> QED  BY <2>1, <2>2, <2>3
<1> QED  BY <1>3 DEF Min

(* The numbers of finitely many entries are finitely many, at most as many *)
(* as there are entries.                                                   *)
LEMMA FiniteNumbers ==
    ASSUME NEW entries, IsFiniteSet(entries)
    PROVE  /\ IsFiniteSet(NumbersOf(entries))
           /\ Cardinality(NumbersOf(entries)) <= Cardinality(entries)
<1> DEFINE f == [e \in entries |-> e.number]
<1>1. f \in Surjection(entries, NumbersOf(entries))
  BY DEF Surjection, NumbersOf
<1> QED  BY <1>1, FS_Surjection

(* From any number on, finitely many entries leave a first gap, at most as *)
(* many numbers behind as there are entries.                               *)
LEMMA FirstGap ==
    ASSUME NEW n \in Nat, NEW entries, IsFiniteSet(entries),
           NEW end, end = Min((n .. n + Cardinality(entries)) \ NumbersOf(entries))
    PROVE  /\ end \in Nat
           /\ end >= n
           /\ end \notin NumbersOf(entries)
           /\ \A k \in n .. end - 1 : k \in NumbersOf(entries)
<1> DEFINE c == Cardinality(entries)
           gaps == (n .. n + c) \ NumbersOf(entries)
<1>1. c \in Nat
  BY FS_CardinalityType
<1>2. gaps # {}
  <2> SUFFICES ASSUME n .. n + c \subseteq NumbersOf(entries) PROVE FALSE
    OBVIOUS
  <2>1. Cardinality(n .. n + c) = c + 1
    BY <1>1, FS_Interval
  <2>2. Cardinality(n .. n + c) <= Cardinality(NumbersOf(entries))
    BY FiniteNumbers, FS_Subset
  <2>3. Cardinality(NumbersOf(entries)) <= c /\ Cardinality(NumbersOf(entries)) \in Nat
    BY FiniteNumbers, FS_CardinalityType
  <2> QED  BY <1>1, <2>1, <2>2, <2>3
<1>3. gaps \in SUBSET Nat
  BY <1>1
<1>4. end \in gaps /\ \A y \in gaps : end <= y
  BY <1>2, <1>3, MinOfNumbers
<1>5. ASSUME NEW k \in n .. end - 1 PROVE k \in NumbersOf(entries)
  BY <1>1, <1>4
<1> QED  BY <1>1, <1>4, <1>5

(* try_process_input finds the end of the run: every number from next up   *)
(* to it is in the queue, it is not.                                       *)
LEMMA RunEndIsFirstGap ==
    ASSUME NEW h, h.next \in Nat, IsFiniteSet(h.in),
           \A e \in h.in : e.number \in Nat /\ e.number >= h.next
    PROVE  /\ RunEnd(h) \in Nat
           /\ RunEnd(h) >= h.next
           /\ RunEnd(h) \notin NumbersOf(h.in)
           /\ \A k \in h.next .. RunEnd(h) - 1 : k \in NumbersOf(h.in)
<1>1. RunEnd(h) = Min((h.next .. h.next + Cardinality(h.in)) \ NumbersOf(h.in))
  BY DEF RunEnd
<1> QED BY <1>1, FirstGap

-----------------------------------------------------------------------------
(* A handler with entries of a set A: none with a number below next waits, *)
(* no two with the same number, and the output goes on up to next.         *)
Orderly(h, A) ==
    /\ h \in [in : SUBSET A, out : Seq(A), next : Nat]
    /\ IsFiniteSet(h.in)
    /\ \A e \in h.in : e.number >= h.next
    /\ \A e, f \in h.in : e.number = f.number => e = f
    /\ Len(h.out) <= h.next
    /\ \A i \in 1 .. Len(h.out) : h.out[i].number = (h.next - Len(h.out)) + (i - 1)

(* The numbers that a handler has seen: they wait, or are below next.      *)
Seen(h) == NumbersOf(h.in) \union 0 .. h.next - 1

(* What was handed over: the numbers below this one.                       *)
Handed(h) == h.next - Len(h.out)

(* Weaker: entries, whatever their numbers.                                *)
Typed(h, A) == h \in [in : SUBSET A, out : Seq(A), next : Nat] /\ IsFiniteSet(h.in)

(* The run that try_process_input takes is made of entries of the queue.   *)
LEMMA RunIsWaiting ==
    ASSUME NEW A, \A e \in A : e.number \in Nat, NEW h, Typed(h, A)
    PROVE  /\ RunEnd(h) \in Nat /\ RunEnd(h) >= h.next
           /\ RunOf(h) \in Seq(A) /\ Len(RunOf(h)) = RunEnd(h) - h.next
           /\ \A i \in 1 .. RunEnd(h) - h.next :
                 RunOf(h)[i] \in h.in /\ RunOf(h)[i].number = h.next + (i - 1)
           /\ h.next .. RunEnd(h) - 1 \subseteq NumbersOf(h.in)
<1>1. h.next \in Nat /\ h.in \subseteq A /\ IsFiniteSet(h.in)
  BY DEF Typed
<1>2. /\ RunEnd(h) \in Nat /\ RunEnd(h) >= h.next
      /\ \A k \in h.next .. RunEnd(h) - 1 : k \in NumbersOf(h.in)
  <2>1. CASE \E e \in h.in : e.number < h.next
    BY <2>1, <1>1 DEF RunEnd
  <2>2. CASE \A e \in h.in : e.number >= h.next
    BY <2>2, <1>1, RunEndIsFirstGap
  <2> QED BY <2>1, <2>2, <1>1
<1> DEFINE m == RunEnd(h) - h.next
<1>3. m \in Nat
  BY <1>1, <1>2
<1>4. \A i \in 1 .. m :
         /\ Numbered(h.in, h.next + i - 1) \in h.in
         /\ Numbered(h.in, h.next + i - 1).number = h.next + i - 1
  <2> SUFFICES ASSUME NEW i \in 1 .. m
               PROVE  /\ Numbered(h.in, h.next + i - 1) \in h.in
                      /\ Numbered(h.in, h.next + i - 1).number = h.next + i - 1
    OBVIOUS
  <2>1. h.next + i - 1 \in h.next .. RunEnd(h) - 1
    BY <1>1, <1>2, <1>3
  <2>2. \E e \in h.in : e.number = h.next + i - 1
    BY <2>1, <1>2 DEF NumbersOf
  <2> QED  BY <2>2 DEF Numbered
<1>5. RunOf(h) = [i \in 1 .. m |-> Numbered(h.in, h.next + i - 1)]
  BY DEF RunOf
<1>6. RunOf(h) \in [1 .. m -> A]
  BY <1>5, <1>1, <1>4
<1>7. \A i \in 1 .. m : RunOf(h)[i] \in h.in /\ RunOf(h)[i].number = h.next + (i - 1)
  <2> SUFFICES ASSUME NEW i \in 1 .. m
               PROVE  RunOf(h)[i] \in h.in /\ RunOf(h)[i].number = h.next + (i - 1)
    OBVIOUS
  <2>1. RunOf(h)[i] = Numbered(h.in, h.next + i - 1)
    BY <1>5
  <2>2. h.next + i - 1 = h.next + (i - 1)
    BY <1>1, <1>3
  <2> QED BY <1>4, <2>1, <2>2
<1> HIDE DEF m
<1>8. RunOf(h) \in Seq(A) /\ Len(RunOf(h)) = m
  BY <1>6, <1>3
<1> QED BY <1>2, <1>7, <1>8 DEF m

LEMMA ProcessInputFields ==
    ASSUME NEW h
    PROVE  /\ TryProcessInput(h).in = {e \in h.in : e.number \notin h.next .. RunEnd(h) - 1}
           /\ TryProcessInput(h).out = h.out \o RunOf(h)
           /\ TryProcessInput(h).next = RunEnd(h)
BY DEF TryProcessInput

LEMMA ProcessInputTyped ==
    ASSUME NEW A, \A e \in A : e.number \in Nat, NEW h, Typed(h, A)
    PROVE  Typed(TryProcessInput(h), A)
<1>1. /\ h.in \subseteq A /\ IsFiniteSet(h.in) /\ h.out \in Seq(A)
  BY DEF Typed
<1>2. RunEnd(h) \in Nat /\ h.out \o RunOf(h) \in Seq(A)
  BY <1>1, RunIsWaiting
<1>3. /\ {e \in h.in : e.number \notin h.next .. RunEnd(h) - 1} \subseteq A
      /\ IsFiniteSet({e \in h.in : e.number \notin h.next .. RunEnd(h) - 1})
  BY <1>1, FS_Subset
<1> QED BY <1>2, <1>3 DEF Typed, TryProcessInput

(* try_process_input leaves an orderly handler orderly, and settled: the   *)
(* number that is missing next does not wait.                              *)
LEMMA ProcessInputOrderly ==
    ASSUME NEW A, \A e \in A : e.number \in Nat, NEW h, Orderly(h, A)
    PROVE  /\ Orderly(TryProcessInput(h), A)
           /\ TryProcessInput(h).next >= h.next
           /\ TryProcessInput(h).in \subseteq h.in
           /\ TryProcessInput(h).next \notin NumbersOf(TryProcessInput(h).in)
           /\ Seen(TryProcessInput(h)) = Seen(h)
           /\ Handed(TryProcessInput(h)) = Handed(h)
           /\ \A n \in Nat : NumbersOf(h.in) \subseteq 0 .. n - 1 /\ h.next <= n
                                => TryProcessInput(h).next <= n
<1> DEFINE p == TryProcessInput(h)
<1>1. /\ h.in \subseteq A /\ IsFiniteSet(h.in) /\ h.out \in Seq(A) /\ h.next \in Nat
      /\ Len(h.out) \in Nat /\ Len(h.out) <= h.next /\ Typed(h, A)
      /\ \A e \in h.in : e.number \in Nat /\ e.number >= h.next
  BY DEF Orderly, Typed
<1>2. /\ RunEnd(h) \in Nat /\ RunEnd(h) >= h.next
      /\ RunOf(h) \in Seq(A) /\ Len(RunOf(h)) = RunEnd(h) - h.next
      /\ \A i \in 1 .. RunEnd(h) - h.next :
            RunOf(h)[i] \in h.in /\ RunOf(h)[i].number = h.next + (i - 1)
      /\ h.next .. RunEnd(h) - 1 \subseteq NumbersOf(h.in)
  BY <1>1, RunIsWaiting
<1>3. RunEnd(h) \notin NumbersOf(h.in)
  BY <1>1, RunEndIsFirstGap
<1>4. /\ p.in = {e \in h.in : e.number \notin h.next .. RunEnd(h) - 1}
      /\ p.out = h.out \o RunOf(h)
      /\ p.next = RunEnd(h)
  BY ProcessInputFields
<1>5. Typed(p, A)
  BY <1>1, ProcessInputTyped
<1> HIDE DEF p
<1>6. p.in \subseteq h.in /\ p.next \in Nat /\ p.next >= h.next /\ p.next \notin NumbersOf(p.in)
  BY <1>2, <1>3, <1>4 DEF NumbersOf
<1>7. \A e \in p.in : e.number >= p.next
  BY <1>1, <1>2, <1>4
<1>8. \A e, f \in p.in : e.number = f.number => e = f
  BY <1>4 DEF Orderly
<1>9. /\ Len(p.out) = Len(h.out) + (RunEnd(h) - h.next)
      /\ \A i \in 1 .. Len(p.out) :
             p.out[i] = IF i <= Len(h.out) THEN h.out[i] ELSE RunOf(h)[i - Len(h.out)]
  <2>1. /\ Len(h.out \o RunOf(h)) = Len(h.out) + Len(RunOf(h))
        /\ \A i \in 1 .. Len(h.out) + Len(RunOf(h)) :
              (h.out \o RunOf(h))[i] = IF i <= Len(h.out) THEN h.out[i] ELSE RunOf(h)[i - Len(h.out)]
    BY <1>1, <1>2, ConcatProperties
  <2> QED  BY <2>1, <1>2, <1>4
<1>10. Len(p.out) <= p.next /\ p.next - Len(p.out) = h.next - Len(h.out)
  BY <1>1, <1>2, <1>4, <1>9
<1>11. ASSUME NEW i \in 1 .. Len(p.out)
       PROVE  p.out[i].number = (p.next - Len(p.out)) + (i - 1)
  <2>1. CASE i <= Len(h.out)
    <3>1. i \in 1 .. Len(h.out) /\ p.out[i] = h.out[i]
      BY <2>1, <1>1, <1>9
    <3>2. h.out[i].number = (h.next - Len(h.out)) + (i - 1)
      BY <3>1 DEF Orderly
    <3> QED  BY <3>1, <3>2, <1>10
  <2>2. CASE i > Len(h.out)
    <3>1. i - Len(h.out) \in 1 .. RunEnd(h) - h.next /\ p.out[i] = RunOf(h)[i - Len(h.out)]
      BY <2>2, <1>1, <1>2, <1>9
    <3>2. p.out[i].number = h.next + ((i - Len(h.out)) - 1)
      BY <3>1, <1>2
    <3> QED  BY <3>2, <1>1, <1>10
  <2> QED  BY <2>1, <2>2, <1>1
<1>12. Orderly(p, A)
  BY <1>5, <1>7, <1>8, <1>10, <1>11 DEF Orderly, Typed
<1>13. Seen(p) = Seen(h)
  <2>1. ASSUME NEW n PROVE n \in Seen(p) <=> n \in Seen(h)
    <3>1. n \in NumbersOf(p.in) <=> n \in NumbersOf(h.in) /\ n \notin h.next .. RunEnd(h) - 1
      BY <1>4 DEF NumbersOf
    <3>2. n \in NumbersOf(h.in) => n \in Nat
      BY <1>1 DEF NumbersOf
    <3> QED BY <3>1, <3>2, <1>1, <1>2, <1>4 DEF Seen
  <2> QED BY <2>1
<1>14. ASSUME NEW n \in Nat, NumbersOf(h.in) \subseteq 0 .. n - 1, h.next <= n
       PROVE  p.next <= n
  <2> SUFFICES ASSUME p.next > n PROVE FALSE
    BY <1>6
  <2>1. n \in h.next .. RunEnd(h) - 1
    BY <1>1, <1>2, <1>4, <1>14
  <2> QED BY <2>1, <1>2, <1>14
<1> QED BY <1>6, <1>10, <1>12, <1>13, <1>14 DEF p, Handed

(* Handing over the first n entries of the output.                         *)
LEMMA KeptTyped ==
    ASSUME NEW A, NEW h, Typed(h, A), NEW n \in 0 .. Len(h.out)
    PROVE  /\ Typed(Kept(h, n), A)
           /\ Kept(h, n).in = h.in /\ Kept(h, n).next = h.next
           /\ Len(Kept(h, n).out) = Len(h.out) - n
           /\ \A i \in 1 .. Len(h.out) - n : Kept(h, n).out[i] = h.out[n + i]
           /\ Taken(h, n) \in Seq(A) /\ Len(Taken(h, n)) = n
           /\ \A i \in 1 .. n : Taken(h, n)[i] = h.out[i]
<1>1. h.out \in Seq(A) /\ Len(h.out) \in Nat /\ n \in Nat /\ n <= Len(h.out)
  BY DEF Typed
<1>2. /\ SubSeq(h.out, 1, n) \in Seq(A) /\ Len(SubSeq(h.out, 1, n)) = n
      /\ \A i \in 1 .. n : SubSeq(h.out, 1, n)[i] = h.out[i]
  <2>1. \A i \in 1 .. n : h.out[i] \in A
    BY <1>1
  <2> QED  BY <2>1, <1>1, SubSeqProperties
<1>3. /\ SubSeq(h.out, n + 1, Len(h.out)) \in Seq(A)
      /\ Len(SubSeq(h.out, n + 1, Len(h.out))) = Len(h.out) - n
      /\ \A i \in 1 .. Len(h.out) - n : SubSeq(h.out, n + 1, Len(h.out))[i] = h.out[n + i]
  <2>1. \A i \in n + 1 .. Len(h.out) : h.out[i] \in A
    BY <1>1
  <2> QED  BY <2>1, <1>1, SubSeqProperties
<1>4. Kept(h, n) = [h EXCEPT !.out = SubSeq(h.out, n + 1, Len(h.out))]
  BY DEF Kept
<1>5. /\ Kept(h, n) \in [in : SUBSET A, out : Seq(A), next : Nat]
      /\ Kept(h, n).in = h.in /\ Kept(h, n).next = h.next
      /\ Kept(h, n).out = SubSeq(h.out, n + 1, Len(h.out))
  BY <1>3, <1>4 DEF Typed
<1> QED BY <1>2, <1>3, <1>5 DEF Typed, Taken

LEMMA KeptOrderly ==
    ASSUME NEW A, NEW h, Orderly(h, A), NEW n \in 0 .. Len(h.out)
    PROVE  /\ Orderly(Kept(h, n), A)
           /\ Kept(h, n).in = h.in /\ Kept(h, n).next = h.next
           /\ Handed(Kept(h, n)) = Handed(h) + n
           /\ Taken(h, n) \in Seq(A) /\ Len(Taken(h, n)) = n
           /\ \A i \in 1 .. n : Taken(h, n)[i] \in A /\ Taken(h, n)[i].number = Handed(h) + (i - 1)
<1> DEFINE k == Kept(h, n)
           t == Taken(h, n)
<1>1. /\ Typed(h, A) /\ h.next \in Nat /\ Len(h.out) \in Nat /\ Len(h.out) <= h.next
      /\ h.out \in Seq(A) /\ n \in Nat /\ n <= Len(h.out)
  BY DEF Orderly, Typed
<1>2. /\ Typed(k, A) /\ k.in = h.in /\ k.next = h.next
      /\ Len(k.out) = Len(h.out) - n
      /\ \A i \in 1 .. Len(h.out) - n : k.out[i] = h.out[n + i]
      /\ t \in Seq(A) /\ Len(t) = n
      /\ \A i \in 1 .. n : t[i] = h.out[i]
  BY <1>1, KeptTyped
<1> HIDE DEF k, t
<1>3. \A i \in 1 .. Len(h.out) : h.out[i].number = (h.next - Len(h.out)) + (i - 1)
  BY DEF Orderly
<1>4. ASSUME NEW i \in 1 .. Len(k.out) PROVE k.out[i].number = (k.next - Len(k.out)) + (i - 1)
  <2>1. n + i \in 1 .. Len(h.out) /\ k.out[i] = h.out[n + i]
    BY <1>1, <1>2
  <2>2. k.out[i].number = (h.next - Len(h.out)) + ((n + i) - 1)
    BY <2>1, <1>3
  <2> QED BY <2>2, <1>1, <1>2
<1>5. Orderly(k, A)
  <2>1. Len(k.out) <= k.next
    BY <1>1, <1>2
  <2>2. /\ \A e \in k.in : e.number >= k.next
        /\ \A e, f \in k.in : e.number = f.number => e = f
    BY <1>2 DEF Orderly
  <2> QED BY <2>1, <2>2, <1>2, <1>4 DEF Orderly, Typed
<1>6. Handed(k) = Handed(h) + n
  BY <1>1, <1>2 DEF Handed
<1>7. ASSUME NEW i \in 1 .. n PROVE t[i] \in A /\ t[i].number = Handed(h) + (i - 1)
  <2>1. i \in 1 .. Len(h.out) /\ t[i] = h.out[i]
    BY <1>1, <1>2
  <2>2. h.out[i] \in A
    BY <2>1, <1>1
  <2> QED BY <2>1, <2>2, <1>3 DEF Handed
<1> QED BY <1>2, <1>5, <1>6, <1>7 DEF k, t

(* Entries with new numbers may be put into the queue.                     *)
LEMMA AddedOrderly ==
    ASSUME NEW A, \A e \in A : e.number \in Nat, NEW h, Orderly(h, A),
           NEW E \in SUBSET A, IsFiniteSet(E),
           \A e, f \in E : e.number = f.number => e = f,
           NumbersOf(E) \intersect Seen(h) = {}
    PROVE  /\ Orderly([h EXCEPT !.in = @ \union E], A)
           /\ Seen([h EXCEPT !.in = @ \union E]) = Seen(h) \union NumbersOf(E)
           /\ Handed([h EXCEPT !.in = @ \union E]) = Handed(h)
<1> DEFINE g == [h EXCEPT !.in = @ \union E]
<1>1. /\ g \in [in : SUBSET A, out : Seq(A), next : Nat]
      /\ g.in = h.in \union E /\ g.out = h.out /\ g.next = h.next
      /\ h.next \in Nat
  BY DEF Orderly
<1>2. IsFiniteSet(g.in)
  BY <1>1, FS_Union DEF Orderly
<1> HIDE DEF g
<1>3. \A e \in E : e.number \in Nat /\ e.number >= h.next /\ \A f \in h.in : f.number # e.number
  <2> SUFFICES ASSUME NEW e \in E
               PROVE  e.number \in Nat /\ e.number >= h.next /\ \A f \in h.in : f.number # e.number
    OBVIOUS
  <2>1. e.number \in Nat /\ e.number \notin Seen(h)
    BY DEF NumbersOf
  <2> QED BY <2>1, <1>1 DEF Seen, NumbersOf
<1>4. Orderly(g, A)
  BY <1>1, <1>2, <1>3 DEF Orderly
<1>5. Seen(g) = Seen(h) \union NumbersOf(E)
  BY <1>1 DEF Seen, NumbersOf
<1> QED BY <1>1, <1>4, <1>5 DEF g, Handed

(* The amounts of try_flush and of free().                                 *)
LEMMA DeliverAmountFits ==
    ASSUME NEW h, Len(h.out) \in Nat, NEW max \in Nat, NEW amount \in Nat
    PROVE  /\ DeliverAmount(h, max, amount) \in 0 .. Len(h.out)
           /\ DeliverAmount(h, max, amount) <= amount
<1>1. /\ DeliverAmount(h, max, amount) \in Nat
      /\ DeliverAmount(h, max, amount) <= Len(h.out)
      /\ DeliverAmount(h, max, amount) <= amount
  BY MinOfThree DEF DeliverAmount
<1> QED BY <1>1

LEMMA FreeFits ==
    ASSUME SizeModulus \in Nat \ {0}, NEW h, IsFiniteSet(h.in), Len(h.out) \in Nat,
           NEW max \in Nat
    PROVE  Free(h, max) \in 0 .. max
<1> DEFINE x == (max - Cardinality(h.in)) + Len(h.out)
           r == x % SizeModulus
<1>1. r \in Nat
  <2>1. x \in Int
    BY FS_CardinalityType
  <2> HIDE DEF x
  <2>2. x % SizeModulus \in Nat
    BY <2>1
  <2> QED BY <2>2
<1>2. Free(h, max) = Min({r, max})
  BY DEF Free
<1> HIDE DEF x, r
<1>3. {r, max} \in SUBSET Nat /\ {r, max} # {}
  BY <1>1
<1>4. Min({r, max}) \in {r, max} /\ \A y \in {r, max} : Min({r, max}) <= y
  BY <1>3, MinOfNumbers
<1> QED BY <1>1, <1>2, <1>4

=============================================================================
