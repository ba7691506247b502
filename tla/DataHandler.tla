---------------------------- MODULE DataHandler ----------------------------
(***************************************************************************)
(* The operations of stage_data_handler<T>, the reordering buffer that     *)
(* every stage of a video pipeline puts in front of the next one.          *)
(*                                                                         *)
(* A handler is a record with the fields                                   *)
(*   in   the entries that wait for a smaller number (m_in_data). The      *)
(*        priority queue is modelled as a set: its order is the order of   *)
(*        the numbers, and no number is added twice.                       *)
(*   out  the entries in order, ready for the next stage (m_out_data)      *)
(*   next the number that out goes on with (m_next)                        *)
(*                                                                         *)
(* An entry is any record with a field "number" (T::number()).             *)
(*                                                                         *)
(* Some operators are preceded by a wrong variant of the same signature    *)
(* (RunEndOfOne before RunEnd, and so on). No definition uses it; it is    *)
(* the plausible slip of the code that a property has to notice.           *)
(***************************************************************************)
EXTENDS Integers, Sequences, FiniteSets, FiniteSetsExt

CONSTANT SizeModulus    \* 2^64: std::size_t counts modulo this number

NumbersOf(entries) == {e.number : e \in entries}

EmptyHandler == [in |-> {}, out |-> <<>>, next |-> 0]

-----------------------------------------------------------------------------
(* m_max_stored_entries - m_in_data.size() + m_out_data.size(), computed in *)
(* std::size_t: it wraps around when more entries wait than max plus those  *)
(* that are ready.                                                          *)

Free(h, max) ==
    Min({(max - Cardinality(h.in) + Len(h.out)) % SizeModulus, max})

Full(h, max) == Free(h, max) = 0

-----------------------------------------------------------------------------
(* try_process_input moves the entries numbered next, next + 1, ... from   *)
(* the queue to the output, up to the first number that is not there. The  *)
(* loop looks at the top of the queue only, so a smaller number that was   *)
(* left behind would block it.                                             *)

RunEndOfOne(h) == IF h.next \in NumbersOf(h.in) THEN h.next + 1 ELSE h.next

RunEnd(h) ==
    IF \E e \in h.in : e.number < h.next
    THEN h.next
    ELSE Min((h.next .. h.next + Cardinality(h.in)) \ NumbersOf(h.in))

Numbered(entries, n) == CHOOSE e \in entries : e.number = n

(* The run h.next .. RunEnd(h) - 1 as a sequence. *)
RunOf(h) == [i \in 1 .. RunEnd(h) - h.next |-> Numbered(h.in, h.next + i - 1)]

ProcessInputCountingDown(h) ==
    [in   |-> {e \in h.in : e.number \notin h.next .. RunEnd(h) - 1},
     out  |-> h.out \o RunOf(h),
     next |-> h.next - Len(RunOf(h))]

TryProcessInput(h) ==
    [in   |-> {e \in h.in : e.number \notin h.next .. RunEnd(h) - 1},
     out  |-> h.out \o RunOf(h),
     next |-> RunEnd(h)]

-----------------------------------------------------------------------------
(* How many entries a flush hands over when the next stage accepts amount: *)
(* all of them when they fit, else as many as fit, from the front.         *)

DeliverAllOrNothing(h, max, amount) ==
    IF Min({max, amount}) >= Len(h.out) THEN Len(h.out) ELSE 0

DeliverAmount(h, max, amount) == Min({Len(h.out), max, amount})

Taken(h, n) == SubSeq(h.out, 1, n)

KeptOneLess(h, n) == [h EXCEPT !.out = SubSeq(@, n + 2, Len(@))]

KeptOneMore(h, n) == [h EXCEPT !.out = SubSeq(@, Max({1, n}), Len(@))]

Kept(h, n) == [h EXCEPT !.out = SubSeq(@, n + 1, Len(@))]

(***************************************************************************)
(* try_flush of a stage whose context c has its handler in the field sdh.  *)
(* The three callbacks of the handler are operators on the context:        *)
(* Amount(c) is what the next stage accepts now, Deliver(c, entries) hands *)
(* entries over, Trigger(c) asks the previous stage for new data. A flush  *)
(* with nothing ready triggers; one with something ready that is not       *)
(* wanted does nothing.                                                    *)
(***************************************************************************)
TryFlush(c, max, Amount(_), Deliver(_, _), Trigger(_)) ==
    LET d == [c EXCEPT !.sdh = TryProcessInput(@)]
        n == DeliverAmount(d.sdh, max, Amount(d))
    IN  IF d.sdh.out = <<>> THEN Trigger(d)
        ELSE IF n = 0       THEN d
        ELSE Deliver([d EXCEPT !.sdh = Kept(@, n)], Taken(d.sdh, n))

(* Both overloads of add: put the entries into the queue, then flush. *)
AddEntries(c, entries, max, Amount(_), Deliver(_, _), Trigger(_)) ==
    TryFlush([c EXCEPT !.sdh.in = @ \union entries], max, Amount, Deliver, Trigger)

=============================================================================
