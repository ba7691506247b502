-------------------------- MODULE StageDataHandler --------------------------
(***************************************************************************)
(* One stage data handler driven by any stage: entries are added in any    *)
(* order, one or several at a time, and every flush meets whatever amount  *)
(* the next stage accepts at that moment. given and delivered are history  *)
(* variables: what was added so far and what was handed over so far.       *)
(***************************************************************************)
EXTENDS DataHandler

CONSTANTS
    Entry,      \* the values of T; each has a field "number"
    MaxStored,  \* m_max_stored_entries
    Amount      \* the amounts the next stage may accept when it is asked

ASSUME EntryAssumption == \A e \in Entry : e.number \in Nat

ASSUME SizeAssumption ==
    /\ MaxStored \in Nat \ {0}
    /\ Amount \subseteq Nat
    /\ SizeModulus \in Nat \ {0}

VARIABLES handler, given, delivered

vars == <<handler, given, delivered>>

-----------------------------------------------------------------------------
Init ==
    /\ handler = EmptyHandler
    /\ given = {}
    /\ delivered = <<>>

(* No two entries carry the same number: the stages number their entries   *)
(* from a counter.                                                         *)
DistinctNumbers(entries) ==
    \A e, f \in entries : e.number = f.number => e = f

(* try_flush on the handler h, the next stage accepting amount. *)
FlushFrom(h, amount) ==
    LET p == TryProcessInput(h)
        n == DeliverAmount(p, MaxStored, amount)
    IN  /\ handler' = Kept(p, n)
        /\ delivered' = delivered \o Taken(p, n)

(* add: one entry (stage_data_handler::add(T)) or a vector of them. *)
Add(entries, amount) ==
    /\ entries \intersect given = {}
    /\ DistinctNumbers(given \union entries)
    /\ given' = given \union entries
    /\ FlushFrom([handler EXCEPT !.in = @ \union entries], amount)

Flush(amount) ==
    /\ FlushFrom(handler, amount)
    /\ UNCHANGED given

(* The next stage announces a free place, so its amount is not zero. *)
FlushWanted == \E amount \in Amount \ {0} : Flush(amount)

Next ==
    \/ \E entries \in SUBSET Entry, amount \in Amount :
          /\ IsFiniteSet(entries)
          /\ entries # {}
          /\ Add(entries, amount)
    \/ \E amount \in Amount : Flush(amount)

Spec == Init /\ [][Next]_vars

(* The next stage asks again and again. *)
FairSpec == Spec /\ WF_vars(FlushWanted)

-----------------------------------------------------------------------------
(* Type invariant of the handler and of the two history variables.         *)
TypeOK ==
    /\ handler \in [in : SUBSET Entry, out : Seq(Entry), next : Nat]
    /\ given \in SUBSET Entry
    /\ IsFiniteSet(given)
    /\ delivered \in Seq(Entry)

(* In whatever order and batches the entries were added and however little *)
(* the next stage accepted at each flush, what was handed over and what is *)
(* ready are together the entries 0, 1, 2, ... without gap or repetition,  *)
(* and m_next is the number that is missing next.                          *)
InOrder ==
    /\ handler.next = Len(delivered) + Len(handler.out)
    /\ \A i \in 1 .. Len(delivered) :
          delivered[i] \in given /\ delivered[i].number = i - 1
    /\ \A i \in 1 .. Len(handler.out) :
          handler.out[i] \in given /\ handler.out[i].number = Len(delivered) + i - 1

(* No entry is lost and none is kept back: the queue holds exactly the     *)
(* added entries above the missing number. In particular the top of the    *)
(* queue is never below m_next, which would block the queue forever, and   *)
(* never equal to it, which would be an entry that could be ready.         *)
QueueWaitsForGap ==
    /\ handler.in = {e \in given : e.number >= handler.next}
    /\ \A e \in given : e.number # handler.next

(* While the next stage keeps asking, every entry whose predecessors were  *)
(* all added is handed over in the end.                                    *)
CompletePrefixDelivered ==
    \A n \in NumbersOf(Entry) :
        (0 .. n \subseteq NumbersOf(given)) ~> (Len(delivered) > n)

(* The handler implements the promise of its header.                       *)
Promise == INSTANCE OrderedDelivery
ImplementsOrderedDelivery == Promise!Spec

=============================================================================
