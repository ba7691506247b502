-------------------------- MODULE OrderedDelivery --------------------------
(***************************************************************************)
(* What a stage data handler promises to the two stages it connects        *)
(* (stage_data_handler.hpp): data goes in in any order and comes out in    *)
(* the order of the numbers, every entry once, none that was not put in.   *)
(***************************************************************************)
EXTENDS Naturals, Sequences

VARIABLES
    given,      \* the set of entries put in so far
    delivered   \* the sequence of entries handed to the next stage so far

ordVars == <<given, delivered>>

Init ==
    /\ given = {}
    /\ delivered = <<>>

(* Any entries may come in and any number of them go out, as long as what  *)
(* goes out continues the numbering without a gap.                         *)
Next ==
    /\ given \subseteq given'
    /\ Len(delivered) <= Len(delivered')
    /\ \A i \in 1 .. Len(delivered) : delivered'[i] = delivered[i]
    /\ \A i \in Len(delivered) + 1 .. Len(delivered') :
          /\ delivered'[i] \in given'
          /\ delivered'[i].number = i - 1

Spec == Init /\ [][Next]_ordVars

=============================================================================
