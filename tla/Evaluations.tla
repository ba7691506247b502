----------------------------- MODULE Evaluations -----------------------------
(* What the callers of the image processor rely on: an evaluation they ask for *)
(* is answered at most once, and with an answer that is correct for the call.  *)
(* CorrectAnswers(call) is empty if nothing is promised for the call: it may   *)
(* get any answer, or none.                                                    *)
CONSTANT CorrectAnswers(_)

VARIABLES asked,     \* the calls that have been made
          answered   \* of those, the ones that got an answer, with the answer

vars == <<asked, answered>>

Init == asked = {} /\ answered = [c \in {} |-> c]

Ask == asked \subseteq asked' /\ UNCHANGED answered

Answer(call) ==
    /\ call \notin DOMAIN answered
    /\ DOMAIN answered' = DOMAIN answered \cup {call}
    /\ \A c \in DOMAIN answered : answered'[c] = answered[c]
    /\ CorrectAnswers(call) # {} => answered'[call] \in CorrectAnswers(call)

Next == \/ Ask
        \/ asked \subseteq asked' /\ \E call \in asked' : Answer(call)

Spec == Init /\ [][Next]_vars

=============================================================================
