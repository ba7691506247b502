------------------------------- MODULE Stages -------------------------------
(***************************************************************************)
(* The vocabulary the stages of a pipeline share: frames, the calls the    *)
(* stages make to each other through their proxies, and the effects that   *)
(* a handler collects while it runs.                                       *)
(*                                                                         *)
(* A proxy call is a job posted to the queue of the callee's scheduler, so *)
(* a handler changes its own context at once and everything else by        *)
(* messages. The context of a stage is a record; its field eff collects    *)
(* what the handler sends:                                                 *)
(*   calls    jobs for the threads of stages and pipeline and for the      *)
(*            worker thread of the file sink, for each thread in order     *)
(*   jobs     evaluations for the image processor                          *)
(*   report   the finished or failed callback of the pipeline's user, if   *)
(*            it is called, "crashed" if the process ends, or "none"       *)
(***************************************************************************)
EXTENDS Sequences

Stage == {"source", "frame", "interframe", "sink"}

Thread == {"pipeline", "source", "processors", "sink", "writer"}

ThreadOf(callee) ==
    IF callee \in {"frame", "interframe"} THEN "processors" ELSE callee

-----------------------------------------------------------------------------
(* A frame has a number and an image; the frame without an image is the    *)
(* flush frame. An image stands for the images of the video that it comes   *)
(* from: <<k>> for the k-th one, also with the frame script applied to it, *)
(* <<a, b>> for the result of the inter-frame script for <<a>> and <<b>>.  *)

Frame(number, image) == [number |-> number, image |-> image]

FlushFrame(number) == Frame(number, <<>>)

IsFlush(f) == f.image = <<>>

HasFlush(frames) == \E i \in DOMAIN frames : IsFlush(frames[i])

-----------------------------------------------------------------------------
NoEffects == [calls |-> [t \in Thread |-> <<>>], jobs |-> {}, report |-> "none"]

(* A call of the operation op of a stage, of the pipeline or of the writer *)
(* of the sink. amount is the argument of next, load what is handed over:  *)
(* frames, or entries of the file, which have a number and an image too.   *)
Call(callee, op)            == [callee |-> callee, op |-> op, amount |-> 0, load |-> <<>>]
CallNext(callee, amount)    == [Call(callee, "next") EXCEPT !.amount = amount]
CallWith(callee, op, load)  == [Call(callee, op) EXCEPT !.load = load]

Send(c, call)     == [c EXCEPT !.eff.calls[ThreadOf(call.callee)] = Append(@, call)]
Report(c, result) == [c EXCEPT !.eff.report = result]
Evaluate(c, jobs) == [c EXCEPT !.eff.jobs = @ \union jobs]

=============================================================================
