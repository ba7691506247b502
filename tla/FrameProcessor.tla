--------------------------- MODULE FrameProcessor ---------------------------
(***************************************************************************)
(* processors::frame, the second stage: it hands every image to the image  *)
(* processor, whose results come back in any order, and passes the results *)
(* on in the order of the frames.                                          *)
(*                                                                         *)
(* The class processors::interframe repeats this code except for process   *)
(* and for what a failed compilation does; its module instantiates this    *)
(* one, hence the names of the stage and of its neighbours are constants.  *)
(***************************************************************************)
EXTENDS DataHandler, Stages

CONSTANTS
    MaxOut,             \* m_max_frames_output_buffer
    Self, Prev, Succ    \* this stage, the one before it and the one behind it

NoContext ==
    [exists |-> FALSE, sdh |-> EmptyHandler, waiting |-> 0, prevFinished |-> FALSE,
     script |-> "none", framesId |-> 0, eff |-> NoEffects]

-----------------------------------------------------------------------------
(* The callbacks of the handler. *)

Accepts(c) == c.waiting

(* Ask the previous stage for as many frames as there are free places.     *)
Trigger(c) ==
    LET free == Free(c.sdh, MaxOut)
    IN  IF free # 0 THEN Send(c, CallNext(Prev, free)) ELSE c

Deliver(c, frames) ==
    Trigger(Send([c EXCEPT !.waiting = 0], CallWith(Succ, "process", frames)))

Flush(c)          == TryFlush(c, MaxOut, Accepts, Deliver, Trigger)
AddAll(c, frames) == AddEntries(c, frames, MaxOut, Accepts, Deliver, Trigger)

-----------------------------------------------------------------------------
(* init: create the context, have the script compiled, ask for frames.     *)
Init(c) == Flush([c EXCEPT !.exists = TRUE, !.script = "compiling"])

(* The continuation of the compilation, which ended with the number id of  *)
(* the script, or failed. A failure is not reported.                       *)
Compiled(c, ok, id) ==
    IF ok THEN Send([c EXCEPT !.script = "ready", !.framesId = id],
                    Call("pipeline", "initialized"))
          ELSE [c EXCEPT !.script = "failed", !.framesId = 0]

Params(c) == IF c.exists THEN Send(c, Call(Succ, "params")) ELSE c

Start(c) ==
    IF c.exists /\ ~c.prevFinished
    THEN Send(c, CallNext(Prev, Free(c.sdh, MaxOut))) ELSE c

Finish(c) == IF c.exists THEN [c EXCEPT !.prevFinished = TRUE] ELSE c

Next(c, amount) ==
    IF c.exists THEN Flush([c EXCEPT !.waiting = amount]) ELSE c

(* A job for the image processor: to evaluate the script with the number   *)
(* framesId for the images. It is 0 until the compilation is done.         *)
Job(c, number, images) ==
    [stage |-> Self, script |-> c.framesId, number |-> number, images |-> images]

(* process and process_next_frames: every image is evaluated; the flush    *)
(* frame is put into the output directly, ahead of the pending results.    *)
Process(c, frames) ==
    LET images == {f \in Range(frames) : ~IsFlush(f)}
        flush  == {f \in Range(frames) : IsFlush(f)}
        d      == Evaluate(c, {Job(c, f.number, f.image) : f \in images})
    IN  IF ~c.exists THEN c
        ELSE IF flush = {} THEN d ELSE AddAll(d, flush)

(* The success and the failed callback of an evaluation. *)
Evaluated(c, frame) == AddAll(c, {frame})

EvaluationFailed(c) == Report(c, "failed")

=============================================================================
