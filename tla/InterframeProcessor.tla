------------------------- MODULE InterframeProcessor -------------------------
(***************************************************************************)
(* processors::interframe, the third stage: it evaluates the inter-frame   *)
(* script for every two successive images, so n images give n - 1 results. *)
(* Where the class repeats the code of processors::frame, the definitions  *)
(* are those of module FrameProcessor.                                     *)
(***************************************************************************)
EXTENDS DataHandler, Stages

CONSTANTS MaxOut, Self, Prev, Succ

Common == INSTANCE FrameProcessor

(* buffer is buffer_in.data, as a set, as its order does not matter: every *)
(* round sorts it. nextFrame is buffer_in.next_frame, created              *)
(* status.frames_created.                                                  *)
NoContext ==
    [exists |-> FALSE, sdh |-> EmptyHandler, waiting |-> 0, prevFinished |-> FALSE,
     script |-> "none", framesId |-> 0, eff |-> NoEffects,
     buffer |-> {}, nextFrame |-> 0, created |-> 0]

Init(c)              == Common!Init(c)
Params(c)            == Common!Params(c)
Start(c)             == Common!Start(c)
Finish(c)            == Common!Finish(c)
Next(c, amount)      == Common!Next(c, amount)
Evaluated(c, frame)  == Common!Evaluated(c, frame)
EvaluationFailed(c)  == Common!EvaluationFailed(c)

(* The continuation of the compilation reports a failure.                  *)
Compiled(c, ok, id) ==
    IF ok THEN Common!Compiled(c, ok, id)
          ELSE Report(Common!Compiled(c, ok, id), "failed")

-----------------------------------------------------------------------------
(* The number of the last frame of the unbroken run that starts with       *)
(* nextFrame; with a single frame in the buffer the loop stops one behind. *)
LastOfRun(c) ==
    LET gap == Min((c.nextFrame .. c.nextFrame + Cardinality(c.buffer))
                       \ NumbersOf(c.buffer))
    IN  IF Cardinality(c.buffer) > 1 THEN (gap - 1) % SizeModulus ELSE gap

(* A mutant: the last two frames stay. *)
KeptFromLastButOne(c, last) ==
    {f \in c.buffer : f.number >= (last - 1) % SizeModulus}

(* The last frame of the run stays in the buffer: it is also the first one *)
(* of the next round.                                                      *)
KeptFromLast(c, last) ==
    {f \in c.buffer : f.number > (last - 1) % SizeModulus}

(* There is one result less than there are images, so the flush frame gets *)
(* the number before its own.                                              *)
FlushNumberTwoLess(n) == (n - 2) % SizeModulus

FlushNumber(n) == (n - 1) % SizeModulus

(* How many results were asked for so far, after one more round with the   *)
(* images, and perhaps the flush frame.                                    *)
CreatedIgnoringOverlap(c, images, flush) ==
    (c.created + Cardinality(images) - (IF flush = {} THEN 0 ELSE 1)) % SizeModulus

CreatedForgotten(c, images, flush) == c.created

Created(c, images, flush) ==
    (c.created + Cardinality(images) - 1 - (IF flush = {} THEN 0 ELSE 1)) % SizeModulus

(* The neighbours in the sorted images, and how many come before them.     *)
Neighbours(images) ==
    {p \in images \X images :
        /\ p[1].number < p[2].number
        /\ \A f \in images : f.number <= p[1].number \/ f.number >= p[2].number}

Before(images, f) == {g \in images : g.number < f.number}

(* try_process_input: take the run, and ask for a result for every two     *)
(* neighbours of its images.                                               *)
PairUp(c) ==
    LET last    == LastOfRun(c)
        run     == {f \in c.buffer : f.number <= last}
        images  == {f \in run : ~IsFlush(f)}
        flush   == {FlushFrame(FlushNumber(f.number)) : f \in run \ images}
        kept    == [c EXCEPT !.buffer = KeptFromLast(c, last), !.nextFrame = last]
        asked   == Evaluate(kept,
                      {Common!Job(c, c.created + Cardinality(Before(images, p[1])),
                                  p[1].image \o p[2].image) : p \in Neighbours(images)})
        flushed == IF flush = {} THEN asked ELSE Common!AddAll(asked, flush)
    IN  IF c.buffer = {} THEN c
        ELSE IF Cardinality(run) < 2 THEN Common!Flush(c)
        ELSE [flushed EXCEPT !.created = Created(c, images, flush)]

(* process: put the frames into the buffer.                                *)
Process(c, frames) ==
    IF c.exists THEN PairUp([c EXCEPT !.buffer = @ \union Range(frames)]) ELSE c

=============================================================================
