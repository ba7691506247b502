------------------------ MODULE FileToFileProperties ------------------------
(* What makes the pipeline file_to_file correct. *)
EXTENDS FileToFile

(* The state of every part has its type. The size of what a stage may send *)
(* (next_waiting) never exceeds the buffer of the stage that asked for it. *)
FrameType == [number : Nat, image : Seq(Nat)]

Operation ==
    {"init", "initialized", "params", "start", "next", "process", "finish",
     "evaluated", "failed", "frames", "last", "framesWritten", "lastWritten",
     "writeFailed"}

CallType ==
    [callee : Stage \union {"pipeline", "writer"}, op : Operation, amount : Nat,
     load : Seq(FrameType)]

JobType ==
    [stage : {"frame", "interframe"}, script : Nat, number : Nat, images : Seq(Nat)]

TypeOK ==
    /\ video \in Videos
    /\ DOMAIN context = Stage
    /\ \A s \in Stage :
          /\ context[s].exists \in BOOLEAN
          /\ context[s].sdh.in \subseteq FrameType
          /\ context[s].sdh.out \in Seq(FrameType)
          /\ context[s].sdh.next \in Nat
    /\ {context.source.waiting, context.frame.waiting} \subseteq 0 .. MaxOut
    /\ context.interframe.waiting \in 0 .. MaxWrite
    /\ context.source.loaded \in 0 .. video.packets
    /\ context.interframe.buffer \subseteq FrameType
    /\ context.sink.buffer \subseteq FrameType
    /\ context.sink.written \in Seq(Seq(Nat))
    /\ queue \in [Thread -> Seq(CallType)]
    /\ images.evaluating \subseteq JobType
    /\ reports \in Seq({"finished", "failed", "crashed"})

-----------------------------------------------------------------------------
(* Where a frame is on its way through a stage: its number is in a call    *)
(* that is on the way to the stage, or with the image processor, or in a   *)
(* call that brings the result, or waits in the handler, or is below the   *)
(* handler's next.                                                         *)

Evaluating(s) == {job \in images.evaluating : job.stage = s}

(* The frames in the calls of operation op of s, by their places there.    *)
PlacesInCalls(s, op) ==
    {p \in UNION {{i} \X DOMAIN queue[ThreadOf(s)][i].load : i \in DOMAIN queue[ThreadOf(s)]} :
        queue[ThreadOf(s)][p[1]].callee = s /\ queue[ThreadOf(s)][p[1]].op = op}

NumberAt(s, p) == queue[ThreadOf(s)][p[1]].load[p[2]].number

NumbersInCalls(s, op) == {NumberAt(s, p) : p \in PlacesInCalls(s, op)}

(* The numbers that have come back to the handler of s so far.             *)
Arrived(s) == NumbersOf(context[s].sdh.in) \union 0 .. context[s].sdh.next - 1

NumbersIn(s) ==
    NumbersOf(Evaluating(s)) \union NumbersInCalls(s, "evaluated") \union Arrived(s)

(* How many frames stage s has handed to the stage behind it. *)
HandedOn(s) == context[s].sdh.next - Len(context[s].sdh.out)

(* No two results of a stage ever have the same number, wherever they are: *)
(* the handlers put results in order by their numbers alone, so a second   *)
(* result with a number would take the place of another or block the       *)
(* queue. It depends on the counters frames_processed of the source and    *)
(* frames_created of the inter-frame stage, over all their rounds.         *)
NoNumberTwice ==
    \A s \in {"frame", "interframe", "sink"} :
        /\ \A j, k \in Evaluating(s) : j.number = k.number => j = k
        /\ \A p, q \in PlacesInCalls(s, "evaluated") : NumberAt(s, p) = NumberAt(s, q) => p = q
        /\ \A e, f \in context[s].sdh.in : e.number = f.number => e = f
        /\ \A e \in context[s].sdh.in : e.number > context[s].sdh.next
        /\ NumbersOf(Evaluating(s)) \intersect NumbersInCalls(s, "evaluated") = {}
        /\ (NumbersOf(Evaluating(s)) \union NumbersInCalls(s, "evaluated"))
               \intersect Arrived(s) = {}

(* No frame is lost between the stages as long as nothing fails: what a    *)
(* stage was given it still has or has handed on. The inter-frame stage    *)
(* makes n - 1 results of n frames, the flush frame counted.               *)
NoFrameLost ==
    LET received(s, p) == HandedOn(p) - Cardinality(NumbersInCalls(s, "process"))
    IN  /\ NumbersIn("frame") = 0 .. received("frame", "source") - 1
        /\ NumbersIn("interframe") = 0 .. received("interframe", "frame") - 2
        /\ NumbersIn("sink") = 0 .. received("sink", "interframe") - 1

(* The calls between the stages find the context of the callee: nobody     *)
(* posts process, next, start or finish to a stage whose init is not       *)
(* earlier in the same queue. The handlers drop such a call silently. It   *)
(* depends on the order in which the pipeline posts the inits. The calls   *)
(* of params can come too early: the frame size is lost then.              *)
CallsFindContext ==
    \A s \in Stage :
        LET calls == queue[ThreadOf(s)]
        IN  \A i \in DOMAIN calls :
                calls[i].callee = s /\ calls[i].op \notin {"init", "params"} =>
                    \/ context[s].exists
                    \/ \E j \in 1 .. i - 1 : calls[j].callee = s /\ calls[j].op = "init"

-----------------------------------------------------------------------------
(* "finished" is reported only when the whole stream has gone through: all *)
(* results of all evaluations, which come back in any order, have reached  *)
(* the sink before the flush frame, and its worker has nothing left to do. *)
(* The end of a stream is reported to nobody; the sink has finished then.  *)
StreamIsWritten == ~FromFile /\ context.sink.finished

FinishedIsComplete ==
    "finished" \in Range(reports) \/ StreamIsWritten =>
        /\ context.source.eofFlushed
        /\ context.sink.sdh.next = context.source.processed - 1
        /\ images.evaluating = {}
        /\ queue.writer = <<>> /\ encoder.held = <<>>
        /\ context.sink.buffer = {}

(* A run that failed somewhere is never reported as finished, nor is it    *)
(* finished twice: whoever fails also leaves a gap that the flush frame    *)
(* cannot pass, or stops the writing. This needs scripts that compile, as  *)
(* the program makes sure of beforehand: a stage whose script does not     *)
(* compile goes on with script number 0, also after it reported failed.    *)
OneOutcome ==
    (\A s \in DOMAIN images.compiled : images.compiled[s] # "failed") =>
        /\ ~({"finished", "failed"} \subseteq Range(reports))
        /\ Cardinality({i \in DOMAIN reports : reports[i] = "finished"}) <= 1

(* The pipeline does what VideoTransfer says: the file is at all times a   *)
(* gapless beginning of the pairs of the video, in their order; when       *)
(* "finished" is reported it has all of them but those of the last batch,  *)
(* fewer than MaxWrite, and it does not change any more. It depends on the *)
(* numbers that four stages give to the results, on the encoder that keeps *)
(* images back, and on the ids of the entries. The user sees the first     *)
(* result.                                                                 *)
FirstResult ==
    IF reports = <<>> \/ reports[1] = "crashed" THEN "none" ELSE reports[1]

Transfer == INSTANCE VideoTransfer
                WITH MaxMissing <- MaxWrite - 1,
                     imageCount <- video.decoded[video.packets],
                     file <- context.sink.written, result <- FirstResult

TransfersVideo == Transfer!Spec

(* Every run comes to an end: the user of the pipeline gets a result. The  *)
(* demands of the stages (next) and the deliveries (process) never wait    *)
(* for each other forever. For a stream, where the finished callback of    *)
(* the last stage calls nobody, the file is written and closed in the end. *)
ResultComes == <>(reports # <<>> \/ StreamIsWritten)

-----------------------------------------------------------------------------
(* Statements of the documentation and of comments that the code does not  *)
(* keep; each has a run that shows how.                                    *)

(* packet.hpp: "If a packet is the last packet of a video stream it        *)
(* contains a flush frame".                                                *)
EndOfStreamFlushed == context.source.eofReached ~> context.source.eofFlushed

(* sinks/file.hpp: "A file sink writes frames of a video stream to a file": *)
(* when the run is finished, the file has an entry for every pair. The      *)
(* source has counted the images and the flush frame.                       *)
EveryPairWritten ==
    "finished" \in Range(reports) =>
        Len(context.sink.written) = Max({0, context.source.processed - 2})

(* main.cpp: the inter-frame script is the "script file that should be      *)
(* processed for each pair of input images".                                *)
PairsUseTheirScript == \A i \in DOMAIN context.sink.written : Len(context.sink.written[i]) = 2

=============================================================================
