----------------------------- MODULE FileToFile -----------------------------
(***************************************************************************)
(* The pipeline file_to_file: a file source, a frame stage, an inter-frame *)
(* stage and a file sink, as the program appvideoproc connects them; for   *)
(* the URI of a stream, the same stages behind the source of module        *)
(* RtspToFile, in the pipeline rtsp_to_file.                               *)
(*                                                                         *)
(* Threads and their queues (main.cpp):                                    *)
(*   pipeline    initialises the stages one after the other, counts their  *)
(*               answers and starts them                                   *)
(*   source      runs the jobs of the source                               *)
(*   processors  runs the jobs of the frame and of the inter-frame stage   *)
(*   sink        runs the jobs of the sink                                 *)
(*   writer      the worker thread of the sink                             *)
(* and the image processor, which compiles the scripts, evaluates any      *)
(* number of images at a time and finishes them in any order. A job runs   *)
(* to its end before the next one of its thread; the threads interleave    *)
(* freely.                                                                 *)
(***************************************************************************)
EXTENDS DataHandler, Stages

CONSTANTS
    Videos,             \* the inputs to choose from: records of the number of
                        \* packets, the images decoded, the end and the mode
    Failures,           \* what may fail: subset of {"open", "compile", "evaluate"}
                        \* (with "compile", nothing is compiled beforehand)
    MaxRead, MaxOut, MaxWrite, Lookahead

ASSUME FileToFileAssumption ==
    /\ \A v \in Videos :
          /\ v.packets \in Nat
          /\ v.decoded \in [0 .. v.packets -> Nat]
          /\ v.decoded[0] = 0
          /\ \A j, k \in 0 .. v.packets : j <= k => v.decoded[j] <= v.decoded[k]
          /\ v.decoded[v.packets] + 2 < SizeModulus
          /\ v.end \in {"eof", "error"}
          /\ v.mode \in {"video", "stream"}
    /\ Failures \subseteq {"open", "compile", "evaluate"}
    /\ {MaxRead, MaxOut, MaxWrite} \subseteq Nat \ {0}
    /\ MaxRead <= MaxOut    \* main.cpp raises a smaller buffer
    /\ Lookahead \in Nat
    /\ SizeModulus \in Nat \ {0}

VARIABLES
    video,      \* the input that is processed; its mode is input_mode
    context,    \* the processing context of each stage
    queue,      \* the job queue of each thread
    pipeline,   \* how many stages were told to initialise, how many answered
    images,     \* the image processor: its compiled scripts, how the
                \* compilations ended, the evaluations that are not done
    encoder,    \* the encoder of the sink
    reports     \* the results given to the user of the pipeline, in order

vars == <<video, context, queue, pipeline, images, encoder, reports>>

Source     == INSTANCE FileSource
Rtsp       == INSTANCE RtspToFile
FrameStage == INSTANCE FrameProcessor
                 WITH Self <- "frame", Prev <- "source", Succ <- "interframe"
InterStage == INSTANCE InterframeProcessor
                 WITH Self <- "interframe", Prev <- "frame", Succ <- "sink"
Sink       == INSTANCE FileSink

StageOrderFromSink == <<"sink", "interframe", "frame", "source">>

StageOrder == <<"source", "frame", "interframe", "sink">>

-----------------------------------------------------------------------------
Init ==
    /\ video \in Videos
    /\ context = [source |-> Source!NoContext, frame |-> FrameStage!NoContext,
                  interframe |-> InterStage!NoContext, sink |-> Sink!NoContext]
    /\ queue = [t \in Thread |-> <<>>]
    /\ pipeline = [launched |-> 0, initialized |-> 0]
    /\ images = [scripts |-> IF "compile" \in Failures THEN <<>>
                             ELSE <<"frame", "interframe">>,
                 compiled |-> [s \in {"frame", "interframe"} |-> "no"],
                 evaluating |-> {}]
    /\ encoder = Sink!NewEncoder
    /\ reports = <<>>

FromFile == video.mode = "video"

(* Every call goes to the end of the queue of its thread. *)
Post(queues, calls) == [t \in Thread |-> queues[t] \o calls[t]]

Posted(queues, call) == [queues EXCEPT ![ThreadOf(call.callee)] = Append(@, call)]

Alive == "crashed" \notin Range(reports)

(* The job that the thread of a stage runs now. *)
Calls(callee, op) ==
    /\ Alive
    /\ queue[ThreadOf(callee)] # <<>>
    /\ Head(queue[ThreadOf(callee)]).callee = callee
    /\ Head(queue[ThreadOf(callee)]).op = op

Job(callee) == Head(queue[ThreadOf(callee)])

Dequeued(callee) == [queue EXCEPT ![ThreadOf(callee)] = Tail(@)]

(* Stage s goes on with the context c, its effects are carried out on the  *)
(* queues.                                                                 *)
Effects(s, c, queues) ==
    /\ context' = [context EXCEPT ![s] = [c EXCEPT !.eff = NoEffects]]
    /\ queue' = Post(queues, c.eff.calls)
    /\ LET report == IF FromFile THEN c.eff.report ELSE Rtsp!Reported(c.eff.report)
       IN  reports' = IF report = "none" THEN reports ELSE Append(reports, report)
    /\ UNCHANGED video

(* The job of stage s on its own thread is done, with the result c.        *)
Handled(s, c) ==
    /\ Effects(s, c, Dequeued(s))
    /\ images' = [images EXCEPT !.evaluating = @ \union c.eff.jobs]
    /\ UNCHANGED <<pipeline, encoder>>

-----------------------------------------------------------------------------
(* The pipeline thread: start posts the init of every stage in turn; then  *)
(* the answers are counted, and with the last one all stages are started   *)
(* in reverse order.                                                       *)
Launch ==
    /\ Alive
    /\ pipeline.launched < Len(StageOrder)
    /\ pipeline' = [pipeline EXCEPT !.launched = @ + 1]
    /\ queue' = Posted(queue, Call(StageOrder[pipeline.launched + 1], "init"))
    /\ UNCHANGED <<video, context, images, encoder, reports>>

StartPosted(queues, n) == Posted(queues, Call(StageOrder[n], "start"))

AllStarted(queues) ==
    StartPosted(StartPosted(StartPosted(StartPosted(queues, 4), 3), 2), 1)

StageInitialized ==
    /\ Calls("pipeline", "initialized")
    /\ pipeline.launched = Len(StageOrder)
    /\ pipeline' = [pipeline EXCEPT !.initialized = @ + 1]
    /\ queue' = IF pipeline'.initialized = Len(StageOrder)
                THEN AllStarted(Dequeued("pipeline")) ELSE Dequeued("pipeline")
    /\ UNCHANGED <<video, context, images, encoder, reports>>

-----------------------------------------------------------------------------
(* The source thread. *)
SourceInit ==
    /\ Calls("source", "init")
    /\ \E opened \in {TRUE} \union (IF "open" \in Failures THEN {FALSE} ELSE {}) :
          Handled("source", IF FromFile THEN Source!Init(context.source, opened)
                                        ELSE Rtsp!Init(context.source, opened))

SourceStart ==
    /\ Calls("source", "start")
    /\ Handled("source", IF FromFile THEN Source!Start(context.source, video)
                                     ELSE Rtsp!Start(context.source, video))

SourceNext ==
    /\ Calls("source", "next")
    /\ Handled("source", IF FromFile THEN Source!Next(context.source, Job("source").amount)
                                     ELSE Rtsp!Next(context.source, Job("source").amount))

-----------------------------------------------------------------------------
(* The processors thread, the frame stage. *)
FrameInit ==
    /\ Calls("frame", "init")
    /\ Handled("frame", FrameStage!Init(context.frame))

FrameParams ==
    /\ Calls("frame", "params")
    /\ Handled("frame", FrameStage!Params(context.frame))

FrameStart ==
    /\ Calls("frame", "start")
    /\ Handled("frame", FrameStage!Start(context.frame))

FrameFinish ==
    /\ Calls("frame", "finish")
    /\ Handled("frame", FrameStage!Finish(context.frame))

FrameProcess ==
    /\ Calls("frame", "process")
    /\ Handled("frame", FrameStage!Process(context.frame, Job("frame").load))

FrameNext ==
    /\ Calls("frame", "next")
    /\ Handled("frame", FrameStage!Next(context.frame, Job("frame").amount))

FrameEvaluated ==
    /\ Calls("frame", "evaluated")
    /\ Handled("frame", FrameStage!Evaluated(context.frame, Job("frame").load[1]))

FrameEvaluationFailed ==
    /\ Calls("frame", "failed")
    /\ Handled("frame", FrameStage!EvaluationFailed(context.frame))

-----------------------------------------------------------------------------
(* The processors thread, the inter-frame stage. *)
InterframeInit ==
    /\ Calls("interframe", "init")
    /\ Handled("interframe", InterStage!Init(context.interframe))

InterframeParams ==
    /\ Calls("interframe", "params")
    /\ Handled("interframe", InterStage!Params(context.interframe))

InterframeStart ==
    /\ Calls("interframe", "start")
    /\ Handled("interframe", InterStage!Start(context.interframe))

InterframeProcess ==
    /\ Calls("interframe", "process")
    /\ Handled("interframe", InterStage!Process(context.interframe, Job("interframe").load))

InterframeNext ==
    /\ Calls("interframe", "next")
    /\ Handled("interframe", InterStage!Next(context.interframe, Job("interframe").amount))

InterframeEvaluated ==
    /\ Calls("interframe", "evaluated")
    /\ Handled("interframe",
               InterStage!Evaluated(context.interframe, Job("interframe").load[1]))

InterframeEvaluationFailed ==
    /\ Calls("interframe", "failed")
    /\ Handled("interframe", InterStage!EvaluationFailed(context.interframe))

-----------------------------------------------------------------------------
(* The image processor takes its orders one after the other, so that the    *)
(* compilation for a stage comes before its evaluations. A script that is   *)
(* known already, as in the program, which compiled both beforehand, is not *)
(* compiled again. The number of a script is its position, from 0.          *)
Knows(s) == s \in Range(images.scripts)

NumberOf(s) ==
    IF Knows(s) THEN (CHOOSE i \in DOMAIN images.scripts : images.scripts[i] = s) - 1 ELSE 0

Compile(s) ==
    /\ Alive
    /\ context[s].script = "compiling" /\ images.compiled[s] = "no"
    /\ \/ images' = [images EXCEPT !.compiled[s] = "yes",
                                   !.scripts = IF Knows(s) THEN @ ELSE Append(@, s)]
       \/ /\ ~Knows(s) /\ "compile" \in Failures
          /\ images' = [images EXCEPT !.compiled[s] = "failed"]
    /\ UNCHANGED <<video, context, queue, pipeline, encoder, reports>>

(* The continuation waits for the end of the compilation and then changes   *)
(* the context of the stage, at any later time.                             *)
Continue(s, c) ==
    /\ Alive
    /\ context[s].script = "compiling" /\ images.compiled[s] # "no"
    /\ Effects(s, c, queue)
    /\ UNCHANGED <<pipeline, images, encoder>>

FrameCompiled ==
    Continue("frame",
        FrameStage!Compiled(context.frame, images.compiled.frame = "yes", NumberOf("frame")))

InterframeCompiled ==
    Continue("interframe",
        InterStage!Compiled(context.interframe, images.compiled.interframe = "yes",
                            NumberOf("interframe")))

(* A script for single images uses the first image only. *)
Result(script, operands) == IF script = "frame" THEN SubSeq(operands, 1, 1) ELSE operands

(* What the image processor sends back for an evaluation that failed. *)
FailedCallsWithImage(job) ==
    <<Call(job.stage, "failed"),
      CallWith(job.stage, "evaluated", <<Frame(job.number, job.images)>>)>>

FailedCalls(job) == <<Call(job.stage, "failed")>>

(* An evaluation, of the script whose number the job has, ends in a job for *)
(* the processors thread. It fails when there is no such script.            *)
EvaluationDone(job) ==
    /\ Alive
    /\ images.compiled[job.stage] # "no"
    /\ images' = [images EXCEPT !.evaluating = @ \ {job}]
    /\ \/ /\ job.script < Len(images.scripts)
          /\ LET image == Result(images.scripts[job.script + 1], job.images)
             IN  queue' = Posted(queue, CallWith(job.stage, "evaluated",
                                                 <<Frame(job.number, image)>>))
       \/ /\ "evaluate" \in Failures \/ job.script >= Len(images.scripts)
          /\ queue' = [queue EXCEPT !.processors = @ \o FailedCalls(job)]
    /\ UNCHANGED <<video, context, pipeline, encoder, reports>>

-----------------------------------------------------------------------------
(* The sink thread. *)
SinkInit ==
    /\ Calls("sink", "init")
    /\ Handled("sink", Sink!Init(context.sink))

SinkParams ==
    /\ Calls("sink", "params")
    /\ Handled("sink", Sink!Params(context.sink))

SinkStart ==
    /\ Calls("sink", "start")
    /\ Handled("sink", Sink!Start(context.sink))

SinkProcess ==
    /\ Calls("sink", "process")
    /\ Handled("sink", Sink!Process(context.sink, Job("sink").load))

SinkFramesWritten ==
    /\ Calls("sink", "framesWritten")
    /\ Handled("sink", Sink!FramesWritten(context.sink, Job("sink").load))

SinkLastWritten ==
    /\ Calls("sink", "lastWritten")
    /\ Handled("sink", Sink!LastWritten(context.sink, Job("sink").load))

SinkWriteFailed ==
    /\ Calls("sink", "writeFailed")
    /\ Handled("sink", Sink!WriteFailed(context.sink))

-----------------------------------------------------------------------------
(* The worker thread of the sink. n entries come out of the encoder e and  *)
(* go back to the sink with the callback op.                               *)
Wrote(e, n, op) ==
    /\ encoder' = Sink!EncoderAfter(e, n)
    /\ queue' = Posted(Dequeued("writer"), CallWith("sink", op, Sink!EntriesOut(e, n)))
    /\ UNCHANGED <<video, context, pipeline, images, reports>>

WriteFrames ==
    LET e == Sink!TakenIn(encoder, Job("writer").load)
    IN  /\ Calls("writer", "frames")
        /\ context.sink.codecOpen
        /\ Wrote(e, Sink!EntriesReady(e), "framesWritten")

WriteLastFrames ==
    /\ Calls("writer", "last")
    /\ context.sink.codecOpen
    /\ Wrote(encoder, Len(encoder.held), "lastWritten")

(* An encoder that was not opened refuses both. *)
WriteRefused ==
    /\ Calls("writer", "frames") \/ Calls("writer", "last")
    /\ ~context.sink.codecOpen
    /\ Wrote(encoder, 0, "writeFailed")

-----------------------------------------------------------------------------
SourceThread == SourceInit \/ SourceStart \/ SourceNext

ProcessorsThread ==
    \/ FrameInit \/ FrameParams \/ FrameStart \/ FrameFinish
    \/ FrameProcess \/ FrameNext \/ FrameEvaluated \/ FrameEvaluationFailed
    \/ InterframeInit \/ InterframeParams \/ InterframeStart
    \/ InterframeProcess \/ InterframeNext
    \/ InterframeEvaluated \/ InterframeEvaluationFailed

SinkThread ==
    \/ SinkInit \/ SinkParams \/ SinkStart \/ SinkProcess
    \/ SinkFramesWritten \/ SinkLastWritten \/ SinkWriteFailed

PipelineThread == Launch \/ StageInitialized

WriterThread == WriteFrames \/ WriteLastFrames \/ WriteRefused

ImageProcessor ==
    \/ \E s \in {"frame", "interframe"} : Compile(s)
    \/ FrameCompiled
    \/ InterframeCompiled
    \/ \E job \in images.evaluating : EvaluationDone(job)

(* The user of the pipeline has its result and waits no longer. The user   *)
(* of a stream that has ended waits until the timeout.                     *)
Terminated == /\ reports # <<>> \/ (~FromFile /\ context.sink.finished)
              /\ UNCHANGED vars

Next ==
    \/ PipelineThread
    \/ SourceThread
    \/ ProcessorsThread
    \/ SinkThread
    \/ WriterThread
    \/ ImageProcessor
    \/ Terminated

Spec == Init /\ [][Next]_vars

(* The threads are not stopped: as long as one of them has a job, one of    *)
(* them goes on. This is less than every thread going on, and enough: no    *)
(* job makes the same job again, so none can keep the others waiting.       *)
Fairness == WF_vars(Next)

FairSpec == Spec /\ Fairness

=============================================================================
