---------------------------- MODULE MCFileToFile ----------------------------
(* Small videos for model-checking the pipelines.                          *)
EXTENDS FileToFileProperties, SequencesExt

(* A video by the numbers of images that its packets decode to.            *)
Input(counts, mode) ==
    [packets |-> Len(counts),
     decoded |-> [k \in 0 .. Len(counts) |-> FoldLeft(+, 0, SubSeq(counts, 1, k))],
     end |-> "eof", mode |-> mode]

Video(counts)  == Input(counts, "video")
Stream(counts) == Input(counts, "stream")

(* The packets of a video never end with a full batch of MaxRead packets,  *)
(* else the end of the stream is not passed on; for FullBatch they do.     *)
OneImage       == {Video(<<1>>)}
OnePacket      == {Video(<<2>>)}
StreamVideos   == {Video(<<4>>), Video(<<1, 1, 1, 1, 1>>), Video(<<2, 0, 2>>)}
ManyVideos     == StreamVideos \union OnePacket
BrokenVideos   == {Video(<<2>>), [Video(<<1, 1, 1>>) EXCEPT !.end = "error"]}
FailingVideos  == OneImage \union BrokenVideos
EndingInputs   == {Video(<<2>>), Stream(<<1>>)}
FullBatch      == {Video(<<1>>)}
NoVideo        == {}

(***************************************************************************)
(* Fewer interleavings, for the longer videos. Every step is a step of     *)
(* Next, so these are behaviours of Spec; the others are explored with the *)
(* shorter videos.                                                         *)
(*   a calm start: the stages are initialised one thread after the other   *)
(*     in a fixed order, with the compilations for CalmStages; only then   *)
(*     the source begins to read and the threads interleave                *)
(*   a prompt thread does the jobs in its queue before anybody else moves  *)
(* With LateVideos the inter-frame stage notices the end of its            *)
(* compilation at any time, and only the sink is prompt.                   *)
(***************************************************************************)
CONSTANTS CalmStages, PromptThreads, LateVideos

Calm   == IF video \in LateVideos THEN {"frame"} ELSE CalmStages
Prompt == IF video \in LateVideos THEN {"sink"} ELSE PromptThreads

Reading == context.source.waiting # 0 \/ context.source.loaded # 0

Uncompiled(s) == context[s].script = "compiling" /\ images.compiled[s] = "no"

PromptNext ==
    IF "pipeline" \in Prompt /\ ENABLED StageInitialized THEN StageInitialized
    ELSE IF "compiler" \in Prompt /\ \E s \in Calm : Uncompiled(s)
    THEN \E s \in Calm : Compile(s)
    ELSE IF "source" \in Prompt /\ queue.source # <<>> THEN SourceThread
    ELSE IF "sink" \in Prompt /\ queue.sink # <<>> THEN SinkThread
    ELSE Next

PromptSpec == Init /\ [][PromptNext]_vars

CalmNext ==
    IF pipeline.launched < Len(StageOrder) THEN Launch
    ELSE IF pipeline.initialized = Len(StageOrder) \/ Reading THEN PromptNext
    ELSE IF ~context.source.exists THEN SourceInit
    ELSE IF queue.processors # <<>> THEN ProcessorsThread
    ELSE IF queue.sink # <<>> THEN SinkThread
    ELSE IF \E s \in Calm : context[s].script = "compiling"
    THEN \/ \E s \in Calm : Compile(s)
         \/ "frame" \in Calm /\ FrameCompiled
         \/ "interframe" \in Calm /\ InterframeCompiled
    ELSE IF queue.pipeline # <<>> THEN StageInitialized
    ELSE Next

CalmSpec == Init /\ [][CalmNext]_vars

(* With videos of one image the stages start in every order, with longer   *)
(* ones calmly.                                                            *)
CalmOrShortNext == IF video \in OneImage THEN PromptNext ELSE CalmNext

CalmOrShortSpec == Init /\ [][CalmOrShortNext]_vars

CalmFairSpec == CalmSpec /\ WF_vars(CalmNext)

=============================================================================
