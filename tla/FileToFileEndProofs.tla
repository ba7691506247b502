------------------------ MODULE FileToFileEndProofs -------------------------
(***************************************************************************)
(* The end of the video: for every video, every size of the buffers, all   *)
(* failures and every interleaving of the threads, the sink says that it   *)
(* has finished only when everything was written.                          *)
(*                                                                         *)
(* The property (FinishedIsComplete) follows from FlowInv of the module    *)
(* FileToFileFlowProofs and from the invariant EndInv, which says of the   *)
(* way between the sink and its worker thread:                             *)
(*  - the call for the last frames is the last one in the queue of the     *)
(*    writer, and the answer to it, or its effect on the sink, is there    *)
(*    only when that queue and the encoder are empty (LastIsLast);         *)
(*  - entries come to the sink in the order of their numbers, so that      *)
(*    none waits in its buffer (NoneWaits);                                *)
(*  - the last frames are asked for when the sink has handed on all that   *)
(*    the source has read (AllHanded);                                     *)
(*  - the user is told of the end by this, and once (Told).                *)
(* A source that has handed on its flush frame reads no more, so that      *)
(* AllHanded stays true; that no stage but the sink reports the end has to *)
(* be shown of each of their operations.                                   *)
(*                                                                         *)
(* And the user has one outcome (OneOutcome): a failure that is reported   *)
(* has a cause that stays and keeps the video from being finished (Cause,  *)
(* in the invariant FailInv): the source was not opened or ends with an    *)
(* error, a script was not compiled, the frame of an evaluation that       *)
(* failed is lost (Lossy), or the encoder was not open when frames came to *)
(* it (Refused). The last stays so because the frame size, with which the  *)
(* encoder is opened, goes ahead of the frames all the way (SizesFirst).   *)
(*                                                                         *)
(* And the pipeline implements VideoTransfer (TransfersVideo): the file,   *)
(* the entries on the way to the sink, the images in the encoder and those *)
(* on the way to it are together one sequence of pairs without gaps, which *)
(* ends with what the sink has handed on but for the batch of the flush    *)
(* frame (FileInv). At the end the first of these is all that is left, and *)
(* the source has counted every image of the video (CountsInv).            *)
(***************************************************************************)
EXTENDS FileToFileFlowProofs

-----------------------------------------------------------------------------
(* Part 1: what the processors report.                                     *)

(* What a stage sends on the side: nobody but its job params passes the    *)
(* frame size on, and few jobs report.                                     *)
Mute(q) == \A i \in DOMAIN q : q[i].op # "params"

Silently(c, f) ==
    /\ f.eff.report = c.eff.report
    /\ \A t \in Thread : Mute(c.eff.calls[t]) => Mute(f.eff.calls[t])

(* One operation after the other.                                          *)
LEMMA SilentlyOn ==
    /\ \A c : Silently(c, c)
    /\ \A c, d, f : Silently(c, d) /\ Silently(d, f) => Silently(c, f)
    /\ \A c, d, f : d.eff = c.eff /\ Silently(d, f) => Silently(c, f)
    /\ \A c, d : d.eff = c.eff => Silently(c, d)
BY DEF Silently

(* A call leaves the report alone.                                         *)
LEMMA SilentCall ==
    ASSUME NEW J, NEW e \in Effect(AllCalls, J), NEW m \in AllCalls, m.op # "params"
    PROVE  /\ WithCall(e, m).report = e.report
           /\ \A t \in Thread : Mute(e.calls[t]) => Mute(WithCall(e, m).calls[t])
<1> DEFINE u == ThreadOf(m.callee)
<1>0. e.calls \in Queues(AllCalls) /\ u \in Thread
  BY EffectsWider, CallsTyped
<1>1. e.calls \in [Thread -> Seq(CallType)] /\ m \in CallType
  BY <1>0 DEF Queues, AllCalls
<1>2. WithCall(e, m) = [e EXCEPT !.calls[u] = Append(@, m)]
  BY DEF WithCall
<1> HIDE DEF u
<1>3. /\ WithCall(e, m).report = e.report
      /\ WithCall(e, m).calls = [e.calls EXCEPT ![u] = Append(@, m)]
  BY <1>2 DEF Effect
<1>4. ASSUME NEW t \in Thread, Mute(e.calls[t])
      PROVE  Mute(WithCall(e, m).calls[t])
  <2>1. CASE t = u
    <3>1. WithCall(e, m).calls[t] = Append(e.calls[t], m) /\ e.calls[t] \in Seq(CallType)
      BY <1>0, <1>1, <1>3, <2>1
    <3> QED BY <1>1, <1>4, <3>1 DEF Mute
  <2>2. CASE t # u
    <3>1. WithCall(e, m).calls[t] = e.calls[t]
      BY <1>0, <1>1, <1>3, <2>2
    <3> QED BY <1>4, <3>1
  <2> QED BY <2>1, <2>2
<1> QED BY <1>3, <1>4

-----------------------------------------------------------------------------
(* The operations of the frame stage, from the leaf of the calls to the    *)
(* root: none of them reports a result.                                    *)
LEMMA FrameSendSilent ==
    ASSUME NEW c \in FrameContext(BOOLEAN, TRUE), NEW m \in FrameCalls(TRUE), m.op # "params"
    PROVE  FrameStage!Send(c, m) \in FrameContext(BOOLEAN, TRUE) /\ Silently(c, FrameStage!Send(c, m))
<1> DEFINE d == FrameStage!Send(c, m)
           e == WithCall(c.eff, m)
<1>1. /\ d \in FrameContext(BOOLEAN, TRUE) /\ d.eff = e
      /\ c.eff \in Effect(AllCalls, Jobs("frame")) /\ m \in AllCalls
  BY FrameSendFields
<1>2. /\ e.report = c.eff.report
      /\ \A t \in Thread : Mute(c.eff.calls[t]) => Mute(e.calls[t])
  BY <1>1, SilentCall
<1> HIDE DEF d, e
<1>3. Silently(c, d)
  BY <1>1, <1>2 DEF Silently
<1> QED BY <1>1, <1>3 DEF d

(* The demand of the frame stage.                                          *)
LEMMA FrameTriggerSilent ==
    ASSUME NEW c \in FrameContext(BOOLEAN, TRUE)
    PROVE  Silently(c, FrameStage!Trigger(c))
<1> DEFINE n == Free(c.sdh, MaxOut)
           m == CallNext("source", n)
<1>1. n \in 0 .. MaxOut
  BY FreeTyped, FileToFileAssumption DEF FrameContext
<1>2. m \in FrameCalls(TRUE) /\ m.op # "params"
  <2>1. Is(m, "source", "next") /\ m \in FrameCalls(TRUE)
    BY <1>1, FrameCallsMade, CallsMade
  <2> QED BY <2>1 DEF Is
<1>3. FrameStage!Trigger(c) = IF n # 0 THEN FrameStage!Send(c, m) ELSE c
  BY FrameHandlerIs DEF FrameStage!Trigger, FrameStage!CallNext, CallNext, FrameStage!Call, Call
<1> HIDE DEF n, m
<1> QED BY <1>2, <1>3, FrameSendSilent, SilentlyOn

(* try_flush of the frame stage.                                           *)
LEMMA FrameFlushSilent ==
    ASSUME NEW c \in FrameContext(BOOLEAN, TRUE)
    PROVE  Silently(c, FrameStage!Flush(c)) /\ FrameStage!Flush(c) \in FrameContext(BOOLEAN, TRUE)
<1> DEFINE d == [c EXCEPT !.sdh = TryProcessInput(c.sdh)]
           n == DeliverAmount(d.sdh, MaxOut, d.waiting)
           k == [d EXCEPT !.sdh = Kept(d.sdh, n)]
           load == Taken(d.sdh, n)
           w == [k EXCEPT !.waiting = 0]
           m == CallWith("interframe", "process", load)
           x == FrameStage!Send(w, m)
<1>1. /\ c.sdh \in Handler /\ c.waiting \in Nat /\ MaxOut \in Nat
      /\ d.sdh = TryProcessInput(c.sdh) /\ d.waiting = c.waiting /\ d.eff = c.eff
  BY FileToFileAssumption DEF FrameContext, Demand
<1>2. /\ Kept(d.sdh, n) \in Handler /\ load \in Seq(FrameType)
      /\ n # 0 => load # <<>>
  BY <1>1, FlushTyped
<1>3. d \in FrameContext(BOOLEAN, TRUE)
  BY <1>1, FlushTyped DEF FrameContext
<1>4. FrameStage!Flush(c) =
          IF d.sdh.out = <<>> THEN FrameStage!Trigger(d)
          ELSE IF n = 0       THEN d
          ELSE FrameStage!Deliver(k, load)
  BY FrameFlushIs
<1>5. FrameStage!Deliver(k, load) = FrameStage!Trigger(x)
  BY DEF FrameStage!Deliver, FrameStage!CallWith, CallWith, FrameStage!Call, Call
<1>6. FrameStage!Flush(c) \in FrameContext(BOOLEAN, TRUE)
  BY FrameFlushTyped
<1> HIDE DEF d, load
<1> HIDE DEF n
<1>7. w \in FrameContext(BOOLEAN, TRUE) /\ w.eff = d.eff
  <2>0. 0 \in Demand(TRUE, MaxOut)
    BY FileToFileAssumption DEF Demand
  <2>1. k \in FrameContext(BOOLEAN, TRUE) /\ k.eff = d.eff
    BY <1>2, <1>3 DEF FrameContext
  <2> HIDE DEF k
  <2> QED BY <2>0, <2>1 DEF FrameContext
<1>8. n # 0 => m \in FrameCalls(TRUE) /\ m.op # "params"
  <2>1. n # 0 => Is(m, "interframe", "process") /\ m \in FrameCalls(TRUE)
    BY <1>2, FrameCallsMade, CallsMade
  <2> QED BY <2>1 DEF Is
<1> HIDE DEF k, w, m
<1>9. Silently(d, FrameStage!Trigger(d))
  BY <1>3, FrameTriggerSilent
<1>10. ASSUME n # 0 PROVE Silently(d, FrameStage!Deliver(k, load))
  <2>1. Silently(w, x) /\ x \in FrameContext(BOOLEAN, TRUE)
    BY <1>7, <1>8, <1>10, FrameSendSilent
  <2> HIDE DEF x
  <2>2. Silently(x, FrameStage!Trigger(x))
    BY <2>1, FrameTriggerSilent
  <2> QED BY <1>5, <1>7, <2>1, <2>2, SilentlyOn
<1>11. Silently(d, FrameStage!Flush(c))
  BY <1>4, <1>9, <1>10, SilentlyOn
<1> QED BY <1>1, <1>6, <1>11, SilentlyOn

(* The jobs of the frame stage, but for the failed evaluation.             *)
LEMMA FrameJobsSilent ==
    ASSUME NEW c \in FrameContext(BOOLEAN, TRUE)
    PROVE  /\ Silently(c, FrameStage!Init(c))
           /\ Silently(c, FrameStage!Start(c))
           /\ Silently(c, FrameStage!Finish(c))
           /\ \A n \in 0 .. MaxOut : Silently(c, FrameStage!Next(c, n))
           /\ \A f \in FrameType : Silently(c, FrameStage!Evaluated(c, f))
           /\ \A load \in Seq(FrameType) : Silently(c, FrameStage!Process(c, load))
           /\ FrameStage!Params(c).eff.report = c.eff.report
           /\ FrameStage!EvaluationFailed(c).eff.calls = c.eff.calls
<1>1. Silently(c, FrameStage!Init(c))
  <2> DEFINE d == [c EXCEPT !.exists = TRUE, !.script = "compiling"]
  <2>1. d \in FrameContext(BOOLEAN, TRUE) /\ d.eff = c.eff /\ FrameStage!Init(c) = FrameStage!Flush(d)
    BY DEF FrameContext, Scripting, FrameStage!Init
  <2> HIDE DEF d
  <2> QED BY <2>1, FrameFlushSilent, SilentlyOn
<1>2. Silently(c, FrameStage!Start(c))
  <2> DEFINE n == Free(c.sdh, MaxOut)
             m == CallNext("source", n)
  <2>1. n \in 0 .. MaxOut
    BY FreeTyped, FileToFileAssumption DEF FrameContext
  <2>2. Is(m, "source", "next") /\ m \in FrameCalls(TRUE)
    BY <2>1, FrameCallsMade, CallsMade
  <2>3. FrameStage!Start(c) = IF c.exists /\ ~c.prevFinished THEN FrameStage!Send(c, m) ELSE c
    BY FrameHandlerIs DEF FrameStage!Start, FrameStage!CallNext, CallNext, FrameStage!Call, Call
  <2> HIDE DEF n, m
  <2> QED BY <2>2, <2>3, FrameSendSilent, SilentlyOn DEF Is
<1>3. Silently(c, FrameStage!Finish(c))
  <2>1. [c EXCEPT !.prevFinished = TRUE].eff = c.eff
    BY DEF FrameContext
  <2> QED BY <2>1, SilentlyOn DEF FrameStage!Finish
<1>4. ASSUME NEW n \in 0 .. MaxOut PROVE Silently(c, FrameStage!Next(c, n))
  <2> DEFINE d == [c EXCEPT !.waiting = n]
  <2>1. d \in FrameContext(BOOLEAN, TRUE) /\ d.eff = c.eff
    BY DEF FrameContext, Demand
  <2>2. FrameStage!Next(c, n) = IF c.exists THEN FrameStage!Flush(d) ELSE c
    BY DEF FrameStage!Next
  <2> HIDE DEF d
  <2> QED BY <2>1, <2>2, FrameFlushSilent, SilentlyOn
<1>5. ASSUME NEW e \in FrameContext(BOOLEAN, TRUE), NEW E \in SUBSET FrameType, IsFiniteSet(E)
      PROVE  Silently(e, FrameStage!AddAll(e, E))
  <2> DEFINE d == [e EXCEPT !.sdh.in = @ \union E]
             h == [e.sdh EXCEPT !.in = @ \union E]
  <2>0. h \in Handler
    BY <1>5, AddTyped DEF FrameContext
  <2>1. d = [e EXCEPT !.sdh = h]
    OBVIOUS
  <2> HIDE DEF h
  <2>2. d \in FrameContext(BOOLEAN, TRUE) /\ d.eff = e.eff
    BY <2>0, <2>1 DEF FrameContext
  <2>3. FrameStage!AddAll(e, E) = FrameStage!Flush(d)
    BY FrameAddIs
  <2> HIDE DEF d
  <2> QED BY <2>2, <2>3, FrameFlushSilent, SilentlyOn
<1>6. ASSUME NEW f \in FrameType PROVE Silently(c, FrameStage!Evaluated(c, f))
  <2>1. {f} \in SUBSET FrameType /\ IsFiniteSet({f})
    BY FS_Singleton
  <2> QED BY <1>5, <2>1 DEF FrameStage!Evaluated
<1>7. ASSUME NEW load \in Seq(FrameType) PROVE Silently(c, FrameStage!Process(c, load))
  <2> DEFINE shown == {f \in Range(load) : ~IsFlush(f)}
             flush == {f \in Range(load) : IsFlush(f)}
             J == {FrameStage!Job(c, f.number, f.image) : f \in shown}
             d == FrameStage!Evaluate(c, J)
  <2>1. FrameStage!Process(c, load) =
            IF ~c.exists THEN c ELSE IF flush = {} THEN d ELSE FrameStage!AddAll(d, flush)
    BY DEF FrameStage!Process, FrameStage!Range, Range, FrameStage!IsFlush, IsFlush
  <2>2. flush \in SUBSET FrameType /\ IsFiniteSet(flush)
    BY LoadTyped, FS_Subset
  <2>3. J \in SUBSET Jobs("frame")
    BY LoadTyped DEF FrameStage!Job, Jobs, JobType, IsFlush, FrameContext, FrameType
  <2> HIDE DEF J
  <2>4. d \in FrameContext(BOOLEAN, TRUE)
    BY <2>3, FrameEvaluateTyped
  <2>5. Silently(c, d)
    BY DEF Silently, FrameStage!Evaluate, FrameContext, Effect
  <2> HIDE DEF d, flush
  <2> QED BY <1>5, <2>1, <2>2, <2>4, <2>5, SilentlyOn
<1>8. FrameStage!Params(c).eff.report = c.eff.report
  <2> DEFINE m == Call("interframe", "params")
             e == WithCall(c.eff, m)
             d == FrameStage!Send(c, m)
  <2>1. m \in FrameCalls(TRUE)
    BY FrameCallsMade
  <2>2. FrameStage!Params(c) = IF c.exists THEN d ELSE c
    BY DEF FrameStage!Params, FrameStage!Call, Call
  <2> HIDE DEF m
  <2>3. d.eff = e /\ c.eff \in Effect(AllCalls, Jobs("frame")) /\ m \in AllCalls
    BY <2>1, FrameSendFields
  <2>4. e.report = c.eff.report
    BY <2>3 DEF WithCall, Effect
  <2> QED BY <2>2, <2>3, <2>4
<1>9. FrameStage!EvaluationFailed(c).eff.calls = c.eff.calls
  BY DEF FrameStage!EvaluationFailed, FrameStage!Report, FrameContext, Effect
<1> QED BY <1>1, <1>2, <1>3, <1>4, <1>6, <1>7, <1>8, <1>9

(* The same for the inter-frame stage.                                     *)
LEMMA InterSendSilent ==
    ASSUME NEW c \in InterContext(BOOLEAN, TRUE), NEW m \in InterCalls(TRUE), m.op # "params"
    PROVE  InterStage!Common!Send(c, m) \in InterContext(BOOLEAN, TRUE) /\ Silently(c, InterStage!Common!Send(c, m))
<1> DEFINE d == InterStage!Common!Send(c, m)
           e == WithCall(c.eff, m)
<1>1. /\ d \in InterContext(BOOLEAN, TRUE) /\ d.eff = e
      /\ c.eff \in Effect(AllCalls, Jobs("interframe")) /\ m \in AllCalls
  BY InterSendFields
<1>2. /\ e.report = c.eff.report
      /\ \A t \in Thread : Mute(c.eff.calls[t]) => Mute(e.calls[t])
  BY <1>1, SilentCall
<1> HIDE DEF d, e
<1>3. Silently(c, d)
  BY <1>1, <1>2 DEF Silently
<1> QED BY <1>1, <1>3 DEF d

(* The demand of the inter-frame stage.                                    *)
LEMMA InterTriggerSilent ==
    ASSUME NEW c \in InterContext(BOOLEAN, TRUE)
    PROVE  Silently(c, InterStage!Common!Trigger(c))
<1> DEFINE n == Free(c.sdh, MaxOut)
           m == CallNext("frame", n)
<1>1. n \in 0 .. MaxOut
  BY FreeTyped, FileToFileAssumption DEF InterContext
<1>2. m \in InterCalls(TRUE) /\ m.op # "params"
  <2>1. Is(m, "frame", "next") /\ m \in InterCalls(TRUE)
    BY <1>1, InterCallsMade, CallsMade
  <2> QED BY <2>1 DEF Is
<1>3. InterStage!Common!Trigger(c) = IF n # 0 THEN InterStage!Common!Send(c, m) ELSE c
  BY InterHandlerIs DEF InterStage!Common!Trigger, InterStage!Common!CallNext, CallNext, InterStage!Common!Call, Call
<1> HIDE DEF n, m
<1> QED BY <1>2, <1>3, InterSendSilent, SilentlyOn

(* try_flush of the inter-frame stage.                                     *)
LEMMA InterFlushSilent ==
    ASSUME NEW c \in InterContext(BOOLEAN, TRUE)
    PROVE  Silently(c, InterStage!Common!Flush(c)) /\ InterStage!Common!Flush(c) \in InterContext(BOOLEAN, TRUE)
<1> DEFINE d == [c EXCEPT !.sdh = TryProcessInput(c.sdh)]
           n == DeliverAmount(d.sdh, MaxOut, d.waiting)
           k == [d EXCEPT !.sdh = Kept(d.sdh, n)]
           load == Taken(d.sdh, n)
           w == [k EXCEPT !.waiting = 0]
           m == CallWith("sink", "process", load)
           x == InterStage!Common!Send(w, m)
<1>1. /\ c.sdh \in Handler /\ c.waiting \in Nat /\ MaxOut \in Nat
      /\ d.sdh = TryProcessInput(c.sdh) /\ d.waiting = c.waiting /\ d.eff = c.eff
  BY FileToFileAssumption DEF InterContext, Demand
<1>2. /\ Kept(d.sdh, n) \in Handler /\ load \in Seq(FrameType)
      /\ n # 0 => load # <<>>
  BY <1>1, FlushTyped
<1>3. d \in InterContext(BOOLEAN, TRUE)
  BY <1>1, FlushTyped DEF InterContext
<1>4. InterStage!Common!Flush(c) =
          IF d.sdh.out = <<>> THEN InterStage!Common!Trigger(d)
          ELSE IF n = 0       THEN d
          ELSE InterStage!Common!Deliver(k, load)
  BY InterFlushIs
<1>5. InterStage!Common!Deliver(k, load) = InterStage!Common!Trigger(x)
  BY DEF InterStage!Common!Deliver, InterStage!Common!CallWith, CallWith, InterStage!Common!Call, Call
<1>6. InterStage!Common!Flush(c) \in InterContext(BOOLEAN, TRUE)
  BY InterFlushTyped
<1> HIDE DEF d, load
<1> HIDE DEF n
<1>7. w \in InterContext(BOOLEAN, TRUE) /\ w.eff = d.eff
  <2>0. 0 \in Demand(TRUE, MaxWrite)
    BY FileToFileAssumption DEF Demand
  <2>1. k \in InterContext(BOOLEAN, TRUE) /\ k.eff = d.eff
    BY <1>2, <1>3 DEF InterContext
  <2> HIDE DEF k
  <2> QED BY <2>0, <2>1 DEF InterContext
<1>8. n # 0 => m \in InterCalls(TRUE) /\ m.op # "params"
  <2>1. n # 0 => Is(m, "sink", "process") /\ m \in InterCalls(TRUE)
    BY <1>2, InterCallsMade, CallsMade
  <2> QED BY <2>1 DEF Is
<1> HIDE DEF k, w, m
<1>9. Silently(d, InterStage!Common!Trigger(d))
  BY <1>3, InterTriggerSilent
<1>10. ASSUME n # 0 PROVE Silently(d, InterStage!Common!Deliver(k, load))
  <2>1. Silently(w, x) /\ x \in InterContext(BOOLEAN, TRUE)
    BY <1>7, <1>8, <1>10, InterSendSilent
  <2> HIDE DEF x
  <2>2. Silently(x, InterStage!Common!Trigger(x))
    BY <2>1, InterTriggerSilent
  <2> QED BY <1>5, <1>7, <2>1, <2>2, SilentlyOn
<1>11. Silently(d, InterStage!Common!Flush(c))
  BY <1>4, <1>9, <1>10, SilentlyOn
<1> QED BY <1>1, <1>6, <1>11, SilentlyOn

(* The jobs of the inter-frame stage, but for the failed evaluation.       *)
LEMMA InterJobsSilent ==
    ASSUME NEW c \in InterContext(BOOLEAN, TRUE)
    PROVE  /\ Silently(c, InterStage!Common!Init(c))
           /\ Silently(c, InterStage!Common!Start(c))
           /\ Silently(c, InterStage!Common!Finish(c))
           /\ \A n \in 0 .. MaxWrite : Silently(c, InterStage!Common!Next(c, n))
           /\ \A f \in FrameType : Silently(c, InterStage!Common!Evaluated(c, f))
           /\ \A load \in Seq(FrameType) : Silently(c, InterStage!Process(c, load))
           /\ InterStage!Common!Params(c).eff.report = c.eff.report
           /\ InterStage!Common!EvaluationFailed(c).eff.calls = c.eff.calls
<1>1. Silently(c, InterStage!Common!Init(c))
  <2> DEFINE d == [c EXCEPT !.exists = TRUE, !.script = "compiling"]
  <2>1. d \in InterContext(BOOLEAN, TRUE) /\ d.eff = c.eff /\ InterStage!Common!Init(c) = InterStage!Common!Flush(d)
    BY DEF InterContext, Scripting, InterStage!Common!Init
  <2> HIDE DEF d
  <2> QED BY <2>1, InterFlushSilent, SilentlyOn
<1>2. Silently(c, InterStage!Common!Start(c))
  <2> DEFINE n == Free(c.sdh, MaxOut)
             m == CallNext("frame", n)
  <2>1. n \in 0 .. MaxOut
    BY FreeTyped, FileToFileAssumption DEF InterContext
  <2>2. Is(m, "frame", "next") /\ m \in InterCalls(TRUE)
    BY <2>1, InterCallsMade, CallsMade
  <2>3. InterStage!Common!Start(c) = IF c.exists /\ ~c.prevFinished THEN InterStage!Common!Send(c, m) ELSE c
    BY InterHandlerIs DEF InterStage!Common!Start, InterStage!Common!CallNext, CallNext, InterStage!Common!Call, Call
  <2> HIDE DEF n, m
  <2> QED BY <2>2, <2>3, InterSendSilent, SilentlyOn DEF Is
<1>3. Silently(c, InterStage!Common!Finish(c))
  <2>1. [c EXCEPT !.prevFinished = TRUE].eff = c.eff
    BY DEF InterContext
  <2> QED BY <2>1, SilentlyOn DEF InterStage!Common!Finish
<1>4. ASSUME NEW n \in 0 .. MaxWrite PROVE Silently(c, InterStage!Common!Next(c, n))
  <2> DEFINE d == [c EXCEPT !.waiting = n]
  <2>1. d \in InterContext(BOOLEAN, TRUE) /\ d.eff = c.eff
    BY DEF InterContext, Demand
  <2>2. InterStage!Common!Next(c, n) = IF c.exists THEN InterStage!Common!Flush(d) ELSE c
    BY DEF InterStage!Common!Next
  <2> HIDE DEF d
  <2> QED BY <2>1, <2>2, InterFlushSilent, SilentlyOn
<1>5. ASSUME NEW e \in InterContext(BOOLEAN, TRUE), NEW E \in SUBSET FrameType, IsFiniteSet(E)
      PROVE  Silently(e, InterStage!Common!AddAll(e, E))
  <2> DEFINE d == [e EXCEPT !.sdh.in = @ \union E]
             h == [e.sdh EXCEPT !.in = @ \union E]
  <2>0. h \in Handler
    BY <1>5, AddTyped DEF InterContext
  <2>1. d = [e EXCEPT !.sdh = h]
    OBVIOUS
  <2> HIDE DEF h
  <2>2. d \in InterContext(BOOLEAN, TRUE) /\ d.eff = e.eff
    BY <2>0, <2>1 DEF InterContext
  <2>3. InterStage!Common!AddAll(e, E) = InterStage!Common!Flush(d)
    BY InterAddIs
  <2> HIDE DEF d
  <2> QED BY <2>2, <2>3, InterFlushSilent, SilentlyOn
<1>6. ASSUME NEW f \in FrameType PROVE Silently(c, InterStage!Common!Evaluated(c, f))
  <2>1. {f} \in SUBSET FrameType /\ IsFiniteSet({f})
    BY FS_Singleton
  <2> QED BY <1>5, <2>1 DEF InterStage!Common!Evaluated
<1>7. ASSUME NEW load \in Seq(FrameType) PROVE Silently(c, InterStage!Process(c, load))
  <2> DEFINE d == [c EXCEPT !.buffer = @ \union Range(load)]
             a == Asked(d)
             F == Flushed(d)
             p == PairedUp(d)
             k == [d EXCEPT !.buffer = InterStage!KeptFromLast(d, InterStage!LastOfRun(d)),
                            !.nextFrame = InterStage!LastOfRun(d)]
             J == PairJobs(d)
  <2>1. InterStage!Process(c, load) = IF c.exists THEN InterStage!PairUp(d) ELSE c
    BY DEF InterStage!Process, InterStage!Range, Range
  <2>2. d \in InterContext(BOOLEAN, TRUE) /\ d.eff = c.eff
    <3>1. Range(load) \in Frames
      BY LoadTyped DEF Frames
    <3>2. c.buffer \union Range(load) \in Frames
      BY <3>1, FS_Union DEF Frames, InterContext
    <3> QED BY <3>2 DEF InterContext
  <2> HIDE DEF d
  <2>3. InterStage!PairUp(d) = IF d.buffer = {} THEN d
                               ELSE IF Cardinality(Run(d)) < 2 THEN InterStage!Common!Flush(d) ELSE p
    BY PairUpIs
  <2>4. Silently(d, InterStage!Common!Flush(d))
    BY <2>2, InterFlushSilent
  <2>5. /\ RunFlush(d) \in SUBSET FrameType /\ IsFiniteSet(RunFlush(d))
        /\ a \in InterContext(BOOLEAN, TRUE) /\ F \in InterContext(BOOLEAN, TRUE)
    BY <2>2, PairPartsTyped
  <2>6. Silently(d, a)
    <3>1. a = [k EXCEPT !.eff.jobs = @ \union J]
      BY DEF Asked, InterStage!Common!Evaluate
    <3>2. k.eff = d.eff /\ d.eff \in Effect(InterCalls(TRUE), Jobs("interframe")) /\ a.eff = [k.eff EXCEPT !.jobs = @ \union J]
      BY <2>2, <3>1 DEF InterContext
    <3> HIDE DEF a, k, J
    <3>3. a.eff.report = d.eff.report /\ a.eff.calls = d.eff.calls
      BY <3>2 DEF Effect
    <3> QED BY <3>3 DEF Silently
  <2>7. F = IF RunFlush(d) = {} THEN a ELSE InterStage!Common!AddAll(a, RunFlush(d))
    BY DEF Flushed
  <2>8. p.eff = F.eff
    BY <2>5 DEF PairedUp, InterContext
  <2> HIDE DEF a, F, p, k, J
  <2>9. Silently(a, F)
    BY <2>5, <2>7, <1>5, SilentlyOn
  <2>10. Silently(d, p)
    BY <2>6, <2>8, <2>9 DEF Silently
  <2>11. Silently(d, InterStage!PairUp(d))
    BY <2>3, <2>4, <2>10, SilentlyOn
  <2> QED BY <2>1, <2>2, <2>11, SilentlyOn
<1>8. InterStage!Common!Params(c).eff.report = c.eff.report
  <2> DEFINE m == Call("sink", "params")
             e == WithCall(c.eff, m)
             d == InterStage!Common!Send(c, m)
  <2>1. m \in InterCalls(TRUE)
    BY InterCallsMade
  <2>2. InterStage!Common!Params(c) = IF c.exists THEN d ELSE c
    BY DEF InterStage!Common!Params, InterStage!Common!Call, Call
  <2> HIDE DEF m
  <2>3. d.eff = e /\ c.eff \in Effect(AllCalls, Jobs("interframe")) /\ m \in AllCalls
    BY <2>1, InterSendFields
  <2>4. e.report = c.eff.report
    BY <2>3 DEF WithCall, Effect
  <2> QED BY <2>2, <2>3, <2>4
<1>9. InterStage!Common!EvaluationFailed(c).eff.calls = c.eff.calls
  BY DEF InterStage!Common!EvaluationFailed, InterStage!Common!Report, InterContext, Effect
<1> QED BY <1>1, <1>2, <1>3, <1>4, <1>6, <1>7, <1>8, <1>9
-----------------------------------------------------------------------------
(* Part 2: the end of the video. The calls that have the writer write the  *)
(* last frames and other frames, the one that brings the sink the last     *)
(* entries, and those that bring it entries.                               *)
LastFrames  == {m \in AllCalls : m.callee = "writer" /\ m.op = "last"}
Given       == {m \in AllCalls : m.callee = "writer" /\ m.op = "frames"}
LastEntries == {m \in AllCalls : m.callee = "sink" /\ m.op = "lastWritten"}
Entries     == {m \in AllCalls : m.callee = "sink" /\ m.op \in {"framesWritten", "lastWritten"}}

Has(q, M)   == \E i \in DOMAIN q : q[i] \in M
Alone(q, M) == \A i, j \in DOMAIN q : q[i] \in M /\ q[j] \in M => i = j

(* W is the queue of the writer, Q that of the sink, c its context, e the  *)
(* encoder, s the context of the source. The last frames are written last, *)
(* and once.                                                               *)
LastIsLast(W, Q, c, e) ==
    /\ \A i \in DOMAIN W : W[i] \in LastFrames => i = Len(W)
    /\ Has(W, LastFrames) => ~Has(Q, LastEntries) /\ ~c.finished
    /\ Has(Q, LastEntries) \/ c.finished => W = <<>> /\ e.held = <<>> /\ c.codecOpen
    /\ Alone(Q, LastEntries)
    /\ c.finished => ~Has(Q, LastEntries)

(* The entries come in the order of their numbers: nothing waits.          *)
NoneWaits(Q, c, e) ==
    /\ c.buffer = {}
    /\ Stream(Q, Entries, c.nextEntry, e.received, FrameType)

(* They are the last ones only when everything was handed to the writer.   *)
LastSent(W, Q, c) == Has(W, LastFrames) \/ Has(Q, LastEntries) \/ c.finished

AllHanded(W, Q, c, s) ==
    LastSent(W, Q, c) =>
        /\ s.eofFlushed /\ s.processed \in Nat
        /\ Handed(c.sdh) = s.processed - 1 /\ Handed(c.sdh) # 0

(* The user is told of the end once, and by the sink.                      *)
Told(R, c) ==
    \A i, j \in DOMAIN R : R[i] = "finished" => c.finished /\ (R[j] = "finished" => i = j)

EndInv ==
    /\ LastIsLast(queue["writer"], queue["sink"], context.sink, encoder)
    /\ NoneWaits(queue["sink"], context.sink, encoder)
    /\ AllHanded(queue["writer"], queue["sink"], context.sink, context.source)
    /\ Told(reports, context.sink)

-----------------------------------------------------------------------------
(* Other calls come and go. No entries come behind the last ones.          *)
Closes(q) == \A i, j \in DOMAIN q : q[i] \in LastEntries /\ q[j] \in Entries => j <= i

Rests(q, r) ==
    /\ Has(r, LastEntries) <=> Has(q, LastEntries)
    /\ Has(r, Entries) => Has(q, Entries)
    /\ Alone(q, LastEntries) => Alone(r, LastEntries)
    /\ Closes(q) => Closes(r)
    /\ Same(q, r, Entries)

(* Resting is a preorder.                                                  *)
LEMMA RestsOn ==
    /\ \A q : Rests(q, q)
    /\ \A q, r, t : Rests(q, r) /\ Rests(r, t) => Rests(q, t)
BY SameStream DEF Rests, Same

(* Calls that bring no entries come to the end of the queue.               *)
LEMMA RestsBehind ==
    ASSUME NEW q \in Seq(CallType), NEW x \in Seq(CallType), \A i \in DOMAIN x : x[i] \notin Entries
    PROVE  Rests(q, q \o x)
<1>1. Same(q, q \o x, Entries)
  BY SameBehind
<1>2. \A i \in DOMAIN x : x[i] \notin LastEntries
  BY DEF Entries, LastEntries
<1>3. /\ DOMAIN q \subseteq DOMAIN (q \o x) /\ \A i \in DOMAIN q : (q \o x)[i] = q[i]
      /\ \A i \in DOMAIN (q \o x) : i \in DOMAIN q \/ (q \o x)[i] \notin LastEntries
      /\ \A i \in DOMAIN (q \o x) : i \in DOMAIN q \/ (q \o x)[i] \notin Entries
  <2>1. /\ Len(q) \in Nat /\ Len(x) \in Nat /\ DOMAIN q = 1 .. Len(q) /\ DOMAIN x = 1 .. Len(x)
        /\ DOMAIN (q \o x) = 1 .. Len(q) + Len(x)
        /\ \A i \in 1 .. Len(q) : (q \o x)[i] = q[i]
        /\ \A i \in DOMAIN (q \o x) : \/ i \in DOMAIN q /\ (q \o x)[i] = q[i]
                                      \/ i - Len(q) \in DOMAIN x /\ (q \o x)[i] = x[i - Len(q)]
    BY ConcatPlaces
  <2> DEFINE y == q \o x
  <2> HIDE DEF y
  <2> QED BY <1>2, <2>1 DEF y
<1> DEFINE y == q \o x
<1> HIDE DEF y
<1>4. (Has(y, LastEntries) <=> Has(q, LastEntries)) /\ (Alone(q, LastEntries) => Alone(y, LastEntries))
  BY <1>3 DEF Has, Alone, y
<1>5. (Has(y, Entries) => Has(q, Entries)) /\ (Closes(q) => Closes(y))
  BY <1>3 DEF Has, Closes, y
<1> QED BY <1>1, <1>4, <1>5 DEF Rests, y

(* The places of the rest of a queue.                                      *)
LEMMA TailPlaces ==
    ASSUME NEW S, NEW q \in Seq(S), q # <<>>
    PROVE  /\ Len(q) \in Nat \ {0} /\ DOMAIN q = 1 .. Len(q) /\ 1 \in DOMAIN q /\ q[1] = Head(q)
           /\ Len(Tail(q)) = Len(q) - 1 /\ DOMAIN Tail(q) = 1 .. Len(q) - 1
           /\ \A i \in DOMAIN Tail(q) : i + 1 \in DOMAIN q /\ Tail(q)[i] = q[i + 1]
           /\ \A i \in DOMAIN q : i # 1 => i - 1 \in DOMAIN Tail(q) /\ Tail(q)[i - 1] = q[i]
OBVIOUS

(* A call that brings no entries leaves the queue.                         *)
LEMMA RestsTail ==
    ASSUME NEW q \in Seq(CallType), q # <<>>, Head(q) \notin Entries
    PROVE  Rests(q, Tail(q))
<1>1. Same(q, Tail(q), Entries)
  BY SameTail
<1>2. Head(q) \notin LastEntries
  BY DEF Entries, LastEntries
<1> DEFINE y == Tail(q)
<1>3. /\ Len(q) \in Nat \ {0} /\ DOMAIN q = 1 .. Len(q) /\ 1 \in DOMAIN q /\ q[1] = Head(q)
      /\ \A i \in DOMAIN y : i + 1 \in DOMAIN q /\ y[i] = q[i + 1] /\ i \in Int
      /\ \A i \in DOMAIN q : i # 1 => i - 1 \in DOMAIN y /\ y[i - 1] = q[i]
  BY TailPlaces
<1> HIDE DEF y
<1>4. Has(y, LastEntries) <=> Has(q, LastEntries)
  BY <1>2, <1>3 DEF Has
<1>5. ASSUME Alone(q, LastEntries) PROVE Alone(y, LastEntries)
  <2> SUFFICES ASSUME NEW i \in DOMAIN y, NEW j \in DOMAIN y, y[i] \in LastEntries, y[j] \in LastEntries
               PROVE  i = j
    BY DEF Alone
  <2>1. i + 1 \in DOMAIN q /\ j + 1 \in DOMAIN q /\ q[i + 1] \in LastEntries /\ q[j + 1] \in LastEntries /\ i \in Int /\ j \in Int
    BY <1>3
  <2>2. i + 1 = j + 1
    BY <1>5, <2>1 DEF Alone
  <2> QED BY <2>1, <2>2
<1>6. Has(y, Entries) => Has(q, Entries)
  BY <1>3 DEF Has
<1>7. ASSUME Closes(q) PROVE Closes(y)
  <2> SUFFICES ASSUME NEW i \in DOMAIN y, NEW j \in DOMAIN y, y[i] \in LastEntries, y[j] \in Entries
               PROVE  j <= i
    BY DEF Closes
  <2>1. i + 1 \in DOMAIN q /\ j + 1 \in DOMAIN q /\ q[i + 1] \in LastEntries /\ q[j + 1] \in Entries /\ i \in Int /\ j \in Int
    BY <1>3
  <2>2. j + 1 <= i + 1
    BY <1>7, <2>1 DEF Closes
  <2> QED BY <2>1, <2>2
<1> QED BY <1>1, <1>4, <1>5, <1>6, <1>7 DEF Rests, y

(* A queue that ends with the last entries; the queue of the writer.       *)
LEMMA HasConcat ==
    ASSUME NEW S, NEW q \in Seq(S), NEW m \in S, NEW M
    PROVE  /\ Has(Append(q, m), M) <=> Has(q, M) \/ m \in M
           /\ ~Has(q, M) => Alone(Append(q, m), M)
           /\ ~Has(q, M) => \A i \in DOMAIN Append(q, m) : Append(q, m)[i] \in M => i = Len(Append(q, m))
<1> DEFINE y == Append(q, m)
<1>1. /\ Len(q) \in Nat /\ DOMAIN q = 1 .. Len(q) /\ Len(y) = Len(q) + 1 /\ DOMAIN y = 1 .. Len(q) + 1
      /\ \A i \in 1 .. Len(q) : y[i] = q[i]
      /\ y[Len(q) + 1] = m
  OBVIOUS
<1> HIDE DEF y
<1>2. Has(y, M) <=> Has(q, M) \/ m \in M
  <2>1. ASSUME Has(y, M) PROVE Has(q, M) \/ m \in M
    BY <1>1, <2>1 DEF Has
  <2>2. ASSUME Has(q, M) PROVE Has(y, M)
    BY <1>1, <2>2 DEF Has
  <2>3. ASSUME m \in M PROVE Has(y, M)
    BY <1>1, <2>3 DEF Has
  <2> QED BY <2>1, <2>2, <2>3
<1>3. ASSUME ~Has(q, M), NEW i \in DOMAIN y, y[i] \in M PROVE i = Len(y)
  BY <1>1, <1>3 DEF Has
<1>4. ~Has(q, M) => Alone(y, M)
  BY <1>3 DEF Alone
<1> QED BY <1>2, <1>3, <1>4 DEF y

(* The rest of a queue has less.                                           *)
LEMMA HasTail ==
    ASSUME NEW S, NEW q \in Seq(S), q # <<>>, NEW M
    PROVE  /\ Has(Tail(q), M) => Has(q, M)
           /\ Head(q) \in M => Has(q, M)
           /\ Alone(q, M) => Alone(Tail(q), M) /\ (Head(q) \in M => ~Has(Tail(q), M))
           /\ (\A i \in DOMAIN q : q[i] \in M => i = Len(q)) =>
                 /\ \A i \in DOMAIN Tail(q) : Tail(q)[i] \in M => i = Len(Tail(q))
                 /\ Head(q) \in M => Tail(q) = <<>>
<1> DEFINE y == Tail(q)
<1>1. /\ Len(q) \in Nat \ {0} /\ DOMAIN q = 1 .. Len(q) /\ 1 \in DOMAIN q /\ q[1] = Head(q)
      /\ Len(y) = Len(q) - 1 /\ DOMAIN y = 1 .. Len(q) - 1
      /\ \A i \in DOMAIN y : i + 1 \in DOMAIN q /\ y[i] = q[i + 1] /\ i \in Nat \ {0}
  BY TailPlaces
<1>2. y \in Seq(S) /\ (Len(y) = 0 => y = <<>>)
  <2>1. y \in Seq(S)
    BY HeadAndTail
  <2> HIDE DEF y
  <2> QED BY <2>1
<1> HIDE DEF y
<1>3. (Has(y, M) => Has(q, M)) /\ (Head(q) \in M => Has(q, M))
  BY <1>1 DEF Has
<1>4. ASSUME Alone(q, M) PROVE Alone(y, M) /\ (Head(q) \in M => ~Has(y, M))
  <2>1. ASSUME NEW i \in DOMAIN y, NEW j \in DOMAIN y, y[i] \in M, y[j] \in M PROVE i = j
    <3>1. i + 1 = j + 1
      BY <1>1, <1>4, <2>1 DEF Alone
    <3> QED BY <1>1, <3>1
  <2>2. ASSUME NEW i \in DOMAIN y, y[i] \in M, Head(q) \in M PROVE FALSE
    <3>1. i + 1 = 1
      BY <1>1, <1>4, <2>2 DEF Alone
    <3> QED BY <1>1, <3>1
  <2> QED BY <2>1, <2>2 DEF Alone, Has
<1>5. ASSUME \A i \in DOMAIN q : q[i] \in M => i = Len(q)
      PROVE  /\ \A i \in DOMAIN y : y[i] \in M => i = Len(y)
             /\ Head(q) \in M => y = <<>>
  <2>1. ASSUME NEW i \in DOMAIN y, y[i] \in M PROVE i = Len(y)
    <3>1. i + 1 = Len(q)
      BY <1>1, <1>5, <2>1
    <3> QED BY <1>1, <3>1
  <2>2. ASSUME Head(q) \in M PROVE y = <<>>
    <3>1. 1 = Len(q)
      BY <1>1, <1>5, <2>2
    <3> QED BY <1>1, <1>2, <3>1
  <2> QED BY <2>1, <2>2
<1> QED BY <1>3, <1>4, <1>5 DEF y

(* No more frames go through a stage than came, and when all of them did,  *)
(* none is being evaluated.                                                *)
LEMMA NextBelow ==
    ASSUME NEW A, NEW h, Settled(h, A), NEW n \in Int, Seen(h) \subseteq 0 .. n - 1
    PROVE  /\ Handed(h) \in Nat /\ h.next \in Nat /\ Handed(h) <= h.next
           /\ h.next # 0 => h.next <= n
           /\ \A N : N \subseteq 0 .. n - 1 /\ N \intersect Seen(h) = {} /\ Handed(h) = n => N = {}
<1>1. Handed(h) \in Nat /\ Handed(h) <= h.next /\ h.next \in Nat
  BY HandedTyped DEF Settled
<1>2. 0 .. h.next - 1 \subseteq 0 .. n - 1
  BY DEF Seen
<1>3. h.next # 0 => h.next <= n
  <2> SUFFICES ASSUME h.next # 0 PROVE h.next <= n
    OBVIOUS
  <2>1. h.next - 1 \in 0 .. h.next - 1
    BY <1>1
  <2>2. h.next - 1 \in 0 .. n - 1
    BY <1>2, <2>1
  <2> QED BY <1>1, <2>2
<1>4. ASSUME NEW N, N \subseteq 0 .. n - 1, N \intersect Seen(h) = {}, Handed(h) = n PROVE N = {}
  <2>1. 0 .. n - 1 \subseteq 0 .. h.next - 1
    BY <1>1, <1>4
  <2> QED BY <1>4, <2>1 DEF Seen
<1> QED BY <1>1, <1>3, <1>4

(* A set of jobs without numbers is empty.                                 *)
LEMMA NoNumbersNoJobs ==
    ASSUME NEW J, NumbersOf(J) = {}
    PROVE  J = {}
BY DEF NumbersOf

(* The sink hands on less than the source counts, as the inter-frame stage *)
(* makes one out of two, and as much only if nothing is under way.         *)
EndBounds(s, h, J) ==
    /\ Handed(h) \in Nat /\ s.processed \in Nat /\ Handed(h) <= h.next
    /\ h.next # 0 => h.next <= s.processed - 1
    /\ Handed(h) # 0 /\ Handed(h) = s.processed - 1 => h.next = s.processed - 1 /\ J = {}

(* What the flow says of them: see FlowInv.                                *)
LEMMA EndBoundedWith ==
    ASSUME NEW L, TypeInv, FlowWith(L)
    PROVE  EndBounds(context.source, context.sink.sdh, Pending(L, "frame") \union Pending(L, "interframe"))
<1> DEFINE c == context.source
           f == context.frame.sdh
           g == context.interframe.sdh
           h == context.sink.sdh
           z == End(c)
           p == c.processed
<1>1. c \in SourceContext(video, BOOLEAN, TRUE)
  BY ContextsTyped
<1>2. /\ SourceFlow(video, c)
      /\ FrameFlow(queue["processors"], Handed(c.sdh), Pending(L, "frame"), f, z)
      /\ InterFlow(queue["processors"], Handed(f), Pending(L, "interframe"), context.interframe, z)
      /\ SinkFlow(queue["sink"], Handed(g), h, z)
  BY FlowParts DEF FramePart, InterPart, SinkPart
<1> HIDE DEF c, f, g, h, z
<1>3. p \in Nat /\ Settled(c.sdh, Passing(FlushPlace(c))) /\ Seen(c.sdh) = 0 .. p - 1
  BY <1>1, <1>2 DEF SourceContext, SourceFlow
<1>4. Handed(c.sdh) \in Nat /\ Handed(c.sdh) <= p
  <2> HIDE DEF p
  <2> QED BY <1>3, HandedBelow
<1>5. PICK x \in Nat : /\ Stream(queue["processors"], Deliveries("frame"), x, Handed(c.sdh), Passing(z))
                       /\ Working(queue["processors"], "frame", Pending(L, "frame"), f, Passing(z), x)
  BY <1>2 DEF FrameFlow
<1>6. PICK y \in Nat : /\ Stream(queue["processors"], Deliveries("interframe"), y, Handed(f), Passing(z))
                       /\ Working(queue["processors"], "interframe", Pending(L, "interframe"), g, Pairs(z), y - 1)
  BY <1>2 DEF InterFlow, g
<1>7. PICK w \in Nat : /\ Stream(queue["sink"], Deliveries("sink"), w, Handed(g), Pairs(z))
                       /\ Settled(h, Pairs(z)) /\ Seen(h) = 0 .. w - 1
  BY <1>2 DEF SinkFlow
<1>8. x <= Handed(c.sdh) /\ y <= Handed(f) /\ w <= Handed(g)
  BY <1>5, <1>6, <1>7 DEF Stream
<1> DEFINE N == NumbersOf(Pending(L, "frame"))
           M == NumbersOf(Pending(L, "interframe"))
<1>9. /\ Settled(f, Passing(z)) /\ Seen(f) \subseteq 0 .. x - 1
      /\ N \subseteq 0 .. x - 1 /\ N \intersect Seen(f) = {}
  BY <1>5 DEF Working, Balanced
<1>10. /\ Settled(g, Pairs(z)) /\ Seen(g) \subseteq 0 .. (y - 1) - 1
       /\ M \subseteq 0 .. (y - 1) - 1 /\ M \intersect Seen(g) = {}
  BY <1>6 DEF Working, Balanced
<1> HIDE DEF p
<1>11. /\ Handed(f) \in Nat /\ f.next \in Nat /\ Handed(f) <= f.next /\ (f.next # 0 => f.next <= x)
       /\ Handed(f) = x => N = {}
  <2> HIDE DEF N
  <2>1. x \in Int
    OBVIOUS
  <2> QED BY <1>9, <2>1, NextBelow
<1>12. /\ Handed(g) \in Nat /\ g.next \in Nat /\ Handed(g) <= g.next /\ (g.next # 0 => g.next <= y - 1)
       /\ Handed(g) = y - 1 => M = {}
  <2> DEFINE n == y - 1
  <2>1. n \in Int /\ Seen(g) \subseteq 0 .. n - 1 /\ M \subseteq 0 .. n - 1
    BY <1>10
  <2> HIDE DEF M, n
  <2>2. /\ Handed(g) \in Nat /\ g.next \in Nat /\ Handed(g) <= g.next /\ (g.next # 0 => g.next <= n)
        /\ Handed(g) = n => M = {}
    BY <1>10, <2>1, NextBelow
  <2> QED BY <2>2 DEF n
<1>13. Handed(h) \in Nat /\ h.next \in Nat /\ Handed(h) <= h.next /\ (h.next # 0 => h.next <= w)
  BY <1>7, NextBelow
<1>14. h.next # 0 => h.next <= p - 1
  BY <1>3, <1>4, <1>8, <1>11, <1>12, <1>13, SMTT(40)
<1>15. ASSUME Handed(h) # 0, Handed(h) = p - 1 PROVE h.next = p - 1 /\ Pending(L, "frame") = {} /\ Pending(L, "interframe") = {}
  <2>1. h.next = p - 1
    BY <1>3, <1>13, <1>14, <1>15
  <2>2. Handed(f) = x /\ Handed(g) = y - 1
    BY <1>3, <1>4, <1>8, <1>11, <1>12, <1>13, <1>15, SMTT(40)
  <2>3. Pending(L, "frame") = {} /\ Pending(L, "interframe") = {}
    BY <2>2, <1>11, <1>12, NoNumbersNoJobs
  <2> QED BY <2>1, <2>3
<1>16. c.processed = p
  BY DEF p
<1> QED BY <1>3, <1>13, <1>14, <1>15, <1>16 DEF EndBounds, c, h

LEMMA EndBounded ==
    ASSUME TypeInv, FlowInv
    PROVE  EndBounds(context.source, context.sink.sdh, images.evaluating)
<1>1. EndBounds(context.source, context.sink.sdh, Pending({}, "frame") \union Pending({}, "interframe"))
  BY EndBoundedWith DEF FlowInv
<1>2. \A j \in images.evaluating : j.stage \in {"frame", "interframe"}
  BY DEF TypeInv, ImagesType, Jobs
<1>3. Pending({}, "frame") \union Pending({}, "interframe") = images.evaluating
  BY <1>2 DEF Pending, Evaluating
<1> QED BY <1>1, <1>3

(* What FinishedIsComplete says, from the invariant.                       *)
LEMMA EndInvComplete ==
    ASSUME TypeInv, FlowInv, EndInv
    PROVE  FinishedIsComplete
<1> SUFFICES ASSUME "finished" \in Range(reports) \/ StreamIsWritten
             PROVE  /\ context.source.eofFlushed
                    /\ context.sink.sdh.next = context.source.processed - 1
                    /\ images.evaluating = {}
                    /\ queue.writer = <<>> /\ encoder.held = <<>>
                    /\ context.sink.buffer = {}
  BY DEF FinishedIsComplete
<1>1. context.sink.finished
  <2>1. CASE "finished" \in Range(reports)
    <3>1. PICK i \in DOMAIN reports : reports[i] = "finished"
      BY <2>1 DEF Range
    <3> QED BY <3>1 DEF EndInv, Told
  <2> QED BY <2>1 DEF StreamIsWritten
<1>2. /\ context.source.eofFlushed
      /\ Handed(context.sink.sdh) = context.source.processed - 1 /\ Handed(context.sink.sdh) # 0
  BY <1>1 DEF EndInv, AllHanded, LastSent
<1>3. queue["writer"] = <<>> /\ encoder.held = <<>>
  BY <1>1 DEF EndInv, LastIsLast
<1>4. context.sink.buffer = {}
  BY DEF EndInv, NoneWaits
<1>5. context.sink.sdh.next = context.source.processed - 1 /\ images.evaluating = {}
  BY <1>2, EndBounded DEF EndBounds
<1> QED BY <1>2, <1>3, <1>4, <1>5
-----------------------------------------------------------------------------
(* Part 3: the source at the end of the file.                              *)

(* The source: what a flush leaves alone.                                  *)
SourceCalm(c, f) ==
    /\ Silently(c, f)
    /\ f.exists = c.exists /\ f.opened = c.opened
    /\ f.loaded = c.loaded /\ f.processed = c.processed /\ f.eofReached = c.eofReached
    /\ c.eofFlushed => f.eofFlushed

(* One operation after the other.                                          *)
LEMMA SourceCalmOn ==
    ASSUME NEW c, NEW d, NEW f, SourceCalm(c, d), SourceCalm(d, f)
    PROVE  SourceCalm(c, f)
BY SilentlyOn DEF SourceCalm

(* A call of the source.                                                   *)
LEMMA SourceSendCalm ==
    ASSUME NEW v, NEW c \in SourceContext(v, BOOLEAN, TRUE), NEW m \in SourceCalls(TRUE), m.op # "params"
    PROVE  Source!Send(c, m) \in SourceContext(v, BOOLEAN, TRUE) /\ SourceCalm(c, Source!Send(c, m))
<1> DEFINE d == Source!Send(c, m)
           e == WithCall(c.eff, m)
<1>1. /\ d \in SourceContext(v, BOOLEAN, TRUE)
      /\ d.exists = c.exists /\ d.opened = c.opened
      /\ d.loaded = c.loaded /\ d.processed = c.processed /\ d.eofReached = c.eofReached
      /\ d.eofFlushed = c.eofFlushed
      /\ d.eff = e
      /\ c.eff \in Effect(AllCalls, {}) /\ m \in AllCalls
  BY SourceSendFields
<1>2. /\ e.report = c.eff.report
      /\ \A t \in Thread : Mute(c.eff.calls[t]) => Mute(e.calls[t])
  BY <1>1, SilentCall
<1> HIDE DEF d, e
<1>3. SourceCalm(c, d)
  BY <1>1, <1>2 DEF Silently, SourceCalm
<1> QED BY <1>1, <1>3 DEF d

(* try_flush of the source.                                                *)
LEMMA SourceFlushCalm ==
    ASSUME NEW v, NEW c \in SourceContext(v, BOOLEAN, TRUE)
    PROVE  SourceCalm(c, Source!Flush(c)) /\ Source!Flush(c) \in SourceContext(v, BOOLEAN, TRUE)
<1> DEFINE d == [c EXCEPT !.sdh = TryProcessInput(c.sdh)]
           n == DeliverAmount(d.sdh, MaxRead, d.waiting)
           k == [d EXCEPT !.sdh = Kept(d.sdh, n)]
           load == Taken(d.sdh, n)
           w == [k EXCEPT !.waiting = 0]
           m == CallWith("frame", "process", load)
           x == Source!Send(w, m)
           y == [x EXCEPT !.eofFlushed = TRUE]
<1>1. /\ c.sdh \in Handler /\ c.waiting \in Nat /\ MaxRead \in Nat
      /\ d.sdh = TryProcessInput(c.sdh) /\ d.waiting = c.waiting
  BY FileToFileAssumption DEF SourceContext, Demand
<1>2. /\ Kept(d.sdh, n) \in Handler /\ load \in Seq(FrameType)
      /\ n # 0 => load # <<>>
  BY <1>1, FlushTyped
<1>3. d \in SourceContext(v, BOOLEAN, TRUE)
  BY <1>1, FlushTyped DEF SourceContext
<1>4. Source!Flush(c) =
          IF d.sdh.out = <<>> THEN Source!Trigger(d)
          ELSE IF n = 0       THEN d
          ELSE Source!Deliver(k, load)
  BY SourceFlushIs
<1>5. Source!Deliver(k, load) = IF HasFlush(load) THEN Source!Send(y, Call("frame", "finish")) ELSE Source!Send(x, Call("source", "start"))
  BY DEF Source!Deliver, Source!Trigger, Source!CallWith, CallWith, Source!Call, Call,
         Source!HasFlush, HasFlush, Source!IsFlush, IsFlush
<1>6. Source!Flush(c) \in SourceContext(v, BOOLEAN, TRUE)
  BY SourceFlushTyped
<1>7. SourceCalm(c, d)
  BY SilentlyOn DEF SourceCalm, SourceContext
<1> HIDE DEF d, load
<1> HIDE DEF n
<1>8. /\ w \in SourceContext(v, BOOLEAN, TRUE) /\ w.eff = d.eff /\ w.exists = d.exists /\ w.opened = d.opened
      /\ w.loaded = d.loaded /\ w.processed = d.processed /\ w.eofReached = d.eofReached /\ w.eofFlushed = d.eofFlushed
  <2>0. 0 \in Demand(TRUE, MaxOut)
    BY FileToFileAssumption DEF Demand
  <2>1. /\ k \in SourceContext(v, BOOLEAN, TRUE) /\ k.eff = d.eff /\ k.exists = d.exists /\ k.opened = d.opened
        /\ k.loaded = d.loaded /\ k.processed = d.processed /\ k.eofReached = d.eofReached /\ k.eofFlushed = d.eofFlushed
    BY <1>2, <1>3 DEF SourceContext
  <2> HIDE DEF k
  <2> QED BY <2>0, <2>1 DEF SourceContext
<1> HIDE DEF w
<1>9. SourceCalm(d, w)
  BY <1>8, SilentlyOn DEF SourceCalm
<1>10. /\ Call("source", "start") \in SourceCalls(TRUE) /\ Call("source", "start").op # "params"
       /\ Call("frame", "finish") \in SourceCalls(TRUE) /\ Call("frame", "finish").op # "params"
       /\ n # 0 => m \in SourceCalls(TRUE) /\ m.op # "params"
  <2>1. /\ Is(Call("source", "start"), "source", "start") /\ Call("source", "start") \in SourceCalls(TRUE)
        /\ Is(Call("frame", "finish"), "frame", "finish") /\ Call("frame", "finish") \in SourceCalls(TRUE)
    BY SourceCallsMade, CallsMade DEF Stage
  <2>2. n # 0 => Is(m, "frame", "process") /\ m \in SourceCalls(TRUE)
    BY <1>2, SourceCallsMade, CallsMade
  <2> QED BY <2>1, <2>2 DEF Is
<1> HIDE DEF m
<1>11. Source!Trigger(d) = Source!Send(d, Call("source", "start"))
  BY DEF Source!Trigger, Source!Call, Call
<1>12. SourceCalm(d, Source!Trigger(d))
  BY <1>3, <1>10, <1>11, SourceSendCalm
<1>13. ASSUME n # 0 PROVE SourceCalm(d, Source!Deliver(k, load))
  <2>1. SourceCalm(w, x) /\ x \in SourceContext(v, BOOLEAN, TRUE)
    BY <1>8, <1>10, <1>13, SourceSendCalm
  <2> HIDE DEF x
  <2>2. y \in SourceContext(v, BOOLEAN, TRUE) /\ SourceCalm(x, y)
    BY <2>1, SilentlyOn DEF SourceCalm, SourceContext
  <2> HIDE DEF y
  <2>3. SourceCalm(x, Source!Send(x, Call("source", "start"))) /\ SourceCalm(y, Source!Send(y, Call("frame", "finish")))
    BY <1>10, <2>1, <2>2, SourceSendCalm
  <2>4. SourceCalm(x, Source!Deliver(k, load))
    BY <1>5, <2>2, <2>3, SourceCalmOn
  <2> QED BY <1>9, <2>1, <2>4, SourceCalmOn
<1>14. SourceCalm(d, Source!Flush(c))
  <2>1. SourceCalm(d, d)
    BY SilentlyOn DEF SourceCalm
  <2> QED BY <1>4, <1>12, <1>13, <2>1
<1> QED BY <1>6, <1>7, <1>14, SourceCalmOn

(* Frames are added to the handler of the source.                          *)
LEMMA SourceAddCalm ==
    ASSUME NEW v, NEW c \in SourceContext(v, BOOLEAN, TRUE), NEW E \in SUBSET FrameType, IsFiniteSet(E)
    PROVE  SourceCalm(c, Source!AddAll(c, E)) /\ Source!AddAll(c, E) \in SourceContext(v, BOOLEAN, TRUE)
<1> DEFINE d == [c EXCEPT !.sdh.in = @ \union E]
           h == [c.sdh EXCEPT !.in = @ \union E]
<1>0. h \in Handler
  BY AddTyped DEF SourceContext
<1>1. d = [c EXCEPT !.sdh = h]
  OBVIOUS
<1> HIDE DEF h
<1> HIDE DEF d
<1>2. d \in SourceContext(v, BOOLEAN, TRUE) /\ SourceCalm(c, d)
  <2>1. /\ d \in SourceContext(v, BOOLEAN, TRUE) /\ d.eff = c.eff
        /\ d.exists = c.exists /\ d.opened = c.opened /\ d.loaded = c.loaded
        /\ d.processed = c.processed /\ d.eofReached = c.eofReached /\ d.eofFlushed = c.eofFlushed
    BY <1>0, <1>1 DEF SourceContext
  <2> QED BY <2>1, SilentlyOn DEF SourceCalm
<1>3. Source!AddAll(c, E) = Source!Flush(d)
  BY SourceAddIs DEF d
<1> QED BY <1>2, <1>3, SourceFlushCalm, SourceCalmOn

(* As long as the reading does not fail, no image is left out: the frames  *)
(* are counted up to the packet that was read last, and if the end of the  *)
(* file is passed on, up to the last one, with the flush frame.            *)
SourceCounts(v, c) ==
    v.end = "eof" =>
        \/ ~c.eofReached /\ c.processed = v.decoded[c.loaded]
        \/ c.eofReached /\ ~c.eofFlushed /\ Settled(c.sdh, Passing(-1))
        \/ c.eofReached /\ c.processed = v.decoded[v.packets] + 1

(* What a job of the source that is no init says, and what it does not     *)
(* change any more at the end.                                             *)
SourceSays(v, c, f) ==
    /\ SourceCounts(v, c) => SourceCounts(v, f)
    /\ f.eff.report \in {"none", "failed", "crashed"}
    /\ f.eff.report = "failed" => v.end = "error"
    /\ \A t \in Thread : Mute(f.eff.calls[t])
    /\ f.exists = c.exists /\ f.opened = c.opened
    /\ f.eofReached => c.eofReached \/ (v.end = "eof" /\ c.opened)
    /\ c.eofReached => f.eofReached /\ f.processed = c.processed
    /\ c.eofFlushed => f.eofFlushed

(* A context without effects has reported nothing.                         *)
LEMMA MuteAtFirst ==
    ASSUME NEW c, c.eff = NoEffects
    PROVE  /\ c.eff.report = "none" /\ \A t \in Thread : Mute(c.eff.calls[t])
           /\ \A f : Silently(c, f) => f.eff.report = "none" /\ \A t \in Thread : Mute(f.eff.calls[t])
<1>1. c.eff.report = "none" /\ \A t \in Thread : c.eff.calls[t] = <<>>
  BY DEF NoEffects
<1>2. \A t \in Thread : Mute(c.eff.calls[t])
  BY <1>1 DEF Mute
<1> QED BY <1>1, <1>2 DEF Silently

(* The operation next of the source.                                       *)
LEMMA SourceNextSays ==
    ASSUME NEW v, NEW c \in SourceContext(v, BOOLEAN, TRUE), c.eff = NoEffects, NEW n \in 0 .. MaxOut
    PROVE  SourceSays(v, c, Source!Next(c, n))
<1> DEFINE d == [c EXCEPT !.waiting = n]
<1>1. d \in SourceContext(v, BOOLEAN, TRUE) /\ SourceCalm(c, d)
  BY SilentlyOn DEF SourceContext, Demand, SourceCalm
<1>2. Source!Next(c, n) = IF c.exists THEN Source!Flush(d) ELSE c
  BY DEF Source!Next
<1> HIDE DEF d
<1>3. SourceCalm(c, Source!Flush(d)) /\ SourceCalm(c, c)
  BY <1>1, SourceFlushCalm, SourceCalmOn, SilentlyOn DEF SourceCalm
<1>4. SourceCalm(c, Source!Next(c, n))
  BY <1>2, <1>3
<1>5. ASSUME ~c.eofFlushed, Settled(c.sdh, Passing(-1))
      PROVE  ~Source!Next(c, n).eofFlushed /\ Settled(Source!Next(c, n).sdh, Passing(-1))
  <2> DEFINE f == Source!Flush(d)
  <2>1. d.sdh = c.sdh /\ d.eofFlushed = c.eofFlushed
    BY DEF d, SourceContext
  <2>2. Orderly(d.sdh, Passing(-1))
    BY <1>5, <2>1 DEF Settled
  <2>3. SourcePasses(v, d, f, -1) /\ Settled(f.sdh, Passing(-1))
    BY <1>1, <2>2, SourceFlushPasses
  <2>4. -1 \notin Nat
    OBVIOUS
  <2> HIDE DEF f
  <2>5. ~f.eofFlushed
    BY <1>5, <2>1, <2>3, <2>4 DEF SourcePasses
  <2> QED BY <1>2, <1>5, <2>3, <2>5 DEF f
<1> DEFINE g == Source!Next(c, n)
<1> HIDE DEF g
<1>6. SourceCounts(v, c) => SourceCounts(v, g)
  BY <1>4, <1>5 DEF SourceCalm, SourceCounts, g
<1> QED BY <1>4, <1>6, MuteAtFirst DEF SourceCalm, SourceSays, g

(* start counts the images that it reads.                                  *)
LEMMA StartCounts ==
    ASSUME NEW v \in Videos, NEW c \in SourceContext(v, BOOLEAN, TRUE), SourceFlow(v, c), c.eff = NoEffects,
           ~c.eofReached, SourceCounts(v, c)
    PROVE  /\ Gain(c, v) = 0 => SourceCounts(v, Read(c, v))
           /\ v.end = "eof" => Added(c, v).processed = v.decoded[Added(c, v).loaded]
           /\ v.end = "eof" /\ Read(c, v).eofReached => Read(c, v).loaded = v.packets
<1> DEFINE r == Read(c, v)
           k == c.loaded + Count(c, v)
           a == Added(c, v)
<1>1. /\ c.loaded \in 0 .. v.packets /\ c.processed \in Nat /\ MaxRead \in Nat /\ v.packets \in Nat
      /\ c.sdh \in Handler /\ ~c.eofFlushed
  BY FileToFileAssumption DEF SourceContext, SourceFlow
<1>2. Want(c) \in Nat
  BY <1>1, FreeTyped DEF Want
<1>3. /\ k \in 0 .. v.packets /\ Gain(c, v) \in Nat
      /\ v.decoded[c.loaded] \in Nat /\ v.decoded[k] \in Nat
  BY <1>1, <1>2, ReadTyped DEF Count, Gain
<1>4. Want(c) > v.packets - c.loaded => k = v.packets
  BY <1>1, <1>2, ReadTyped DEF Count
<1>5. /\ r.loaded = k /\ r.processed = c.processed /\ r.sdh = c.sdh /\ r.eofFlushed = c.eofFlushed
      /\ r.eofReached = (Want(c) > v.packets - c.loaded /\ v.end = "eof")
  BY DEF Read, SourceContext
<1>6. v.end = "eof" => c.processed = v.decoded[c.loaded]
  BY DEF SourceCounts
<1>7. Gain(c, v) = v.decoded[k] - v.decoded[c.loaded]
  BY DEF Gain
<1>8. Settled(c.sdh, Passing(-1))
  BY DEF SourceFlow, FlushPlace
<1>9. ImagesIn(v, c, a)
  BY SourceImagesIn
<1> HIDE DEF k
<1>10. v.end = "eof" => a.processed = v.decoded[a.loaded]
  BY <1>1, <1>3, <1>5, <1>6, <1>7, <1>9 DEF ImagesIn
<1>11. r.eofReached => r.loaded = v.packets
  BY <1>4, <1>5
<1> HIDE DEF r
<1>12. ASSUME Gain(c, v) = 0 PROVE SourceCounts(v, r)
  <2>1. v.end = "eof" => r.processed = v.decoded[r.loaded]
    BY <1>1, <1>3, <1>5, <1>6, <1>7, <1>12
  <2> QED BY <1>1, <1>5, <1>8, <2>1 DEF SourceCounts
<1> QED BY <1>10, <1>11, <1>12 DEF r

(* The operation start of the source.                                      *)
LEMMA SourceStartSays ==
    ASSUME NEW v \in Videos, NEW c \in SourceContext(v, BOOLEAN, TRUE), SourceFlow(v, c), c.eff = NoEffects
    PROVE  SourceSays(v, c, Source!Start(c, v))
<1> DEFINE r == Read(c, v)
           n == Numbering(c, v)
           a == Added(c, v)
           e == Ended(c, v)
<1>1. Source!Start(c, v) =
          IF ~c.exists \/ c.eofReached \/ Want(c) = 0
          THEN c
          ELSE IF ~c.opened
          THEN Source!Report(c, "crashed")
          ELSE IF Want(c) > v.packets - c.loaded /\ v.end = "error"
          THEN Source!Report(r, "failed")
          ELSE IF Gain(c, v) = 0
          THEN r
          ELSE IF a.eofReached /\ ~a.eofFlushed
          THEN Source!AddAll(e, {Source!FlushFrame(a.processed)})
          ELSE a
  BY SourceStartIs
<1>2. SourceCalm(c, c) /\ SourceSays(v, c, c)
  BY MuteAtFirst, SilentlyOn DEF SourceCalm, SourceSays
<1>3. CASE ~c.exists \/ c.eofReached \/ Want(c) = 0
  BY <1>1, <1>2, <1>3
<1>4. CASE ~(~c.exists \/ c.eofReached \/ Want(c) = 0)
  <2>0. ~c.eofReached /\ ~c.eofFlushed
    BY <1>4 DEF SourceFlow
  <2>1. CASE ~c.opened
    <3> DEFINE f == Source!Report(c, "crashed")
    <3>1. Source!Start(c, v) = f
      BY <1>1, <1>4, <2>1
    <3>2. /\ f.eff.report = "crashed" /\ f.eff.calls = c.eff.calls /\ f.exists = c.exists /\ f.opened = c.opened
          /\ f.eofReached = c.eofReached /\ f.processed = c.processed /\ f.eofFlushed = c.eofFlushed
          /\ f.loaded = c.loaded /\ f.sdh = c.sdh
      BY DEF Source!Report, SourceContext, Effect
    <3> HIDE DEF f
    <3>3. SourceCounts(v, c) => SourceCounts(v, f)
      BY <3>2 DEF SourceCounts
    <3> QED BY <3>1, <3>2, <3>3, MuteAtFirst DEF SourceSays
  <2>2. CASE c.opened
    <3>1. /\ r \in SourceContext(v, BOOLEAN, TRUE) /\ Gain(c, v) \in Nat /\ c.processed \in Nat
      BY <2>0, SourceReadIs
    <3>2. /\ r.eff = c.eff /\ r.exists = c.exists /\ r.opened = c.opened
          /\ (r.eofReached => v.end = "eof")
      BY DEF Read, SourceContext
    <3>3. r.eff = NoEffects
      BY <3>2
    <3>4. r.eff.report = "none" /\ \A t \in Thread : Mute(r.eff.calls[t])
      BY <3>3, MuteAtFirst
    <3> HIDE DEF r
    <3>5. Gain(c, v) = 0 => SourceSays(v, c, r)
      BY <2>0, <2>2, <3>2, <3>4, StartCounts DEF SourceSays, r
    <3>6. ASSUME v.end = "error" PROVE SourceSays(v, c, Source!Report(r, "failed"))
      <4> DEFINE f == Source!Report(r, "failed")
      <4>1. /\ f.eff.report = "failed" /\ f.eff.calls = r.eff.calls /\ f.exists = r.exists /\ f.opened = r.opened
            /\ f.eofReached = r.eofReached
        BY <3>1 DEF Source!Report, SourceContext, Effect
      <4> HIDE DEF f
      <4>2. SourceSays(v, c, f)
        BY <3>6, <4>1, <2>0, <2>2, <3>2, <3>4 DEF SourceSays, SourceCounts
      <4> QED BY <4>2 DEF f
    <3>7. n \in SourceContext(v, BOOLEAN, TRUE) /\ n.eff = r.eff /\ n.exists = r.exists /\ n.opened = r.opened /\ n.eofReached = r.eofReached
      <4> DEFINE k == r.processed + Gain(c, v)
      <4>1. k \in Nat /\ n = [r EXCEPT !.processed = k]
        BY <3>1 DEF SourceContext, Numbering, r
      <4> HIDE DEF k, r, n
      <4> QED BY <3>1, <4>1 DEF SourceContext
    <3>8. Source!FramesOf(c.processed, c.processed + Gain(c, v)) \in SUBSET FrameType /\ IsFiniteSet(Source!FramesOf(c.processed, c.processed + Gain(c, v)))
      BY <3>1, FramesTyped
    <3>9. SourceCalm(n, a) /\ a \in SourceContext(v, BOOLEAN, TRUE)
      BY <3>7, <3>8, SourceAddCalm DEF Added
    <3> HIDE DEF n, a
    <3>10. ~a.eofReached => SourceSays(v, c, a)
      <4>1. ~a.eofReached /\ SourceCounts(v, c) => SourceCounts(v, a)
        BY <2>0, StartCounts DEF SourceCounts, a
      <4> QED BY <2>0, <2>2, <3>2, <3>4, <3>7, <3>9, <4>1 DEF SourceSays, SourceCalm, Silently
    <3>11. e \in SourceContext(v, BOOLEAN, TRUE) /\ e.eff = a.eff /\ e.exists = a.exists /\ e.opened = a.opened /\ e.eofReached = a.eofReached
      <4> DEFINE k == a.processed + 1
      <4>1. k \in Nat /\ e = [a EXCEPT !.processed = k]
        BY <3>9 DEF SourceContext, Ended, a
      <4> HIDE DEF k, e
      <4> QED BY <3>9, <4>1 DEF SourceContext
    <3>12. a.processed \in Nat
      BY <3>9 DEF SourceContext
    <3>13. {Source!FlushFrame(a.processed)} \in SUBSET FrameType /\ IsFiniteSet({Source!FlushFrame(a.processed)})
      BY <3>12, FramesTyped, FS_Singleton
    <3> HIDE DEF e
    <3> DEFINE b == Source!AddAll(e, {Source!FlushFrame(a.processed)})
    <3>14. SourceCalm(e, b)
      BY <3>11, <3>13, SourceAddCalm
    <3> HIDE DEF b
    <3>15. a.eofReached => SourceSays(v, c, b)
      <4>1. a.eofReached /\ SourceCounts(v, c) /\ v.end = "eof" => b.processed = v.decoded[v.packets] + 1
        <5>1. a.eofReached => r.eofReached
          BY <3>7, <3>9 DEF SourceCalm
        <5>2. a.loaded = r.loaded
          BY <2>0, SourceImagesIn DEF ImagesIn, a, r
        <5>3. a.eofReached /\ SourceCounts(v, c) /\ v.end = "eof" => a.processed = v.decoded[v.packets]
          BY <2>0, <5>1, <5>2, StartCounts DEF a, r
        <5>4. e.processed = a.processed + 1
          BY <3>9 DEF e, Ended, a, SourceContext
        <5> QED BY <3>14, <5>3, <5>4 DEF SourceCalm
      <4>2. a.eofReached => b.eofReached
        BY <3>11, <3>14 DEF SourceCalm
      <4>3. a.eofReached /\ SourceCounts(v, c) => SourceCounts(v, b)
        BY <4>1, <4>2 DEF SourceCounts
      <4> QED BY <2>0, <2>2, <3>2, <3>4, <3>7, <3>9, <3>11, <3>14, <4>3 DEF SourceSays, SourceCalm, Silently
    <3>16. ~a.eofFlushed
      BY <2>0, SourceImagesIn DEF ImagesIn, a
    <3> QED BY <1>1, <1>4, <2>2, <3>5, <3>6, <3>10, <3>15, <3>16 DEF b
  <2> QED BY <2>1, <2>2
<1> QED BY <1>3, <1>4

(* init.                                                                   *)
SourceSent(v, c, m, d) ==
    /\ d \in SourceContext(v, BOOLEAN, TRUE) /\ d.exists = c.exists /\ d.opened = c.opened /\ d.sdh = c.sdh
    /\ d.loaded = c.loaded /\ d.processed = c.processed /\ d.eofReached = c.eofReached /\ d.eofFlushed = c.eofFlushed
    /\ d.eff.report = c.eff.report

(* A call leaves the place in the file alone.                              *)
LEMMA SourceSendKeeps ==
    ASSUME NEW v, NEW c \in SourceContext(v, BOOLEAN, TRUE), NEW m \in SourceCalls(TRUE)
    PROVE  SourceSent(v, c, m, Source!Send(c, m))
<1> DEFINE d == Source!Send(c, m)
<1>1. /\ d \in SourceContext(v, BOOLEAN, TRUE)
      /\ d.exists = c.exists /\ d.opened = c.opened
      /\ d.loaded = c.loaded /\ d.processed = c.processed /\ d.eofReached = c.eofReached
      /\ d.eofFlushed = c.eofFlushed /\ d.sdh = c.sdh
      /\ d.eff = WithCall(c.eff, m)
      /\ c.eff \in Effect(AllCalls, {}) /\ m \in AllCalls
  BY SourceSendFields
<1>2. WithCall(c.eff, m).report = c.eff.report
  BY <1>1 DEF WithCall, Effect
<1> HIDE DEF d
<1>3. SourceSent(v, c, m, d)
  BY <1>1, <1>2 DEF SourceSent
<1> QED BY <1>3 DEF d

SourceBegins(c, opened, f) ==
    /\ f.eff.report = IF opened THEN "none" ELSE "failed"
    /\ f.exists /\ f.opened = (c.opened \/ opened)
    /\ f.loaded = c.loaded /\ f.processed = c.processed
    /\ f.eofReached = c.eofReached /\ f.eofFlushed = c.eofFlushed
    /\ f.sdh = c.sdh

(* The operation init of the source.                                       *)
LEMMA SourceInitSays ==
    ASSUME NEW v, NEW c \in SourceContext(v, BOOLEAN, TRUE), c.eff = NoEffects, NEW opened \in BOOLEAN
    PROVE  SourceBegins(c, opened, Source!Init(c, opened))
<1>1. CASE opened
  <2> DEFINE d == [c EXCEPT !.exists = TRUE, !.opened = TRUE]
             m == Call("frame", "params")
             n == Call("pipeline", "initialized")
             x == Source!Send(d, m)
             f == Source!Send(x, n)
  <2>1. Source!Init(c, opened) = f
    BY <1>1 DEF Source!Init, Source!Call, Call
  <2>2. /\ d \in SourceContext(v, BOOLEAN, TRUE) /\ d.eff = NoEffects /\ d.exists = TRUE /\ d.opened = TRUE /\ d.sdh = c.sdh
        /\ d.loaded = c.loaded /\ d.processed = c.processed /\ d.eofReached = c.eofReached /\ d.eofFlushed = c.eofFlushed
    BY DEF SourceContext
  <2>3. m \in SourceCalls(TRUE) /\ n \in SourceCalls(TRUE)
    BY SourceCallsMade
  <2> HIDE DEF d, m, n
  <2>4. SourceSent(v, d, m, x)
    BY <2>2, <2>3, SourceSendKeeps
  <2> HIDE DEF x
  <2>5. SourceSent(v, x, n, f)
    BY <2>3, <2>4, SourceSendKeeps DEF SourceSent
  <2> HIDE DEF f
  <2>6. d.eff.report = "none"
    BY <2>2 DEF NoEffects
  <2> QED BY <1>1, <2>1, <2>2, <2>4, <2>5, <2>6 DEF SourceSent, SourceBegins
<1>2. CASE ~opened
  BY <1>2 DEF SourceBegins, Source!Init, Source!Report, SourceContext, Effect
<1> QED BY <1>1, <1>2
-----------------------------------------------------------------------------
(* Part 4: steps before the end.                                           *)

(* Steps that are not about the end: the sink has handed on no more, the   *)
(* source that was at the end is there still, and no end is reported.      *)
SinkRests(c, d) ==
    /\ d.buffer = c.buffer /\ d.nextEntry = c.nextEntry /\ d.finished = c.finished
    /\ c.codecOpen => d.codecOpen
    /\ Handed(d.sdh) = Handed(c.sdh)

SourceRests(s, t) == s.eofFlushed => t.eofFlushed /\ t.processed = s.processed

Unfinished(R, T) == T = R \/ \E r \in Results : r # "finished" /\ T = Append(R, r)

(* A report that is not the end does not change what the user is told of   *)
(* it.                                                                     *)
LEMMA ToldKept ==
    ASSUME NEW R \in Seq(Results), NEW T, Unfinished(R, T), NEW c, NEW d, d.finished = c.finished, Told(R, c)
    PROVE  Told(T, d)
<1>1. CASE T = R
  BY <1>1 DEF Told
<1>2. CASE \E r \in Results : r # "finished" /\ T = Append(R, r)
  <2>1. PICK r \in Results : r # "finished" /\ T = Append(R, r)
    BY <1>2
  <2>2. /\ Len(R) \in Nat /\ DOMAIN R = 1 .. Len(R) /\ DOMAIN T = 1 .. Len(R) + 1
        /\ \A i \in 1 .. Len(R) : T[i] = R[i]
        /\ T[Len(R) + 1] = r
    BY <2>1
  <2>3. \A i \in DOMAIN T : T[i] = "finished" => i \in DOMAIN R /\ R[i] = "finished"
    BY <2>1, <2>2
  <2> HIDE <2>2
  <2> QED BY <2>3 DEF Told
<1> QED BY <1>1, <1>2 DEF Unfinished

(* The parts of the invariant are kept by such a step,                     *)
LEMMA EndKept ==
    ASSUME NEW W, NEW Q, NEW c, NEW e, NEW s, LastIsLast(W, Q, c, e), NoneWaits(Q, c, e), AllHanded(W, Q, c, s),
           NEW P, Rests(Q, P), NEW d, SinkRests(c, d), NEW t, SourceRests(s, t)
    PROVE  LastIsLast(W, P, d, e) /\ NoneWaits(P, d, e) /\ AllHanded(W, P, d, t)
<1>1. /\ Has(P, LastEntries) <=> Has(Q, LastEntries)
      /\ Alone(Q, LastEntries) => Alone(P, LastEntries)
      /\ \A x, y, A : Stream(Q, Entries, x, y, A) => Stream(P, Entries, x, y, A)
  BY SameStream DEF Rests
<1>2. /\ d.buffer = c.buffer /\ d.nextEntry = c.nextEntry /\ d.finished = c.finished
      /\ c.codecOpen => d.codecOpen
      /\ Handed(d.sdh) = Handed(c.sdh)
  BY DEF SinkRests
<1>3. LastIsLast(W, P, d, e)
  BY <1>1, <1>2 DEF LastIsLast
<1>4. NoneWaits(P, d, e)
  BY <1>1, <1>2 DEF NoneWaits
<1>5. AllHanded(W, P, d, t)
  BY <1>1, <1>2 DEF AllHanded, LastSent, SourceRests
<1> QED BY <1>3, <1>4, <1>5

(* and the invariant with them.                                            *)
LEMMA EndStays ==
    ASSUME TypeInv, EndInv,
           queue'["writer"] = queue["writer"], Rests(queue["sink"], queue'["sink"]),
           SinkRests(context.sink, context'.sink), SourceRests(context.source, context'.source),
           encoder' = encoder, Unfinished(reports, reports')
    PROVE  EndInv'
<1>1. Told(reports', context'.sink)
  BY ToldKept DEF TypeInv, EndInv, SinkRests
<1>2. /\ LastIsLast(queue["writer"], queue'["sink"], context'.sink, encoder)
      /\ NoneWaits(queue'["sink"], context'.sink, encoder)
      /\ AllHanded(queue["writer"], queue'["sink"], context'.sink, context'.source)
  BY EndKept DEF EndInv
<1> QED BY <1>1, <1>2 DEF EndInv

(* What does not change at all.                                            *)
LEMMA AtRest ==
    /\ \A c : SinkRests(c, c) /\ SourceRests(c, c)
    /\ \A R : Unfinished(R, R)
BY DEF SinkRests, SourceRests, Unfinished

(* The steps of the stages before the sink and of the other threads: they  *)
(* leave the sink, its writer and its entries alone.                       *)
BeforeTheEnd ==
    /\ queue'["writer"] = queue["writer"] /\ Rests(queue["sink"], queue'["sink"])
    /\ context'.sink = context.sink /\ encoder' = encoder
    /\ SourceRests(context.source, context'.source)
    /\ Unfinished(reports, reports')

LEMMA BeforeTheEndKeeps ==
    ASSUME TypeInv, EndInv, BeforeTheEnd
    PROVE  EndInv'
BY EndStays, AtRest DEF BeforeTheEnd

(* What a job reports.                                                     *)
LEMMA ReportsOf ==
    ASSUME NEW s, NEW f, Handled(s, f), f.eff.report \in {"none", "failed", "crashed"}
    PROVE  Unfinished(reports, reports')
BY DEF Handled, Effects, Rtsp!Reported, Unfinished, Results

(* The jobs of the stages before the sink.                                 *)
LEMMA CallsBeforeTheEnd ==
    \A m \in SourceCalls(TRUE) \union FrameCalls(TRUE) \union InterCalls(TRUE) :
        m \in AllCalls /\ m \notin Entries /\ ThreadOf(m.callee) # "writer"
BY DEF SourceCalls, FrameCalls, InterCalls, Entries, ThreadOf

(* A job of one of these stages.                                           *)
LEMMA HandledBeforeTheEnd ==
    ASSUME TypeInv, NEW s \in {"source", "frame", "interframe"}, NEW op, Calls(s, op), NEW f, Handled(s, f),
           NEW M \in {SourceCalls(TRUE), FrameCalls(TRUE), InterCalls(TRUE)}, NEW J, f.eff \in Effect(M, J),
           f.eff.report \in {"none", "failed", "crashed"}, SourceRests(context.source, context'.source)
    PROVE  BeforeTheEnd
<1>0. s \in Stage /\ "sink" \in Stage /\ s # "sink" /\ ThreadOf(s) \notin {"sink", "writer"} /\ DOMAIN queue = Thread
  BY DEF Stage, ThreadOf, TypeInv, Queues
<1>1. M \in SUBSET AllCalls
  BY CallsTyped
<1>2. /\ f.eff.calls \in Queues(AllCalls)
      /\ \A t \in Thread : \A i \in DOMAIN f.eff.calls[t] : f.eff.calls[t][i] \in M
  BY <1>1, CallsOfStage
<1>3. \A t \in {"sink", "writer"} : Dequeued(s)[t] = queue[t]
  BY <1>0, ThreadsAre DEF Dequeued
<1>4. \A t \in Thread : /\ Dequeued(s)[t] \in Seq(CallType) /\ f.eff.calls[t] \in Seq(CallType)
                        /\ queue'[t] = Dequeued(s)[t] \o f.eff.calls[t]
  BY <1>0, <1>2, HandledQueues, ZenonT(40)
<1>5. queue'["writer"] = queue["writer"]
  <2> DEFINE q == f.eff.calls["writer"]
             p == Dequeued(s)["writer"]
  <2>1. \A i \in DOMAIN q : ThreadOf(q[i].callee) = "writer"
    BY <1>2, QueueCalls, ThreadsAre
  <2>2. \A i \in DOMAIN q : q[i] \in M
    BY <1>2, ThreadsAre
  <2>3. \A i \in DOMAIN q : FALSE
    BY <2>1, <2>2, CallsBeforeTheEnd
  <2>4. q \in Seq(CallType) /\ p \in Seq(CallType) /\ queue'["writer"] = p \o q /\ p = queue["writer"]
    BY <1>3, <1>4, ThreadsAre
  <2> HIDE DEF q, p
  <2>5. q = <<>>
    BY <2>3, <2>4
  <2> QED BY <2>4, <2>5
<1>6. Rests(queue["sink"], queue'["sink"])
  <2> DEFINE q == f.eff.calls["sink"]
             p == Dequeued(s)["sink"]
  <2>1. \A i \in DOMAIN q : q[i] \in M
    BY <1>2, ThreadsAre
  <2>2. \A i \in DOMAIN q : q[i] \notin Entries
    BY <2>1, CallsBeforeTheEnd
  <2>3. q \in Seq(CallType) /\ p \in Seq(CallType) /\ queue'["sink"] = p \o q /\ p = queue["sink"]
    BY <1>3, <1>4, ThreadsAre
  <2> HIDE DEF q, p
  <2> QED BY <2>2, <2>3, RestsBehind
<1>7. context'.sink = context.sink
  BY <1>0, HandledIs
<1>8. encoder' = encoder
  BY DEF Handled
<1>9. Unfinished(reports, reports')
  BY ReportsOf
<1> QED BY <1>5, <1>6, <1>7, <1>8, <1>9 DEF BeforeTheEnd

(* The jobs of the source.                                                 *)
LEMMA SourceThreadEnds ==
    ASSUME TypeInv, FlowInv, SourceThread
    PROVE  BeforeTheEnd
<1> DEFINE c == context.source
<1>1. /\ video \in Videos /\ c \in SourceContext(video, BOOLEAN, TRUE) /\ c.eff = NoEffects
      /\ SourceFlow(video, c) /\ "source" \in Stage
  BY ContextsTyped, HandlersSettled DEF Stage, FlowInv
<1>2. ASSUME NEW op, Calls("source", op), NEW f \in SourceContext(video, BOOLEAN, TRUE), Handled("source", f),
             f.eff.report \in {"none", "failed", "crashed"},
             c.eofFlushed => f.eofFlushed /\ f.processed = c.processed
      PROVE  BeforeTheEnd
  <2>1. f.eff \in Effect(SourceCalls(TRUE), {})
    BY <1>2 DEF SourceContext
  <2>2. context'["source"] = [f EXCEPT !.eff = NoEffects]
    BY <1>1, <1>2, HandledIs
  <2>3. context'.source.eofFlushed = f.eofFlushed /\ context'.source.processed = f.processed
    BY <2>2 DEF SourceContext
  <2>4. SourceRests(context.source, context'.source)
    BY <1>2, <2>3 DEF SourceRests
  <2> QED BY <1>2, <2>1, <2>4, HandledBeforeTheEnd
<1>3. ASSUME NEW op, Calls("source", op), NEW f \in SourceContext(video, BOOLEAN, TRUE), Handled("source", f),
             SourceSays(video, c, f)
      PROVE  BeforeTheEnd
  <2>1. c.eofFlushed => c.eofReached
    BY <1>1 DEF SourceFlow
  <2> HIDE DEF c
  <2>2. c.eofFlushed => f.eofFlushed /\ f.processed = c.processed
    BY <1>3, <2>1 DEF SourceSays
  <2> QED BY <1>2, <1>3, <2>2 DEF SourceSays
<1> HIDE DEF c
<1>4. CASE SourceInit
  <2>1. Calls("source", "init")
    BY <1>4 DEF SourceInit
  <2>2. PICK opened \in BOOLEAN : Handled("source", Source!Init(c, opened))
    BY <1>4, RtspIs DEF SourceInit, c
  <2> DEFINE f == Source!Init(c, opened)
  <2>3. SourceDone(video, c, f)
    BY <1>1, SourceInitDone
  <2>4. SourceBegins(c, opened, f)
    BY <1>1, SourceInitSays
  <2> HIDE DEF f
  <2>5. f \in SourceContext(video, BOOLEAN, TRUE) /\ Handled("source", f)
    BY <2>2, <2>3 DEF SourceDone, f
  <2> QED BY <1>2, <2>1, <2>4, <2>5 DEF SourceBegins
<1>5. CASE SourceStart
  <2> DEFINE f == Source!Start(c, video)
  <2>1. Calls("source", "start") /\ Handled("source", f)
    BY <1>5, RtspIs DEF SourceStart, c
  <2>2. SourceDone(video, c, f) /\ SourceSays(video, c, f)
    BY <1>1, SourceStartDone, SourceStartSays
  <2> HIDE DEF f
  <2> QED BY <1>3, <2>1, <2>2 DEF SourceDone
<1>6. CASE SourceNext
  <2> DEFINE n == Job("source").amount
             f == Source!Next(c, n)
  <2>1. Calls("source", "next") /\ Handled("source", f)
    BY <1>6, RtspIs DEF SourceNext, c
  <2>2. n \in 0 .. MaxOut
    BY <2>1, AskedAmounts
  <2>3. SourceDone(video, c, f) /\ SourceSays(video, c, f)
    BY <1>1, <2>2, SourceNextDone, SourceNextSays
  <2> HIDE DEF f
  <2> QED BY <1>3, <2>1, <2>3 DEF SourceDone
<1> QED BY <1>4, <1>5, <1>6 DEF SourceThread

(* The jobs of the frame stage.                                            *)
LEMMA FrameStageEnds ==
    ASSUME TypeInv,
           \/ FrameInit \/ FrameParams \/ FrameStart \/ FrameFinish
           \/ FrameProcess \/ FrameNext \/ FrameEvaluated \/ FrameEvaluationFailed
    PROVE  BeforeTheEnd
<1> DEFINE c == context.frame
<1>1. c \in FrameContext(BOOLEAN, TRUE) /\ c.eff = NoEffects /\ "frame" \in Stage /\ "source" \in Stage
  BY ContextsTyped DEF Stage
<1>2. ASSUME NEW op, Calls("frame", op), NEW f \in FrameContext(BOOLEAN, TRUE), Handled("frame", f),
             f.eff.report \in {"none", "failed", "crashed"}
      PROVE  BeforeTheEnd
  <2>1. f.eff \in Effect(FrameCalls(TRUE), Jobs("frame"))
    BY <1>2 DEF FrameContext
  <2>2. context'.source = context.source
    BY <1>1, <1>2, HandledIs
  <2>3. SourceRests(context.source, context'.source)
    BY <2>2 DEF SourceRests
  <2> QED BY <1>2, <2>1, <2>3, HandledBeforeTheEnd
<1> HIDE DEF c
<1>3. c.eff.report = "none"
  BY <1>1 DEF NoEffects
<1>4. ASSUME NEW op, Calls("frame", op)
      PROVE  /\ Job("frame").load \in Seq(FrameType)
             /\ op = "evaluated" => Job("frame").load[1] \in FrameType
             /\ op = "process" => Job("frame").load # <<>>
  <2>1. Made("frame", op, Job("frame").amount, Job("frame").load) /\ Job("frame").load \in Seq(FrameType)
    BY <1>1, <1>4, JobOfStage
  <2>2. op = "evaluated" => Len(Job("frame").load) = 1
    BY <2>1 DEF Made, Stage
  <2>3. op = "process" => Job("frame").load # <<>>
    BY <2>1 DEF Made, Stage
  <2> QED BY <2>1, <2>2, <2>3
<1>5. CASE FrameInit
  <2>1. Calls("frame", "init") /\ Handled("frame", FrameStage!Init(c))
    BY <1>5 DEF FrameInit, c
  <2> QED BY <1>1, <1>2, <1>3, <2>1, FrameStepsTyped, FrameJobsSilent DEF Silently
<1>6. CASE FrameParams
  <2>1. Calls("frame", "params") /\ Handled("frame", FrameStage!Params(c))
    BY <1>6 DEF FrameParams, c
  <2> QED BY <1>1, <1>2, <1>3, <2>1, FrameStepsTyped, FrameJobsSilent
<1>7. CASE FrameStart
  <2>1. Calls("frame", "start") /\ Handled("frame", FrameStage!Start(c))
    BY <1>7 DEF FrameStart, c
  <2> QED BY <1>1, <1>2, <1>3, <2>1, FrameStepsTyped, FrameJobsSilent DEF Silently
<1>8. CASE FrameFinish
  <2>1. Calls("frame", "finish") /\ Handled("frame", FrameStage!Finish(c))
    BY <1>8 DEF FrameFinish, c
  <2> QED BY <1>1, <1>2, <1>3, <2>1, FrameStepsTyped, FrameJobsSilent DEF Silently
<1>9. CASE FrameProcess
  <2>1. Calls("frame", "process") /\ Handled("frame", FrameStage!Process(c, Job("frame").load))
    BY <1>9 DEF FrameProcess, c
  <2>2. Job("frame").load \in Seq(FrameType) /\ Job("frame").load # <<>>
    BY <1>4, <2>1
  <2>3. FrameStage!Process(c, Job("frame").load) \in FrameContext(BOOLEAN, TRUE)
    BY <1>1, <2>2, FrameProcessTyped
  <2> QED BY <1>1, <1>2, <1>3, <2>1, <2>2, <2>3, FrameJobsSilent DEF Silently
<1>10. CASE FrameNext
  <2>1. Calls("frame", "next") /\ Handled("frame", FrameStage!Next(c, Job("frame").amount))
    BY <1>10 DEF FrameNext, c
  <2>2. Job("frame").amount \in 0 .. MaxOut
    BY <2>1, AskedAmounts
  <2> QED BY <1>1, <1>2, <1>3, <2>1, <2>2, FrameStepsTyped, FrameJobsSilent DEF Silently
<1>11. CASE FrameEvaluated
  <2>1. Calls("frame", "evaluated") /\ Handled("frame", FrameStage!Evaluated(c, Job("frame").load[1]))
    BY <1>11 DEF FrameEvaluated, c
  <2>2. Job("frame").load[1] \in FrameType
    BY <1>4, <2>1
  <2> QED BY <1>1, <1>2, <1>3, <2>1, <2>2, FrameStepsTyped, FrameJobsSilent DEF Silently
<1>12. CASE FrameEvaluationFailed
  <2>1. Calls("frame", "failed") /\ Handled("frame", FrameStage!EvaluationFailed(c))
    BY <1>12 DEF FrameEvaluationFailed, c
  <2>2. FrameStage!EvaluationFailed(c).eff.report = "failed"
    BY <1>1 DEF FrameStage!EvaluationFailed, FrameStage!Report, FrameContext, Effect
  <2> QED BY <1>1, <1>2, <2>1, <2>2, FrameStepsTyped
<1> QED BY <1>5, <1>6, <1>7, <1>8, <1>9, <1>10, <1>11, <1>12

(* The jobs of the inter-frame stage.                                      *)
LEMMA InterStageEnds ==
    ASSUME TypeInv,
           \/ InterframeInit \/ InterframeParams \/ InterframeStart
           \/ InterframeProcess \/ InterframeNext
           \/ InterframeEvaluated \/ InterframeEvaluationFailed
    PROVE  BeforeTheEnd
<1> DEFINE c == context.interframe
<1>1. c \in InterContext(BOOLEAN, TRUE) /\ c.eff = NoEffects /\ "interframe" \in Stage /\ "source" \in Stage
  BY ContextsTyped DEF Stage
<1>2. ASSUME NEW op, Calls("interframe", op), NEW f \in InterContext(BOOLEAN, TRUE), Handled("interframe", f),
             f.eff.report \in {"none", "failed", "crashed"}
      PROVE  BeforeTheEnd
  <2>1. f.eff \in Effect(InterCalls(TRUE), Jobs("interframe"))
    BY <1>2 DEF InterContext
  <2>2. context'.source = context.source
    BY <1>1, <1>2, HandledIs
  <2>3. SourceRests(context.source, context'.source)
    BY <2>2 DEF SourceRests
  <2> QED BY <1>2, <2>1, <2>3, HandledBeforeTheEnd
<1> HIDE DEF c
<1>3. c.eff.report = "none"
  BY <1>1 DEF NoEffects
<1>4. ASSUME NEW op, Calls("interframe", op)
      PROVE  /\ Job("interframe").load \in Seq(FrameType)
             /\ op = "evaluated" => Job("interframe").load[1] \in FrameType
             /\ op = "process" => Job("interframe").load # <<>>
  <2>1. Made("interframe", op, Job("interframe").amount, Job("interframe").load) /\ Job("interframe").load \in Seq(FrameType)
    BY <1>1, <1>4, JobOfStage
  <2>2. op = "evaluated" => Len(Job("interframe").load) = 1
    BY <2>1 DEF Made, Stage
  <2>3. op = "process" => Job("interframe").load # <<>>
    BY <2>1 DEF Made, Stage
  <2> QED BY <2>1, <2>2, <2>3
<1>5. CASE InterframeInit
  <2>1. Calls("interframe", "init") /\ Handled("interframe", InterStage!Common!Init(c))
    BY <1>5, InterStageIs DEF InterframeInit, c
  <2> QED BY <1>1, <1>2, <1>3, <2>1, InterStepsTyped, InterJobsSilent DEF Silently
<1>6. CASE InterframeParams
  <2>1. Calls("interframe", "params") /\ Handled("interframe", InterStage!Common!Params(c))
    BY <1>6, InterStageIs DEF InterframeParams, c
  <2> QED BY <1>1, <1>2, <1>3, <2>1, InterStepsTyped, InterJobsSilent
<1>7. CASE InterframeStart
  <2>1. Calls("interframe", "start") /\ Handled("interframe", InterStage!Common!Start(c))
    BY <1>7, InterStageIs DEF InterframeStart, c
  <2> QED BY <1>1, <1>2, <1>3, <2>1, InterStepsTyped, InterJobsSilent DEF Silently
<1>9. CASE InterframeProcess
  <2>1. Calls("interframe", "process") /\ Handled("interframe", InterStage!Process(c, Job("interframe").load))
    BY <1>9, InterStageIs DEF InterframeProcess, c
  <2>2. Job("interframe").load \in Seq(FrameType) /\ Job("interframe").load # <<>>
    BY <1>4, <2>1
  <2>3. InterStage!Process(c, Job("interframe").load) \in InterContext(BOOLEAN, TRUE)
    BY <1>1, <2>2, InterProcessTyped
  <2> QED BY <1>1, <1>2, <1>3, <2>1, <2>2, <2>3, InterJobsSilent DEF Silently
<1>10. CASE InterframeNext
  <2>1. Calls("interframe", "next") /\ Handled("interframe", InterStage!Common!Next(c, Job("interframe").amount))
    BY <1>10, InterStageIs DEF InterframeNext, c
  <2>2. Job("interframe").amount \in 0 .. MaxWrite
    BY <2>1, AskedAmounts
  <2> QED BY <1>1, <1>2, <1>3, <2>1, <2>2, InterStepsTyped, InterJobsSilent DEF Silently
<1>11. CASE InterframeEvaluated
  <2>1. Calls("interframe", "evaluated") /\ Handled("interframe", InterStage!Common!Evaluated(c, Job("interframe").load[1]))
    BY <1>11, InterStageIs DEF InterframeEvaluated, c
  <2>2. Job("interframe").load[1] \in FrameType
    BY <1>4, <2>1
  <2> QED BY <1>1, <1>2, <1>3, <2>1, <2>2, InterStepsTyped, InterJobsSilent DEF Silently
<1>12. CASE InterframeEvaluationFailed
  <2>1. Calls("interframe", "failed") /\ Handled("interframe", InterStage!Common!EvaluationFailed(c))
    BY <1>12, InterStageIs DEF InterframeEvaluationFailed, c
  <2>2. InterStage!Common!EvaluationFailed(c).eff.report = "failed"
    BY <1>1 DEF InterStage!Common!EvaluationFailed, InterStage!Common!Report, InterContext, Effect
  <2> QED BY <1>1, <1>2, <2>1, <2>2, InterStepsTyped
<1> QED BY <1>5, <1>6, <1>7, <1>9, <1>10, <1>11, <1>12
-----------------------------------------------------------------------------
(* Part 5: the sink and its writer.                                        *)

(* The sink passes frames on to its worker thread. The job may open the    *)
(* encoder, and it ends with the report.                                   *)
SinkPassing(c, f, A, opens, report) ==
    /\ f \in SinkContext(BOOLEAN)
    /\ f.buffer = c.buffer /\ f.nextEntry = c.nextEntry
    /\ f.finished = c.finished /\ f.written = c.written
    /\ c.codecOpen => f.codecOpen
    /\ f.codecOpen => c.codecOpen \/ opens
    /\ f.eff.report = report
    /\ SinkHands(c, f, A)

(* A change before, that hands nothing on.                                 *)
LEMMA HandsNothing ==
    ASSUME NEW c, NEW d, NEW f, NEW A,
           d.eff.calls["writer"] = c.eff.calls["writer"], Handed(d.sdh) = Handed(c.sdh), SinkHands(d, f, A)
    PROVE  SinkHands(c, f, A)
BY DEF SinkHands

(* The jobs of the sink that do not take entries pass frames on at most.   *)
LEMMA SinkPassesOn ==
    ASSUME NEW c \in SinkContext(BOOLEAN), c.eff = NoEffects, NEW A \in SUBSET FrameType, Settled(c.sdh, A)
    PROVE  /\ SinkPassing(c, c, A, FALSE, "none")
           /\ SinkPassing(c, Sink!Init(c), A, FALSE, "none")
           /\ SinkPassing(c, Sink!Params(c), A, TRUE, "none")
           /\ SinkPassing(c, Sink!Start(c), A, FALSE, "none")
           /\ SinkPassing(c, Sink!WriteFailed(c), A, FALSE, "failed")
           /\ \A x, y : \A load \in Seq(FrameType) :
                 Seen(c.sdh) = 0 .. x - 1 /\ x \in Nat /\ Batch(load, x, y, A)
                     => SinkPassing(c, Sink!Process(c, load), A, FALSE, "none")
<1>0. Orderly(c.sdh, A) /\ c.eff.report = "none"
  BY DEF Settled, NoEffects
<1>1. SinkPassing(c, c, A, FALSE, "none")
  BY <1>0 DEF SinkPassing, SinkHands
<1>2. SinkPassing(c, Sink!Init(c), A, FALSE, "none")
  <2> DEFINE m == Call("pipeline", "initialized")
             d == [c EXCEPT !.exists = TRUE]
             e == Sink!Send(d, m)
             f == Sink!Flush(e)
  <2>1. m \in SinkCalls /\ ThreadOf(m.callee) # "writer"
    BY SinkCallsMade, ThreadsAre DEF Call
  <2>2. /\ d \in SinkContext(BOOLEAN) /\ d.sdh = c.sdh /\ d.eff = c.eff
        /\ d.buffer = c.buffer /\ d.nextEntry = c.nextEntry /\ d.finished = c.finished /\ d.written = c.written /\ d.codecOpen = c.codecOpen
    BY DEF SinkContext
  <2>3. Sink!Init(c) = f
    BY DEF Sink!Init, Sink!Call, Call
  <2> HIDE DEF d, m
  <2>4. SinkSame(d, e) /\ e.sdh = d.sdh /\ e.eff.calls["writer"] = d.eff.calls["writer"]
    BY <2>1, <2>2, SinkSendFields
  <2> HIDE DEF e
  <2>5. e \in SinkContext(BOOLEAN) /\ Orderly(e.sdh, A)
    BY <1>0, <2>2, <2>4 DEF SinkSame
  <2>6. SinkSame(e, f) /\ SinkHands(e, f, A)
    BY <2>5, SinkFlushPasses
  <2> HIDE DEF f
  <2>7. SinkHands(c, f, A)
    BY <2>2, <2>4, <2>6, HandsNothing
  <2> QED BY <1>0, <2>2, <2>3, <2>4, <2>6, <2>7 DEF SinkSame, SinkPassing
<1>3. SinkPassing(c, Sink!Params(c), A, TRUE, "none")
  <2> DEFINE d == [c EXCEPT !.codecOpen = TRUE]
  <2>1. /\ d \in SinkContext(BOOLEAN) /\ d.sdh = c.sdh /\ d.eff = c.eff
        /\ d.buffer = c.buffer /\ d.nextEntry = c.nextEntry /\ d.finished = c.finished /\ d.written = c.written /\ d.codecOpen = TRUE
    BY DEF SinkContext
  <2>2. Sink!Params(c) = IF c.exists THEN d ELSE c
    BY DEF Sink!Params
  <2> HIDE DEF d
  <2>3. SinkPassing(c, d, A, TRUE, "none")
    BY <1>0, <2>1 DEF SinkPassing, SinkHands
  <2>4. SinkPassing(c, c, A, TRUE, "none")
    BY <1>1 DEF SinkPassing
  <2> QED BY <2>2, <2>3, <2>4
<1>4. SinkPassing(c, Sink!Start(c), A, FALSE, "none")
  <2> DEFINE f == Sink!Trigger(c)
  <2>1. Sink!Start(c) = IF c.exists /\ ~c.prevFinished THEN f ELSE c
    BY DEF Sink!Start, Sink!Trigger
  <2>2. SinkSame(c, f) /\ f.sdh = c.sdh /\ f.eff.calls["writer"] = c.eff.calls["writer"]
    BY SinkTriggerFields
  <2> HIDE DEF f
  <2>3. SinkPassing(c, f, A, FALSE, "none")
    BY <1>0, <2>2 DEF SinkPassing, SinkHands, SinkSame
  <2> QED BY <1>1, <2>1, <2>3
<1>5. SinkPassing(c, Sink!WriteFailed(c), A, FALSE, "failed")
  <2> DEFINE f == Sink!WriteFailed(c)
  <2>1. f \in SinkContext(BOOLEAN)
    BY SinkStepsTyped
  <2>2. /\ f.sdh = c.sdh /\ f.eff.calls = c.eff.calls /\ f.eff.report = "failed"
        /\ f.buffer = c.buffer /\ f.nextEntry = c.nextEntry /\ f.finished = c.finished /\ f.written = c.written /\ f.codecOpen = c.codecOpen
    BY DEF Sink!WriteFailed, Sink!Report, SinkContext, Effect
  <2> HIDE DEF f
  <2>3. SinkPassing(c, f, A, FALSE, "failed")
    BY <2>1, <2>2 DEF SinkPassing, SinkHands
  <2> QED BY <2>3 DEF f
<1>6. ASSUME NEW x \in Nat, NEW y, NEW load \in Seq(FrameType), Seen(c.sdh) = 0 .. x - 1, Batch(load, x, y, A)
      PROVE  SinkPassing(c, Sink!Process(c, load), A, FALSE, "none")
  <2> DEFINE E == Range(load)
             d == [c EXCEPT !.sdh.in = @ \union E]
             g == [c.sdh EXCEPT !.in = @ \union E]
             f == Sink!Flush(d)
  <2>1. /\ E \in SUBSET A /\ IsFiniteSet(E)
        /\ \A a, b \in E : a.number = b.number => a = b
        /\ NumbersOf(E) = x .. y - 1 /\ y \in Nat /\ x <= y
    BY <1>6, LoadTyped, BatchNumbers DEF Batch
  <2>2. NumbersOf(E) \intersect Seen(c.sdh) = {}
    <3> HIDE DEF E
    <3> QED BY <1>6, <2>1
  <2>3. Sink!Process(c, load) = IF c.exists THEN f ELSE c
    BY SinkAddIs DEF Sink!Process, Sink!Range, Range
  <2> HIDE DEF E
  <2>4. Orderly(g, A) /\ Handed(g) = Handed(c.sdh) /\ g \in Handler
    BY <1>0, <2>1, <2>2, EntriesAdded DEF SinkContext
  <2>5. d = [c EXCEPT !.sdh = g]
    OBVIOUS
  <2> HIDE DEF g, d
  <2>6. /\ d \in SinkContext(BOOLEAN) /\ d.sdh = g /\ d.eff = c.eff
        /\ d.buffer = c.buffer /\ d.nextEntry = c.nextEntry /\ d.finished = c.finished /\ d.written = c.written /\ d.codecOpen = c.codecOpen
    BY <2>4, <2>5 DEF SinkContext
  <2>7. SinkSame(d, f) /\ SinkHands(d, f, A)
    BY <2>4, <2>6, SinkFlushPasses
  <2> HIDE DEF f
  <2>8. SinkHands(c, f, A)
    BY <2>4, <2>6, <2>7, HandsNothing
  <2>9. SinkPassing(c, f, A, FALSE, "none")
    BY <1>0, <2>6, <2>7, <2>8 DEF SinkSame, SinkPassing
  <2> QED BY <1>1, <2>3, <2>9
<1> QED BY <1>1, <1>2, <1>3, <1>4, <1>5, <1>6

(* What the bounds say of the next state.                                  *)
LEMMA EndBoundedNow ==
    TypeInv /\ FlowInv => EndBounds(context.source, context.sink.sdh, images.evaluating)
BY EndBounded

(* And what they say of the next one.                                      *)
LEMMA EndBoundedNext ==
    ASSUME TypeInv', FlowInv'
    PROVE  EndBounds(context'.source, context'.sink.sdh, images'.evaluating)
<1>1. (TypeInv /\ FlowInv => EndBounds(context.source, context.sink.sdh, images.evaluating))'
  BY EndBoundedNow, PTL
<1> QED BY <1>1

(* What is left of a context when its effects were carried out.            *)
LEMMA SinkForgets ==
    ASSUME NEW f \in SinkContext(BOOLEAN)
    PROVE  LET d == [f EXCEPT !.eff = NoEffects]
           IN  /\ d.buffer = f.buffer /\ d.nextEntry = f.nextEntry /\ d.finished = f.finished
               /\ d.written = f.written /\ d.codecOpen = f.codecOpen /\ d.sdh = f.sdh
BY DEF SinkContext

(* The flush frame is the last one.                                        *)
LEMMA FlushIsLast ==
    ASSUME NEW c, c.processed \in Nat, NEW x \in Nat, NEW y \in Nat, y <= c.processed - 1,
           NEW load \in Seq(FrameType), Batch(load, x, y, Pairs(End(c))), HasFlush(load)
    PROVE  c.eofFlushed /\ y = c.processed - 1
<1>1. PICK i \in DOMAIN load : load[i].image = <<>>
  BY DEF HasFlush, IsFlush
<1>2. load[i] \in Range(load) /\ load[i] \in Pairs(End(c)) /\ load[i].number \in NumbersOf(Range(load))
  BY DEF Batch, Range, NumbersOf
<1>3. load[i].number \in Nat /\ load[i].number = End(c) - 1
  <2> DEFINE g == load[i]
             e == End(c)
  <2>1. g.image = <<>> /\ g \in Pairs(e)
    BY <1>1, <1>2
  <2> HIDE DEF g, e
  <2>2. \A n : <<n>> # <<>> /\ <<n, n + 1>> # <<>>
    OBVIOUS
  <2>3. g.number \in Nat /\ g.number = e - 1
    BY <2>1, <2>2 DEF Pairs, FrameType
  <2> QED BY <2>3 DEF g, e
<1>4. load[i].number \in x .. y - 1
  BY <1>2 DEF Batch
<1> QED BY <1>3, <1>4 DEF End

(* The queue of the writer gets the frames, or the word that there were    *)
(* the last ones.                                                          *)
LEMMA MoreForWriter ==
    ASSUME NEW W \in Seq(CallType), NEW Q, NEW c, NEW e, NEW s,
           LastIsLast(W, Q, c, e), NoneWaits(Q, c, e), AllHanded(W, Q, c, s),
           NEW P, Rests(Q, P), NEW d, d.buffer = c.buffer, d.nextEntry = c.nextEntry, d.finished = c.finished,
           c.codecOpen => d.codecOpen,
           s.processed \in Nat, Handed(c.sdh) \in Nat, Handed(d.sdh) \in Nat,
           Handed(c.sdh) < Handed(d.sdh), Handed(d.sdh) <= s.processed - 1,
           NEW m \in CallType, m \in LastFrames => s.eofFlushed /\ Handed(d.sdh) = s.processed - 1
    PROVE  LastIsLast(Append(W, m), P, d, e) /\ NoneWaits(P, d, e) /\ AllHanded(Append(W, m), P, d, s)
<1>1. ~LastSent(W, Q, c)
  BY DEF AllHanded
<1>2. ~Has(W, LastFrames) /\ ~Has(Q, LastEntries) /\ ~c.finished
  BY <1>1 DEF LastSent
<1>3. /\ ~Has(P, LastEntries) /\ ~d.finished
      /\ Alone(P, LastEntries)
      /\ \A x, y, A : Stream(Q, Entries, x, y, A) => Stream(P, Entries, x, y, A)
  BY <1>2, SameStream DEF Rests, LastIsLast
<1>4. /\ Has(Append(W, m), LastFrames) => m \in LastFrames
      /\ \A i \in DOMAIN Append(W, m) : Append(W, m)[i] \in LastFrames => i = Len(Append(W, m))
  BY <1>2, HasConcat
<1>5. LastIsLast(Append(W, m), P, d, e)
  BY <1>3, <1>4 DEF LastIsLast
<1>6. NoneWaits(P, d, e)
  BY <1>3 DEF NoneWaits
<1>7. AllHanded(Append(W, m), P, d, s)
  BY <1>3, <1>4 DEF AllHanded, LastSent
<1> QED BY <1>5, <1>6, <1>7

(* The other jobs of the sink, without those for entries.                  *)
SinkPasses(op, f) ==
    /\ op # "framesWritten" /\ op # "lastWritten" /\ Calls("sink", op) /\ Handled("sink", f)
    /\ \E opens \in BOOLEAN, report \in {"none", "failed"} :
          /\ SinkPassing(context.sink, f, Pairs(End(context.source)), opens, report)
          /\ opens => op = "params"
          /\ report = "failed" => op = "writeFailed"

LEMMA SinkPassingJobs ==
    ASSUME TypeInv, FlowInv, SinkInit \/ SinkParams \/ SinkStart \/ SinkProcess \/ SinkWriteFailed
    PROVE  \E op, f : SinkPasses(op, f)
<1> DEFINE c == context.sink
           A == Pairs(End(context.source))
<1>1. /\ c \in SinkContext(BOOLEAN) /\ c.eff = NoEffects /\ Settled(c.sdh, A) /\ A \in SUBSET FrameType
      /\ "sink" \in Stage
  BY ContextsTyped, HandlersSettled DEF Stage, FlowInv
<1>2. ASSUME NEW op, op # "framesWritten", op # "lastWritten", Calls("sink", op), NEW f, Handled("sink", f),
             NEW opens \in BOOLEAN, NEW report \in {"none", "failed"}, SinkPassing(c, f, A, opens, report),
             opens => op = "params", report = "failed" => op = "writeFailed"
      PROVE  \E o, g : SinkPasses(o, g)
  BY <1>2 DEF SinkPasses
<1> HIDE DEF A, c
<1>3. /\ SinkPassing(c, Sink!Init(c), A, FALSE, "none")
      /\ SinkPassing(c, Sink!Params(c), A, TRUE, "none")
      /\ SinkPassing(c, Sink!Start(c), A, FALSE, "none")
      /\ SinkPassing(c, Sink!WriteFailed(c), A, FALSE, "failed")
      /\ \A x, y : \A load \in Seq(FrameType) :
            Seen(c.sdh) = 0 .. x - 1 /\ x \in Nat /\ Batch(load, x, y, A)
                => SinkPassing(c, Sink!Process(c, load), A, FALSE, "none")
  BY <1>1, SinkPassesOn
<1>4. CASE SinkInit
  <2>1. Calls("sink", "init") /\ Handled("sink", Sink!Init(c))
    BY <1>4 DEF SinkInit, c
  <2> QED BY <1>2, <1>3, <2>1
<1>5. CASE SinkParams
  <2>1. Calls("sink", "params") /\ Handled("sink", Sink!Params(c))
    BY <1>5 DEF SinkParams, c
  <2> QED BY <1>2, <1>3, <2>1
<1>6. CASE SinkStart
  <2>1. Calls("sink", "start") /\ Handled("sink", Sink!Start(c))
    BY <1>6 DEF SinkStart, c
  <2> QED BY <1>2, <1>3, <2>1
<1>7. CASE SinkWriteFailed
  <2>1. Calls("sink", "writeFailed") /\ Handled("sink", Sink!WriteFailed(c))
    BY <1>7 DEF SinkWriteFailed, c
  <2> QED BY <1>2, <1>3, <2>1
<1>8. CASE SinkProcess
  <2> DEFINE q == queue["sink"]
             m == Handed(context.interframe.sdh)
             load == Job("sink").load
  <2>1. Calls("sink", "process") /\ Handled("sink", Sink!Process(c, load))
    BY <1>8 DEF SinkProcess, c
  <2>2. Job("sink") \in Deliveries("sink") /\ load \in Seq(FrameType)
    BY <1>1, <2>1, JobOfStage
  <2>3. q \in Seq(CallType) /\ q # <<>> /\ Job("sink") = Head(q)
    <3>1. "sink" \in Callee /\ queue \in Queues(AllCalls) /\ "sink" \in Thread /\ AllCalls \in SUBSET AllCalls
      BY <1>1, ContextsTyped, ThreadsAre DEF Callee
    <3>2. q \in Seq(CallType)
      BY <3>1, QueueCalls
    <3> QED BY <2>1, <3>2, ThreadsAre DEF Calls, Job
  <2>4. SinkFlow(q, m, c.sdh, End(context.source))
    BY FlowInvParts DEF SinkPart, c
  <2>5. PICK n \in Nat : Stream(q, Deliveries("sink"), n, m, A) /\ Seen(c.sdh) = 0 .. n - 1
    BY <2>4 DEF SinkFlow, A
  <2>6. \A a \in A : a.number \in Nat
    BY <1>1 DEF FrameType
  <2> HIDE DEF q, m, load
  <2>7. PICK y \in n .. m : Batch(load, n, y, A)
    BY <2>2, <2>3, <2>5, <2>6, StreamTaken DEF load
  <2>8. SinkPassing(c, Sink!Process(c, load), A, FALSE, "none")
    BY <1>3, <2>2, <2>5, <2>7
  <2> QED BY <1>2, <2>1, <2>8
<1> QED BY <1>4, <1>5, <1>6, <1>7, <1>8

(* What they do to the sink, and what the writer gets: nothing, or the next *)
(* frames, or the word that there were the last ones. W was its queue, V it *)
(* is now.                                                                  *)
WriterFeeds(W, V, c, d, s) ==
    \/ V = W /\ Handed(d.sdh) = Handed(c.sdh)
    \/ /\ s.processed \in Nat /\ Handed(c.sdh) \in Nat /\ Handed(d.sdh) \in Nat
       /\ Handed(c.sdh) < Handed(d.sdh) /\ Handed(d.sdh) <= s.processed - 1
       /\ Handed(d.sdh) <= Handed(c.sdh) + MaxWrite
       /\ \E m \in CallType :
             /\ V = Append(W, m)
             /\ \/ m \in LastFrames /\ s.eofFlushed /\ Handed(d.sdh) = s.processed - 1
                \/ m \in Given /\ Batch(m.load, Handed(c.sdh), Handed(d.sdh), Pairs(-1))

SinkKeeps(c, d) ==
    /\ d.buffer = c.buffer /\ d.nextEntry = c.nextEntry
    /\ d.finished = c.finished /\ d.written = c.written
    /\ c.codecOpen => d.codecOpen

SinkPassed ==
    /\ Rests(queue["sink"], queue'["sink"])
    /\ SinkKeeps(context.sink, context'.sink)
    /\ context'.sink.codecOpen => context.sink.codecOpen \/ Calls("sink", "params")
    /\ queue["writer"] \in Seq(CallType)
    /\ WriterFeeds(queue["writer"], queue'["writer"], context.sink, context'.sink, context.source)
    /\ context'.source = context.source /\ encoder' = encoder
    /\ Unfinished(reports, reports')

(* Frames without the flush frame are pairs.                               *)
LEMMA NoFlushPairs ==
    ASSUME NEW z, NEW load, Range(load) \subseteq Pairs(z), ~HasFlush(load)
    PROVE  Range(load) \subseteq Pairs(-1)
<1> SUFFICES ASSUME NEW i \in DOMAIN load PROVE load[i] \in Pairs(-1)
  BY DEF Range
<1>1. load[i] \in Pairs(z) /\ load[i].image # <<>>
  BY DEF Range, HasFlush, IsFlush
<1> QED BY <1>1 DEF Pairs

(* Such a job of the sink does this.                                       *)
LEMMA SinkPassingFeeds ==
    ASSUME TypeInv, FlowInv, TypeInv', FlowInv',
           NEW op, op # "framesWritten", op # "lastWritten", Calls("sink", op), NEW f, Handled("sink", f),
           NEW opens, NEW report \in {"none", "failed"}, opens => op = "params",
           SinkPassing(context.sink, f, Pairs(End(context.source)), opens, report)
    PROVE  SinkPassed
<1> DEFINE c == context.sink
           d == context'.sink
           s == context.source
           A == Pairs(End(s))
           W == queue["writer"]
           Q == queue["sink"]
           P == queue'["sink"]
<1>1. /\ c \in SinkContext(BOOLEAN) /\ c.eff = NoEffects /\ f \in SinkContext(BOOLEAN)
      /\ "sink" \in Stage /\ "source" \in Stage /\ "sink" # "source" /\ DOMAIN queue = Thread
  BY ContextsTyped DEF SinkPassing, Stage, TypeInv, Queues
<1>2. f.eff \in Effect(SinkCalls, {})
  BY <1>1 DEF SinkContext
<1>3. /\ f.eff.calls \in Queues(AllCalls)
      /\ \A t \in Thread : \A i \in DOMAIN f.eff.calls[t] : f.eff.calls[t][i] \in SinkCalls
  BY <1>2, CallsTyped, CallsOfStage
<1>4. \A t \in Thread : /\ Dequeued("sink")[t] \in Seq(CallType) /\ f.eff.calls[t] \in Seq(CallType)
                        /\ queue'[t] = Dequeued("sink")[t] \o f.eff.calls[t]
  BY <1>1, <1>3, HandledQueues
<1>5. Job("sink") \notin Entries
  BY <1>1, JobOfStage DEF Entries
<1>6. Rests(Q, P)
  <2>1. /\ Q \in Seq(CallType) /\ Q # <<>> /\ Job("sink") = Head(Q) /\ Dequeued("sink")["sink"] = Tail(Q)
    BY <1>1, <1>3, StageQueue, ThreadsAre
  <2> DEFINE q == f.eff.calls["sink"]
             r == Tail(Q)
  <2>2. r \in Seq(CallType) /\ q \in Seq(CallType) /\ P = r \o q
    BY <1>4, <2>1, ThreadsAre
  <2>3. \A i \in DOMAIN q : q[i] \notin Entries
    BY <1>3, ThreadsAre DEF SinkCalls, Entries
  <2>4. Rests(Q, r)
    BY <1>5, <2>1, RestsTail
  <2> HIDE DEF q, r, P, Q
  <2>5. Rests(r, r \o q)
    BY <2>2, <2>3, RestsBehind
  <2> QED BY <2>2, <2>4, <2>5, RestsOn
<1>7. Dequeued("sink")["writer"] = W /\ W \in Seq(CallType)
  <2>1. Dequeued("sink")["writer"] = W
    BY <1>1, ThreadsAre DEF Dequeued
  <2> QED BY <1>4, <2>1, ThreadsAre
<1>8. /\ SinkKeeps(c, d) /\ d.sdh = f.sdh
      /\ d.codecOpen => c.codecOpen \/ Calls("sink", "params")
  <2>1. context'["sink"] = [f EXCEPT !.eff = NoEffects]
    BY <1>1, HandledIs
  <2>2. /\ d.buffer = f.buffer /\ d.nextEntry = f.nextEntry /\ d.finished = f.finished
        /\ d.written = f.written /\ d.codecOpen = f.codecOpen /\ d.sdh = f.sdh
    BY <1>1, <2>1, SinkForgets
  <2> QED BY <2>2 DEF SinkPassing, SinkKeeps
<1>9. context'.source = s /\ encoder' = encoder
  BY <1>1, HandledIs DEF Handled
<1>10. Unfinished(reports, reports')
  BY ReportsOf DEF SinkPassing
<1>11. CASE f.eff.calls["writer"] = c.eff.calls["writer"] /\ Handed(f.sdh) = Handed(c.sdh)
  <2>1. f.eff.calls["writer"] = <<>>
    BY <1>1, <1>11, ThreadsAre DEF NoEffects
  <2>2. queue'["writer"] = queue["writer"]
    <3> DEFINE q == f.eff.calls["writer"]
               p == Dequeued("sink")["writer"]
    <3>1. p \in Seq(CallType) /\ queue'["writer"] = p \o q /\ q = <<>> /\ p = queue["writer"]
      BY <1>4, <1>7, <2>1, ThreadsAre
    <3> HIDE DEF p, q
    <3> QED BY <3>1
  <2>3. WriterFeeds(W, queue'["writer"], c, d, s)
    BY <1>8, <1>11, <2>2 DEF WriterFeeds
  <2> QED BY <1>6, <1>7, <1>8, <1>9, <1>10, <2>3 DEF SinkPassed
<1>12. CASE \E load \in Seq(A) :
              /\ load # <<>> /\ Batch(load, Handed(c.sdh), Handed(f.sdh), A)
              /\ Handed(f.sdh) <= Handed(c.sdh) + MaxWrite
              /\ f.eff.calls["writer"] =
                    Append(c.eff.calls["writer"],
                           IF HasFlush(load) THEN Call("writer", "last") ELSE CallWith("writer", "frames", load))
  <2>1. PICK load \in Seq(A) :
              /\ load # <<>> /\ Batch(load, Handed(c.sdh), Handed(f.sdh), A)
              /\ Handed(f.sdh) <= Handed(c.sdh) + MaxWrite
              /\ f.eff.calls["writer"] =
                    Append(c.eff.calls["writer"],
                           IF HasFlush(load) THEN Call("writer", "last") ELSE CallWith("writer", "frames", load))
    BY <1>12
  <2> DEFINE m == IF HasFlush(load) THEN Call("writer", "last") ELSE CallWith("writer", "frames", load)
  <2>2. f.eff.calls["writer"] = Append(<<>>, m)
    BY <1>1, <2>1, ThreadsAre DEF NoEffects
  <2> HIDE DEF m
  <2>4. m \in CallType /\ m \in AllCalls /\ queue'["writer"] = Append(W, m)
    <3>0. Append(<<>>, m) = <<m>>
      OBVIOUS
    <3>1. f.eff.calls["writer"] = <<m>> /\ f.eff.calls["writer"] \in Seq(CallType)
      BY <1>4, <2>2, <3>0, ThreadsAre
    <3>2. <<m>>[1] = m /\ DOMAIN <<m>> = {1}
      OBVIOUS
    <3>3. m \in SinkCalls
      BY <1>3, <3>1, <3>2, ThreadsAre
    <3>4. queue'["writer"] = W \o <<m>>
      BY <1>4, <1>7, <3>1, ThreadsAre
    <3> QED BY <1>7, <3>3, <3>4, OneMoreCall, CallsTyped
  <2>5. EndBounds(s, d.sdh, images'.evaluating)
    BY <1>9, EndBoundedNext
  <2>6. /\ Handed(c.sdh) \in Nat /\ Handed(f.sdh) \in Nat /\ s.processed \in Nat
        /\ Handed(c.sdh) < Handed(f.sdh) /\ Handed(f.sdh) <= s.processed - 1
    <3>1. EndBounds(s, c.sdh, images.evaluating)
      BY EndBounded
    <3>2. Handed(c.sdh) \in Nat /\ Handed(f.sdh) \in Nat /\ s.processed \in Nat
      BY <1>8, <2>5, <3>1 DEF EndBounds
    <3>3. Handed(c.sdh) < Handed(f.sdh)
      <4>1. load[1] \in Range(load) /\ load[1].number \in NumbersOf(Range(load))
        BY <2>1, SMTT(40) DEF Range, NumbersOf
      <4>2. load[1].number \in Handed(c.sdh) .. Handed(f.sdh) - 1
        BY <2>1, <4>1 DEF Batch
      <4> QED BY <3>2, <4>2
    <3>4. d.sdh.next \in Nat
      <4>1. f.sdh \in Handler
        BY <1>1 DEF SinkContext
      <4> QED BY <1>8, <4>1 DEF Handler
    <3>5. Handed(f.sdh) <= s.processed - 1
      <4> DEFINE n == d.sdh.next
                 h == Handed(d.sdh)
                 p == s.processed
                 k == Handed(c.sdh)
      <4>1. h <= n /\ (n # 0 => n <= p - 1) /\ n \in Nat /\ h \in Nat /\ p \in Nat /\ k \in Nat /\ k < h
        BY <1>8, <2>5, <3>2, <3>3, <3>4 DEF EndBounds
      <4> HIDE DEF n, h, p, k
      <4>2. h <= p - 1
        BY <4>1
      <4> QED BY <1>8, <4>2 DEF h, p
    <3> QED BY <3>2, <3>3, <3>5
  <2>7. load \in Seq(FrameType)
    <3>1. A \in SUBSET FrameType
      BY FrameSets
    <3> HIDE DEF A
    <3> QED BY <3>1
  <2>8. HasFlush(load) => m \in LastFrames /\ s.eofFlushed /\ Handed(d.sdh) = s.processed - 1
    <3> SUFFICES ASSUME HasFlush(load) PROVE m \in LastFrames /\ s.eofFlushed /\ Handed(d.sdh) = s.processed - 1
      OBVIOUS
    <3>1. m \in LastFrames
      BY <2>4 DEF LastFrames, Call, m
    <3> QED BY <1>8, <2>1, <2>6, <2>7, <3>1, FlushIsLast
  <2>9. ~HasFlush(load) => m \in Given /\ Batch(m.load, Handed(c.sdh), Handed(d.sdh), Pairs(-1))
    <3> SUFFICES ASSUME ~HasFlush(load) PROVE m \in Given /\ Batch(m.load, Handed(c.sdh), Handed(d.sdh), Pairs(-1))
      OBVIOUS
    <3>1. m \in Given /\ m.load = load
      BY <2>4 DEF Given, CallWith, Call, m
    <3>2. Range(load) \subseteq Pairs(-1)
      BY <2>1, NoFlushPairs DEF Batch
    <3> QED BY <1>8, <2>1, <3>1, <3>2 DEF Batch
  <2> HIDE DEF W, Q, P, c, d, s
  <2>10. Handed(d.sdh) = Handed(f.sdh) /\ Handed(d.sdh) <= Handed(c.sdh) + MaxWrite
    BY <1>8, <2>1
  <2>11. WriterFeeds(W, queue'["writer"], c, d, s)
    BY <2>4, <2>6, <2>8, <2>9, <2>10 DEF WriterFeeds
  <2> QED BY <1>6, <1>7, <1>8, <1>9, <1>10, <2>11 DEF SinkPassed, W, Q, P, c, d, s
<1> QED BY <1>11, <1>12 DEF SinkPassing, SinkHands

(* They keep the invariant.                                                *)
LEMMA SinkPassedEnds ==
    ASSUME TypeInv, EndInv, SinkPassed
    PROVE  EndInv'
<1> DEFINE c == context.sink
           d == context'.sink
           s == context.source
           W == queue["writer"]
           Q == queue["sink"]
           P == queue'["sink"]
<1>1. /\ Rests(Q, P) /\ W \in Seq(CallType)
      /\ d.buffer = c.buffer /\ d.nextEntry = c.nextEntry /\ d.finished = c.finished
      /\ c.codecOpen => d.codecOpen
  BY DEF SinkPassed, SinkKeeps
<1>0. context'.source = s /\ encoder' = encoder /\ Unfinished(reports, reports')
  BY DEF SinkPassed
<1>2. /\ LastIsLast(W, Q, c, encoder) /\ NoneWaits(Q, c, encoder) /\ AllHanded(W, Q, c, s)
      /\ Told(reports, c)
  BY DEF EndInv
<1>3. CASE queue'["writer"] = W /\ Handed(d.sdh) = Handed(c.sdh)
  <2>1. SinkRests(c, d)
    BY <1>1, <1>3 DEF SinkRests
  <2> QED BY <1>0, <1>1, <1>3, <2>1, EndStays, AtRest
<1>5. WriterFeeds(W, queue'["writer"], c, d, s)
  BY DEF SinkPassed
<1> HIDE DEF W, Q, P, c, d, s
<1>4. CASE ~(queue'["writer"] = W /\ Handed(d.sdh) = Handed(c.sdh))
  <2>1. /\ s.processed \in Nat /\ Handed(c.sdh) \in Nat /\ Handed(d.sdh) \in Nat
        /\ Handed(c.sdh) < Handed(d.sdh) /\ Handed(d.sdh) <= s.processed - 1
    BY <1>4, <1>5 DEF WriterFeeds
  <2>2. Given \intersect LastFrames = {}
    BY DEF Given, LastFrames
  <2>3. PICK m \in CallType :
             /\ queue'["writer"] = Append(W, m)
             /\ m \in LastFrames => s.eofFlushed /\ Handed(d.sdh) = s.processed - 1
    BY <1>4, <1>5, <2>2 DEF WriterFeeds
  <2>4. LastIsLast(Append(W, m), P, d, encoder) /\ NoneWaits(P, d, encoder) /\ AllHanded(Append(W, m), P, d, s)
    BY <1>1, <1>2, <2>1, <2>3, MoreForWriter
  <2>5. Told(reports', d)
    BY <1>0, <1>1, <1>2, ToldKept DEF TypeInv
  <2> QED BY <1>0, <2>3, <2>4, <2>5 DEF EndInv, W, Q, P, c, d, s
<1> QED BY <1>3, <1>4

LEMMA SinkPassingJobsPass ==
    ASSUME TypeInv, FlowInv, TypeInv', FlowInv',
           SinkInit \/ SinkParams \/ SinkStart \/ SinkProcess \/ SinkWriteFailed
    PROVE  SinkPassed
<1>1. PICK op, f : SinkPasses(op, f)
  BY SinkPassingJobs
<1>2. PICK opens \in BOOLEAN, report \in {"none", "failed"} :
           /\ SinkPassing(context.sink, f, Pairs(End(context.source)), opens, report)
           /\ opens => op = "params"
  BY <1>1 DEF SinkPasses
<1> QED BY <1>1, <1>2, SinkPassingFeeds DEF SinkPasses

(* What is written of a load: the images with the numbers from x to y - 1. *)
Shows(w, load, x, y) ==
    /\ w \in Seq(Seq(Nat)) /\ Len(w) = y - x
    /\ \A i \in 1 .. y - x : \E f \in Range(load) : f.number = x + i - 1 /\ w[i] = f.image

(* A function from places to values is a sequence of them.                 *)
LEMMA PlacesMakeSeq ==
    ASSUME NEW S, NEW n \in Nat, NEW w \in [1 .. n -> S]
    PROVE  w \in Seq(S) /\ Len(w) = n
OBVIOUS

(* Entries that follow those written are written at once.                  *)
EntriesWritten(c, d, load, y) ==
    /\ d \in SinkContext(BOOLEAN)
    /\ d.buffer = {} /\ d.nextEntry = y
    /\ d.finished = c.finished /\ d.codecOpen = c.codecOpen /\ d.sdh = c.sdh /\ d.eff = c.eff
    /\ \E w : d.written = c.written \o w /\ Shows(w, load, c.nextEntry, y)

(* This is what try_flush_buffer does then: no entry stays in the buffer.  *)
LEMMA EntriesInOrder ==
    ASSUME NEW c \in SinkContext(BOOLEAN), c.buffer = {}, NEW y, NEW load \in Seq(FrameType),
           Batch(load, c.nextEntry, y, FrameType)
    PROVE  EntriesWritten(c, Sink!FlushBuffer(c, load), load, y)
<1> DEFINE x == c.nextEntry
           data == Data(c, load)
           first == FirstEntry(c, load)
           next == EndOfEntries(c, load)
           new == NewlyWritten(c, load)
           d == Sink!FlushBuffer(c, load)
           rest == {e \in data : e.number \notin first .. next - 1}
<1>1. /\ x \in Nat /\ y \in Nat /\ x <= y /\ NumbersOf(data) = x .. y - 1 /\ data = Range(load)
      /\ \A k, l \in DOMAIN load : k < l => load[k].number < load[l].number
  BY DEF Batch, Data
<1>2. first = x
  <2>1. CASE c.started \/ data = {}
    BY <2>1 DEF FirstEntry
  <2>2. CASE ~(c.started \/ data = {})
    <3>1. load # <<>> /\ first = load[1].number
      <4>1. load # <<>>
        BY <1>1, <2>2 DEF Range
      <4> QED BY <2>2, <4>1 DEF FirstEntry
    <3>2. 1 \in DOMAIN load /\ load[1] \in Range(load) /\ load[1].number \in Nat /\ DOMAIN load \subseteq Nat \ {0}
      <4>1. load[1] \in FrameType /\ load[1] \in Range(load) /\ DOMAIN load = 1 .. Len(load) /\ Len(load) \in Nat
        BY <3>1, LoadTyped
      <4>2. Len(load) # 0
        BY <3>1
      <4> QED BY <4>1, <4>2 DEF FrameType
    <3>3. load[1].number \in x .. y - 1
      BY <1>1, <3>2 DEF NumbersOf
    <3>4. x \in NumbersOf(data)
      BY <1>1, <3>3
    <3>5. PICK k \in DOMAIN load : load[k].number = x
      BY <1>1, <3>4 DEF NumbersOf, Range
    <3>6. k = 1 \/ 1 < k
      BY <3>2
    <3>7. load[1].number <= x
      BY <1>1, <3>2, <3>5, <3>6
    <3> QED BY <1>1, <3>1, <3>2, <3>3, <3>7
  <2> QED BY <2>1, <2>2
<1>3. next = y
  <2>1. next \in Nat /\ next >= first /\ next \notin NumbersOf(data) /\ first .. next - 1 \subseteq NumbersOf(data)
    BY EntriesTyped
  <2> HIDE DEF next, first, data, x
  <2>2. next >= y
    BY <1>1, <1>2, <2>1
  <2>3. next - 1 >= y => next - 1 \in x .. y - 1
    BY <1>1, <1>2, <2>1
  <2> QED BY <1>1, <2>1, <2>2, <2>3
<1>4. rest = {}
  <2>1. \A e \in data : e.number \in x .. y - 1
    BY <1>1 DEF NumbersOf
  <2> HIDE DEF data, first, next, x
  <2> QED BY <1>2, <1>3, <2>1
<1>5. d = [c EXCEPT !.buffer = rest, !.started = @ \/ data # {}, !.nextEntry = next, !.written = @ \o new]
  BY FlushBufferIs
<1>6. d \in SinkContext(BOOLEAN)
  BY FlushBufferTyped
<1>9. new = [i \in 1 .. next - first |-> Numbered(data, first + i - 1).image]
  BY DEF NewlyWritten
<1> HIDE DEF rest, data, first, next, new, d
<1>7. /\ d.buffer = rest /\ d.nextEntry = next /\ d.written = c.written \o new
      /\ d.finished = c.finished /\ d.codecOpen = c.codecOpen /\ d.sdh = c.sdh /\ d.eff = c.eff
  BY <1>5 DEF SinkContext
<1>10. Shows(new, load, x, y)
  <2>1. Range(load) \subseteq FrameType
    BY LoadTyped
  <2>2. new = [i \in 1 .. y - x |-> Numbered(Range(load), x + i - 1).image]
    BY <1>1, <1>2, <1>3, <1>9
  <2> HIDE DEF x
  <2>3. ASSUME NEW i \in 1 .. y - x
        PROVE  /\ Numbered(Range(load), x + i - 1) \in Range(load)
               /\ Numbered(Range(load), x + i - 1).number = x + i - 1
               /\ Numbered(Range(load), x + i - 1).image \in Seq(Nat)
    <3> DEFINE n == x + i - 1
               f == Numbered(Range(load), n)
    <3>1. n \in x .. y - 1
      BY <1>1
    <3>2. n \in NumbersOf(Range(load))
      BY <1>1, <3>1
    <3> HIDE DEF n
    <3>3. \E e \in Range(load) : e.number = n
      BY <3>2 DEF NumbersOf
    <3>4. f \in Range(load) /\ f.number = n
      BY <3>3 DEF Numbered
    <3>5. f.image \in Seq(Nat)
      BY <2>1, <3>4 DEF FrameType
    <3> QED BY <3>4, <3>5 DEF n
  <2>4. y - x \in Nat
    BY <1>1
  <2>5. new \in [1 .. y - x -> Seq(Nat)]
    BY <2>2, <2>3
  <2>6. new \in Seq(Seq(Nat)) /\ Len(new) = y - x
    <3> HIDE DEF new
    <3> QED BY <2>4, <2>5, PlacesMakeSeq
  <2>8. \A i \in 1 .. y - x : \E f \in Range(load) : f.number = x + i - 1 /\ new[i] = f.image
    BY <2>2, <2>3
  <2> QED BY <2>6, <2>8 DEF Shows
<1>8. EntriesWritten(c, d, load, y)
  BY <1>3, <1>4, <1>6, <1>7, <1>10 DEF EntriesWritten, x
<1> QED BY <1>8 DEF d

(* The sink takes entries, the last ones among them.                       *)
LEMMA EntriesLeave ==
    ASSUME NEW W, NEW Q \in Seq(CallType), Q # <<>>, NEW c, NEW e, NEW s, LastIsLast(W, Q, c, e), AllHanded(W, Q, c, s),
           NEW d, c.codecOpen => d.codecOpen, d.finished = c.finished, d.sdh = c.sdh
    PROVE  LastIsLast(W, Tail(Q), d, e) /\ AllHanded(W, Tail(Q), d, s)
<1>1. /\ Has(Tail(Q), LastEntries) => Has(Q, LastEntries)
      /\ Alone(Q, LastEntries) => Alone(Tail(Q), LastEntries)
  BY HasTail
<1>2. LastIsLast(W, Tail(Q), d, e)
  BY <1>1 DEF LastIsLast
<1>3. AllHanded(W, Tail(Q), d, s)
  BY <1>1 DEF AllHanded, LastSent
<1> QED BY <1>2, <1>3

(* The last entries are the only ones, and come when the writer has        *)
(* nothing left.                                                           *)
LEMMA LastEntriesLeave ==
    ASSUME NEW W, NEW Q \in Seq(CallType), Q # <<>>, Head(Q) \in LastEntries,
           NEW c, NEW e, NEW s, LastIsLast(W, Q, c, e), AllHanded(W, Q, c, s),
           NEW d, c.codecOpen => d.codecOpen, d.finished, d.sdh = c.sdh
    PROVE  LastIsLast(W, Tail(Q), d, e) /\ AllHanded(W, Tail(Q), d, s) /\ ~c.finished
<1>1. Has(Q, LastEntries) /\ Alone(Q, LastEntries) /\ W = <<>> /\ e.held = <<>> /\ d.codecOpen /\ ~c.finished
  BY HasTail DEF LastIsLast
<1>2. ~Has(Tail(Q), LastEntries) /\ Alone(Tail(Q), LastEntries)
  BY <1>1, HasTail
<1>3. ~Has(<<>>, LastFrames) /\ \A i \in DOMAIN <<>> : FALSE
  BY DEF Has
<1>4. LastIsLast(W, Tail(Q), d, e)
  BY <1>1, <1>2, <1>3 DEF LastIsLast
<1>5. AllHanded(W, Tail(Q), d, s)
  BY <1>1 DEF AllHanded, LastSent
<1> QED BY <1>1, <1>4, <1>5

(* The job that brings entries brings those that follow.                   *)
LEMMA EntriesTaken ==
    ASSUME TypeInv, context.sink.buffer = {}, NEW op \in {"framesWritten", "lastWritten"}, Calls("sink", op),
           NEW A \in SUBSET FrameType, Stream(queue["sink"], Entries, context.sink.nextEntry, encoder.received, A)
    PROVE  /\ Job("sink") \in Entries /\ (op = "lastWritten" => Job("sink") \in LastEntries)
           /\ queue["sink"] \in Seq(CallType) /\ queue["sink"] # <<>> /\ Job("sink") = Head(queue["sink"])
           /\ Job("sink").load \in Seq(FrameType)
           /\ \E y : /\ EntriesWritten(context.sink, Sink!FlushBuffer(context.sink, Job("sink").load),
                                      Job("sink").load, y)
                     /\ Batch(Job("sink").load, context.sink.nextEntry, y, A)
                     /\ Stream(Tail(queue["sink"]), Entries, y, encoder.received, A)
<1> DEFINE c == context.sink
           Q == queue["sink"]
           load == Job("sink").load
<1>1. c \in SinkContext(BOOLEAN) /\ "sink" \in Stage /\ "sink" \in Thread /\ queue \in Queues(AllCalls) /\ AllCalls \in SUBSET AllCalls
  BY ContextsTyped, ThreadsAre DEF Stage
<1>2. Job("sink") \in AllCalls /\ Job("sink").callee = "sink" /\ Job("sink").op = op /\ load \in Seq(FrameType)
  BY <1>1, JobOfStage
<1>3. Job("sink") \in Entries /\ (op = "lastWritten" => Job("sink") \in LastEntries)
  BY <1>2 DEF Entries, LastEntries
<1>4. Q \in Seq(CallType) /\ Q # <<>> /\ Job("sink") = Head(Q)
  <2>1. Q \in Seq(CallType)
    BY <1>1, QueueCalls
  <2> QED BY <2>1, ThreadsAre DEF Calls, Job
<1>5. c.buffer = {} /\ Stream(Q, Entries, c.nextEntry, encoder.received, A)
  OBVIOUS
<1>6. \A a \in A : a.number \in Nat
  BY DEF FrameType
<1> HIDE DEF c, Q, load
<1>7. PICK y \in c.nextEntry .. encoder.received :
           /\ Batch(load, c.nextEntry, y, A)
           /\ Stream(Tail(Q), Entries, y, encoder.received, A)
  BY <1>3, <1>4, <1>5, <1>6, StreamTaken DEF load
<1>8. EntriesWritten(c, Sink!FlushBuffer(c, load), load, y)
  <2>1. Batch(load, c.nextEntry, y, FrameType)
    BY <1>7 DEF Batch
  <2> QED BY <1>1, <1>2, <1>5, <2>1, EntriesInOrder
<1> QED BY <1>2, <1>3, <1>4, <1>7, <1>8 DEF c, Q, load

(* The queues afterwards: only the inter-frame stage is called.            *)
LEMMA EntriesHandled ==
    ASSUME TypeInv, NEW op, Calls("sink", op), NEW f \in SinkContext(BOOLEAN), Handled("sink", f),
           f.eff.calls["writer"] = <<>>
    PROVE  /\ queue'["writer"] = queue["writer"] /\ Rests(Tail(queue["sink"]), queue'["sink"])
           /\ context'.source = context.source /\ encoder' = encoder
           /\ context'.sink.buffer = f.buffer /\ context'.sink.nextEntry = f.nextEntry
           /\ context'.sink.finished = f.finished /\ context'.sink.codecOpen = f.codecOpen
           /\ context'.sink.sdh = f.sdh /\ context'.sink.written = f.written
<1>1. "sink" \in Stage /\ "source" \in Stage /\ "sink" # "source" /\ DOMAIN queue = Thread
  BY DEF Stage, TypeInv, Queues
<1>2. f.eff \in Effect(SinkCalls, {})
  BY DEF SinkContext
<1>3. /\ f.eff.calls \in Queues(AllCalls)
      /\ \A t \in Thread : \A i \in DOMAIN f.eff.calls[t] : f.eff.calls[t][i] \in SinkCalls
  BY <1>2, CallsTyped, CallsOfStage
<1>4. \A t \in Thread : /\ Dequeued("sink")[t] \in Seq(CallType) /\ f.eff.calls[t] \in Seq(CallType)
                        /\ queue'[t] = Dequeued("sink")[t] \o f.eff.calls[t]
  BY <1>1, <1>3, HandledQueues
<1>5. Rests(Tail(queue["sink"]), queue'["sink"])
  <2> DEFINE q == f.eff.calls["sink"]
             r == Tail(queue["sink"])
  <2>1. Dequeued("sink")["sink"] = r
    BY <1>1, <1>3, StageQueue, ThreadsAre
  <2>2. r \in Seq(CallType) /\ q \in Seq(CallType) /\ queue'["sink"] = r \o q
    BY <1>4, <2>1, ThreadsAre
  <2>3. \A i \in DOMAIN q : q[i] \notin Entries
    BY <1>3, ThreadsAre DEF SinkCalls, Entries
  <2> HIDE DEF q, r
  <2>4. Rests(r, r \o q)
    BY <2>2, <2>3, RestsBehind
  <2> QED BY <2>2, <2>4 DEF r
<1>6. queue'["writer"] = queue["writer"]
  <2> DEFINE q == f.eff.calls["writer"]
             p == Dequeued("sink")["writer"]
  <2>1. p = queue["writer"]
    BY <1>1, ThreadsAre DEF Dequeued
  <2>2. p \in Seq(CallType) /\ queue'["writer"] = p \o q /\ q = <<>>
    BY <1>4, ThreadsAre
  <2> HIDE DEF p, q
  <2> QED BY <2>1, <2>2
<1>7. context'["sink"] = [f EXCEPT !.eff = NoEffects] /\ context'.source = context.source
  BY <1>1, HandledIs
<1>8. encoder' = encoder
  BY DEF Handled
<1>9. LET d == [f EXCEPT !.eff = NoEffects]
      IN  /\ d.buffer = f.buffer /\ d.nextEntry = f.nextEntry /\ d.finished = f.finished
          /\ d.written = f.written /\ d.codecOpen = f.codecOpen /\ d.sdh = f.sdh
  BY SinkForgets
<1> QED BY <1>5, <1>6, <1>7, <1>8, <1>9

(* What a callback does: the entries it brings, all of A, are written.     *)
Stored(A, y) ==
    /\ queue["sink"] \in Seq(CallType) /\ queue["sink"] # <<>> /\ Head(queue["sink"]) \in Entries
    /\ queue'["writer"] = queue["writer"] /\ Rests(Tail(queue["sink"]), queue'["sink"])
    /\ context'.source = context.source /\ encoder' = encoder
    /\ context'.sink.buffer = {} /\ context'.sink.nextEntry = y
    /\ context'.sink.codecOpen = context.sink.codecOpen /\ context'.sink.sdh = context.sink.sdh
    /\ Batch(Head(queue["sink"]).load, context.sink.nextEntry, y, A)
    /\ Stream(Tail(queue["sink"]), Entries, y, encoder.received, A)
    /\ \E w : /\ context'.sink.written = context.sink.written \o w
              /\ Shows(w, Head(queue["sink"]).load, context.sink.nextEntry, y)

(* The callback for frames that were written.                              *)
LEMMA FramesWrittenStores ==
    ASSUME TypeInv, SinkFramesWritten, context.sink.buffer = {},
           NEW A \in SUBSET FrameType, Stream(queue["sink"], Entries, context.sink.nextEntry, encoder.received, A)
    PROVE  /\ \E y : Stored(A, y)
           /\ context'.sink.finished = context.sink.finished /\ reports' = reports
<1> DEFINE c == context.sink
           d == context'.sink
           s == context.source
           W == queue["writer"]
           Q == queue["sink"]
           P == queue'["sink"]
           load == Job("sink").load
           g == Sink!FlushBuffer(c, load)
           f == Sink!FramesWritten(c, load)
<1>1. Calls("sink", "framesWritten") /\ Handled("sink", f) /\ f = Sink!Trigger(g) /\ c.eff = NoEffects
  BY ContextsTyped DEF SinkFramesWritten, Sink!FramesWritten
<1>2. /\ Q \in Seq(CallType) /\ Q # <<>> /\ Head(Q) \in Entries /\ load = Head(Q).load
      /\ \E y : /\ EntriesWritten(c, g, load, y) /\ Batch(load, c.nextEntry, y, A)
                /\ Stream(Tail(Q), Entries, y, encoder.received, A)
  BY <1>1, EntriesTaken
<1>3. PICK y : /\ EntriesWritten(c, g, load, y) /\ Batch(load, c.nextEntry, y, A)
               /\ Stream(Tail(Q), Entries, y, encoder.received, A)
  BY <1>2
<1> HIDE DEF f, g, load
<1>4. SinkSame(g, f) /\ f.sdh = g.sdh /\ f.eff.calls["writer"] = g.eff.calls["writer"]
  BY <1>1, <1>3, SinkTriggerFields DEF EntriesWritten
<1>5. /\ f \in SinkContext(BOOLEAN) /\ f.eff.calls["writer"] = <<>> /\ f.eff.report = "none"
      /\ f.buffer = {} /\ f.nextEntry = y /\ f.finished = c.finished /\ f.codecOpen = c.codecOpen /\ f.sdh = c.sdh
      /\ f.written = g.written
  BY <1>1, <1>3, <1>4, ThreadsAre DEF EntriesWritten, SinkSame, NoEffects
<1>6. /\ queue'["writer"] = W /\ Rests(Tail(Q), P)
      /\ context'.source = s /\ encoder' = encoder
      /\ d.buffer = {} /\ d.nextEntry = y /\ d.finished = c.finished /\ d.codecOpen = c.codecOpen /\ d.sdh = c.sdh
      /\ d.written = g.written
  BY <1>1, <1>5, EntriesHandled
<1>7. reports' = reports
  BY <1>1, <1>5 DEF Handled, Effects, Rtsp!Reported
<1>8. \E w : d.written = c.written \o w /\ Shows(w, load, c.nextEntry, y)
  BY <1>3, <1>6 DEF EntriesWritten
<1> HIDE DEF c, d, s, W, Q, P
<1>9. Stored(A, y)
  BY <1>2, <1>3, <1>6, <1>8 DEF Stored, c, d, s, W, Q, P
<1> QED BY <1>6, <1>7, <1>9 DEF c, d

LEMMA FramesWrittenEnds ==
    ASSUME TypeInv, EndInv, SinkFramesWritten
    PROVE  EndInv'
<1> DEFINE c == context.sink
           d == context'.sink
           s == context.source
           W == queue["writer"]
           Q == queue["sink"]
           P == queue'["sink"]
<1>1. c.buffer = {} /\ Stream(Q, Entries, c.nextEntry, encoder.received, FrameType)
  BY DEF EndInv, NoneWaits
<1>2. d.finished = c.finished /\ reports' = reports /\ \E y : Stored(FrameType, y)
  BY <1>1, FramesWrittenStores
<1>3. PICK y : Stored(FrameType, y)
  BY <1>2
<1>4. /\ Q \in Seq(CallType) /\ Q # <<>> /\ queue'["writer"] = W /\ Rests(Tail(Q), P)
      /\ context'.source = s /\ encoder' = encoder
      /\ d.buffer = {} /\ d.nextEntry = y /\ d.codecOpen = c.codecOpen /\ d.sdh = c.sdh
      /\ Stream(Tail(Q), Entries, y, encoder.received, FrameType)
  BY <1>3 DEF Stored
<1>5. LastIsLast(W, Q, c, encoder) /\ AllHanded(W, Q, c, s) /\ Told(reports, c)
  BY DEF EndInv
<1> HIDE DEF c, d, s, W, Q, P
<1>6. LastIsLast(W, Tail(Q), d, encoder) /\ AllHanded(W, Tail(Q), d, s)
  BY <1>2, <1>4, <1>5, EntriesLeave
<1>7. NoneWaits(Tail(Q), d, encoder)
  BY <1>4 DEF NoneWaits
<1>8. LastIsLast(W, P, d, encoder) /\ NoneWaits(P, d, encoder) /\ AllHanded(W, P, d, s)
  BY <1>4, <1>6, <1>7, EndKept, AtRest
<1>9. Told(reports', d)
  BY <1>2, <1>5 DEF Told
<1> QED BY <1>4, <1>8, <1>9 DEF EndInv, c, d, s, W, Q, P

(* The end: it is reported once.                                           *)
LEMMA ToldOnce ==
    ASSUME NEW R \in Seq(Results), NEW c, Told(R, c), ~c.finished, NEW d, d.finished,
           NEW T, T = R \/ T = Append(R, "finished")
    PROVE  Told(T, d)
<1>1. \A i \in DOMAIN R : R[i] # "finished"
  BY DEF Told
<1>2. CASE T = R
  BY <1>1, <1>2 DEF Told
<1>3. CASE T = Append(R, "finished")
  <2>1. /\ Len(R) \in Nat /\ DOMAIN R = 1 .. Len(R) /\ DOMAIN T = 1 .. Len(R) + 1
        /\ \A i \in 1 .. Len(R) : T[i] = R[i]
    BY <1>3
  <2>2. \A i \in DOMAIN T : T[i] = "finished" => i = Len(R) + 1
    BY <1>1, <2>1
  <2> HIDE <1>3
  <2> QED BY <2>2 DEF Told
<1> QED BY <1>2, <1>3

(* The callback for the last frames.                                       *)
LEMMA LastWrittenStores ==
    ASSUME TypeInv, SinkLastWritten, context.sink.buffer = {},
           NEW A \in SUBSET FrameType, Stream(queue["sink"], Entries, context.sink.nextEntry, encoder.received, A)
    PROVE  /\ \E y : Stored(A, y)
           /\ Head(queue["sink"]) \in LastEntries /\ context'.sink.finished
           /\ reports' = reports \/ reports' = Append(reports, "finished")
<1> DEFINE c == context.sink
           d == context'.sink
           s == context.source
           W == queue["writer"]
           Q == queue["sink"]
           P == queue'["sink"]
           load == Job("sink").load
           g == Sink!FlushBuffer(c, load)
           h == [g EXCEPT !.finished = TRUE]
           f == Sink!LastWritten(c, load)
<1>1. Calls("sink", "lastWritten") /\ Handled("sink", f) /\ f = Sink!Report(h, "finished") /\ c.eff = NoEffects
  BY ContextsTyped DEF SinkLastWritten, Sink!LastWritten
<1>2. /\ Q \in Seq(CallType) /\ Q # <<>> /\ Head(Q) \in Entries /\ Head(Q) \in LastEntries /\ load = Head(Q).load
      /\ \E y : /\ EntriesWritten(c, g, load, y) /\ Batch(load, c.nextEntry, y, A)
                /\ Stream(Tail(Q), Entries, y, encoder.received, A)
  BY <1>1, EntriesTaken
<1>3. PICK y : /\ EntriesWritten(c, g, load, y) /\ Batch(load, c.nextEntry, y, A)
               /\ Stream(Tail(Q), Entries, y, encoder.received, A)
  BY <1>2
<1> HIDE DEF f, g, load
<1>4. /\ h \in SinkContext(BOOLEAN) /\ h.finished = TRUE /\ h.written = g.written
      /\ h.buffer = g.buffer /\ h.nextEntry = g.nextEntry /\ h.codecOpen = g.codecOpen /\ h.sdh = g.sdh /\ h.eff = g.eff
  BY <1>3 DEF EntriesWritten, SinkContext
<1> HIDE DEF h
<1>5. f \in SinkContext(BOOLEAN)
  BY <1>1, <1>4, SinkReports
<1>6. /\ f.finished = h.finished /\ f.buffer = h.buffer /\ f.nextEntry = h.nextEntry /\ f.codecOpen = h.codecOpen
      /\ f.sdh = h.sdh /\ f.eff.calls = h.eff.calls /\ f.eff.report = "finished" /\ f.written = h.written
  BY <1>1, <1>4 DEF Sink!Report, SinkContext, Effect
<1>7. /\ f.eff.calls["writer"] = <<>>
      /\ f.buffer = {} /\ f.nextEntry = y /\ f.finished = TRUE /\ f.codecOpen = c.codecOpen /\ f.sdh = c.sdh
  BY <1>1, <1>3, <1>4, <1>6, ThreadsAre DEF EntriesWritten, NoEffects
<1>8. /\ queue'["writer"] = W /\ Rests(Tail(Q), P)
      /\ context'.source = s /\ encoder' = encoder
      /\ d.buffer = {} /\ d.nextEntry = y /\ d.finished /\ d.codecOpen = c.codecOpen /\ d.sdh = c.sdh
      /\ d.written = g.written
  BY <1>1, <1>4, <1>5, <1>6, <1>7, EntriesHandled
<1>9. reports' = reports \/ reports' = Append(reports, "finished")
  BY <1>1, <1>6 DEF Handled, Effects, Rtsp!Reported
<1>10. \E w : d.written = c.written \o w /\ Shows(w, load, c.nextEntry, y)
  BY <1>3, <1>8 DEF EntriesWritten
<1> HIDE DEF c, d, s, W, Q, P
<1>11. Stored(A, y)
  BY <1>2, <1>3, <1>8, <1>10 DEF Stored, c, d, s, W, Q, P
<1> QED BY <1>2, <1>8, <1>9, <1>11 DEF d, Q

LEMMA LastWrittenEnds ==
    ASSUME TypeInv, EndInv, SinkLastWritten
    PROVE  EndInv'
<1> DEFINE c == context.sink
           d == context'.sink
           s == context.source
           W == queue["writer"]
           Q == queue["sink"]
           P == queue'["sink"]
<1>1. c.buffer = {} /\ Stream(Q, Entries, c.nextEntry, encoder.received, FrameType)
  BY DEF EndInv, NoneWaits
<1>2. /\ Head(Q) \in LastEntries /\ d.finished /\ \E y : Stored(FrameType, y)
      /\ reports' = reports \/ reports' = Append(reports, "finished")
  BY <1>1, LastWrittenStores
<1>3. PICK y : Stored(FrameType, y)
  BY <1>2
<1>4. /\ Q \in Seq(CallType) /\ Q # <<>> /\ queue'["writer"] = W /\ Rests(Tail(Q), P)
      /\ context'.source = s /\ encoder' = encoder
      /\ d.buffer = {} /\ d.nextEntry = y /\ d.codecOpen = c.codecOpen /\ d.sdh = c.sdh
      /\ Stream(Tail(Q), Entries, y, encoder.received, FrameType)
  BY <1>3 DEF Stored
<1>5. LastIsLast(W, Q, c, encoder) /\ AllHanded(W, Q, c, s) /\ Told(reports, c) /\ reports \in Seq(Results)
  BY DEF EndInv, TypeInv
<1> HIDE DEF c, d, s, W, Q, P
<1>6. LastIsLast(W, Tail(Q), d, encoder) /\ AllHanded(W, Tail(Q), d, s) /\ ~c.finished
  BY <1>2, <1>4, <1>5, LastEntriesLeave
<1>7. NoneWaits(Tail(Q), d, encoder)
  BY <1>4 DEF NoneWaits
<1>8. LastIsLast(W, P, d, encoder) /\ NoneWaits(P, d, encoder) /\ AllHanded(W, P, d, s)
  BY <1>4, <1>6, <1>7, EndKept, AtRest
<1>9. Told(reports', d)
  BY <1>2, <1>5, <1>6, ToldOnce
<1> QED BY <1>4, <1>8, <1>9 DEF EndInv, c, d, s, W, Q, P

(* The jobs of the sink.                                                   *)
LEMMA SinkThreadEnds ==
    ASSUME TypeInv, StartInv, FlowInv, ScriptsInv, EndInv, TypeInv', FlowInv', SinkThread
    PROVE  EndInv'
BY SinkPassingJobsPass, SinkPassedEnds, FramesWrittenEnds, LastWrittenEnds DEF SinkThread

(* The entries that come out of the encoder have the next numbers.         *)
LEMMA EntriesFollow ==
    ASSUME NEW e \in Encoder, NEW n \in 0 .. Len(e.held)
    PROVE  Batch(Sink!EntriesOut(e, n), e.received, e.received + n, FrameType)
<1> DEFINE load == Sink!EntriesOut(e, n)
           r == e.received
<1>1. load \in Seq(FrameType)
  BY EntriesOutTyped
<1>2. r \in Nat /\ n \in Nat
  BY DEF Encoder
<1>3. load = [i \in 1 .. n |-> Sink!Frame(r + i - 1, e.held[i])]
  BY DEF Sink!EntriesOut
<1>4. DOMAIN load = 1 .. n /\ \A i \in 1 .. n : load[i].number = r + i - 1
  BY <1>3 DEF Sink!Frame
<1> HIDE DEF load, r
<1>5. Range(load) \subseteq FrameType
  BY <1>1, LoadTyped
<1>6. NumbersOf(Range(load)) = r .. r + n - 1
  <2>1. ASSUME NEW k \in NumbersOf(Range(load)) PROVE k \in r .. r + n - 1
    <3>1. PICK i \in DOMAIN load : k = load[i].number
      BY <2>1 DEF NumbersOf, Range
    <3> QED BY <1>2, <1>4, <3>1
  <2>2. ASSUME NEW k \in r .. r + n - 1 PROVE k \in NumbersOf(Range(load))
    <3> DEFINE i == k - r + 1
    <3>1. i \in 1 .. n /\ r + i - 1 = k
      BY <1>2
    <3> HIDE DEF i
    <3>2. load[i] \in Range(load) /\ load[i].number = k
      BY <1>4, <3>1 DEF Range
    <3> QED BY <3>2 DEF NumbersOf
  <2> QED BY <2>1, <2>2
<1>7. \A k, l \in DOMAIN load : k < l => load[k].number < load[l].number
  BY <1>2, <1>4
<1> QED BY <1>2, <1>5, <1>6, <1>7 DEF Batch, load, r

(* What the writer answers.                                                *)
LEMMA WriterAnswers ==
    ASSUME NEW W \in Seq(CallType), W # <<>>, NEW Q \in Seq(CallType), NEW c, NEW e, NEW s,
           LastIsLast(W, Q, c, e), AllHanded(W, Q, c, s),
           NEW m \in CallType, NEW f, m \in LastEntries => Head(W) \in LastFrames /\ c.codecOpen /\ f.held = <<>>
    PROVE  LastIsLast(Tail(W), Append(Q, m), c, f) /\ AllHanded(Tail(W), Append(Q, m), c, s)
<1>1. ~Has(Q, LastEntries) /\ ~c.finished /\ \A i \in DOMAIN W : W[i] \in LastFrames => i = Len(W)
  BY DEF LastIsLast
<1>2. /\ Has(Append(Q, m), LastEntries) => m \in LastEntries
      /\ Alone(Append(Q, m), LastEntries)
  BY <1>1, HasConcat
<1>3. /\ Has(Tail(W), LastFrames) => Has(W, LastFrames)
      /\ Head(W) \in LastFrames => Has(W, LastFrames) /\ Tail(W) = <<>>
      /\ \A i \in DOMAIN Tail(W) : Tail(W)[i] \in LastFrames => i = Len(Tail(W))
  BY <1>1, HasTail
<1>4. Has(Tail(W), LastFrames) => ~Has(Append(Q, m), LastEntries)
  <2>1. ~Has(<<>>, LastFrames)
    BY DEF Has
  <2> QED BY <1>2, <1>3, <2>1
<1> HIDE DEF LastFrames, LastEntries
<1>5. LastIsLast(Tail(W), Append(Q, m), c, f)
  BY <1>1, <1>2, <1>3, <1>4 DEF LastIsLast
<1>6. AllHanded(Tail(W), Append(Q, m), c, s)
  BY <1>1, <1>2, <1>3 DEF AllHanded, LastSent
<1> QED BY <1>5, <1>6

(* Its job, which the call w asked for, ends with n entries out of the     *)
(* encoder e in the call m for the sink.                                   *)
Answered(e, n, w, m) ==
    /\ queue["writer"] \in Seq(CallType) /\ queue["writer"] # <<>> /\ Head(queue["writer"]) = w
    /\ queue["sink"] \in Seq(CallType) /\ m \in CallType /\ m.load = Sink!EntriesOut(e, n)
    /\ queue'["writer"] = Tail(queue["writer"]) /\ queue'["sink"] = Append(queue["sink"], m)
    /\ encoder'.received = e.received + n /\ encoder'.held = SubSeq(e.held, n + 1, Len(e.held))
    /\ UNCHANGED <<context, reports>>

Are(callee, op) == {m \in AllCalls : m.callee = callee /\ m.op = op}

LEMMA WroteAnswers ==
    ASSUME TypeInv, NEW op \in {"framesWritten", "lastWritten", "writeFailed"},
           NEW e \in Encoder, NEW n \in 0 .. Len(e.held), NEW job, Calls("writer", job), Wrote(e, n, op)
    PROVE  \E w \in Are("writer", job), m \in Are("sink", op) : Answered(e, n, w, m)
<1> DEFINE W == queue["writer"]
           Q == queue["sink"]
           load == Sink!EntriesOut(e, n)
           m == CallWith("sink", op, load)
           w == Job("writer")
<1>1. load \in Seq(FrameType)
  BY EntriesOutTyped
<1>2. m \in AllCalls /\ m \in CallType /\ m.callee = "sink" /\ m.op = op /\ m.load = load
  <2>1. Is(m, "sink", op)
    BY <1>1, CallsMade
  <2>2. m.load = load
    BY DEF CallWith, Call
  <2> QED BY <2>1, <2>2, CallsTyped DEF Is
<1>3. /\ w \in AllCalls /\ w.callee = "writer" /\ w.op = job
      /\ queue \in Queues(AllCalls) /\ AllCalls \in SUBSET AllCalls /\ DOMAIN queue = Thread
  BY JobTyped DEF TypeInv, Callee, Queues
<1>4. W \in Seq(CallType) /\ Q \in Seq(CallType) /\ W # <<>> /\ Head(W) = w
  <2>1. W \in Seq(CallType) /\ Q \in Seq(CallType)
    BY <1>3, QueueCalls, ThreadsAre
  <2> QED BY <2>1, ThreadsAre DEF Calls, Job
<1>5. queue' = Posted(Dequeued("writer"), m) /\ encoder' = Sink!EncoderAfter(e, n) /\ UNCHANGED <<context, reports>>
  BY DEF Wrote
<1> HIDE DEF load, m, w, W, Q
<1>6. queue'["writer"] = Tail(W) /\ queue'["sink"] = Append(Q, m)
  BY <1>2, <1>3, <1>5, ThreadsAre DEF Posted, Dequeued, W, Q
<1>7. encoder'.received = e.received + n /\ encoder'.held = SubSeq(e.held, n + 1, Len(e.held))
  BY <1>5 DEF Sink!EncoderAfter
<1>8. w \in Are("writer", job) /\ m \in Are("sink", op)
  BY <1>2, <1>3 DEF Are
<1>9. Answered(e, n, w, m)
  BY <1>2, <1>4, <1>5, <1>6, <1>7 DEF Answered, W, Q, load
<1> QED BY <1>8, <1>9

(* An answer of the writer, of any kind, keeps the invariant.              *)
LEMMA AnsweredEnds ==
    ASSUME TypeInv, EndInv, NEW op \in {"framesWritten", "lastWritten", "writeFailed"},
           NEW e \in Encoder, NEW n \in 0 .. Len(e.held), e.received = encoder.received, NEW job,
           NEW w \in Are("writer", job), NEW m \in Are("sink", op), Answered(e, n, w, m),
           op = "writeFailed" => n = 0,
           op = "lastWritten" => job = "last" /\ context.sink.codecOpen /\ n = Len(e.held)
    PROVE  EndInv'
<1> DEFINE c == context.sink
           s == context.source
           W == queue["writer"]
           Q == queue["sink"]
<1>1. /\ W \in Seq(CallType) /\ W # <<>> /\ Head(W) = w /\ Q \in Seq(CallType)
      /\ m \in CallType /\ m.load = Sink!EntriesOut(e, n)
      /\ queue'["writer"] = Tail(W) /\ queue'["sink"] = Append(Q, m)
      /\ encoder'.received = e.received + n /\ encoder'.held = SubSeq(e.held, n + 1, Len(e.held))
      /\ UNCHANGED <<context, reports>>
  BY DEF Answered
<1>2. Batch(m.load, e.received, e.received + n, FrameType)
  BY <1>1, EntriesFollow
<1>3. m \in AllCalls /\ m.callee = "sink" /\ m.op = op /\ w \in AllCalls /\ w.callee = "writer" /\ w.op = job
  BY DEF Are
<1> HIDE DEF W, Q
<1>8. LastIsLast(W, Q, c, encoder) /\ AllHanded(W, Q, c, s) /\ NoneWaits(Q, c, encoder) /\ Told(reports, c)
  BY DEF EndInv, W, Q
<1>9. m \in LastEntries => Head(W) \in LastFrames /\ c.codecOpen /\ encoder'.held = <<>>
  <2> SUFFICES ASSUME m \in LastEntries PROVE Head(W) \in LastFrames /\ c.codecOpen /\ encoder'.held = <<>>
    OBVIOUS
  <2>1. op = "lastWritten"
    BY <1>3 DEF LastEntries
  <2>2. Head(W) \in LastFrames
    BY <1>1, <1>3, <2>1 DEF LastFrames
  <2>3. encoder'.held = <<>>
    <3>1. e.held \in Seq(Seq(Nat)) /\ encoder'.held = SubSeq(e.held, Len(e.held) + 1, Len(e.held))
      BY <1>1, <2>1 DEF Encoder
    <3>2. \A S : \A q \in Seq(S) : SubSeq(q, Len(q) + 1, Len(q)) = <<>>
      OBVIOUS
    <3> QED BY <3>1, <3>2
  <2> QED BY <2>1, <2>2, <2>3
<1>10. NoneWaits(Append(Q, m), c, encoder')
  <2>1. Stream(Q, Entries, c.nextEntry, e.received, FrameType) /\ c.buffer = {} /\ \A a \in FrameType : a.number \in Nat
    BY <1>8 DEF NoneWaits, FrameType
  <2>2. /\ m \notin Entries => Stream(Append(Q, m), Entries, c.nextEntry, e.received, FrameType)
        /\ Stream(Append(Q, m), Entries, c.nextEntry, e.received + n, FrameType) \/ m \notin Entries
    BY <1>1, <1>2, <2>1, StreamAppend
  <2>3. m \notin Entries => n = 0
    BY <1>3 DEF Entries
  <2>4. e.received + 0 = e.received
    BY DEF Encoder
  <2> QED BY <1>1, <2>1, <2>2, <2>3, <2>4 DEF NoneWaits
<1> HIDE DEF c, s
<1>11. LastIsLast(Tail(W), Append(Q, m), c, encoder') /\ AllHanded(Tail(W), Append(Q, m), c, s)
  BY <1>1, <1>8, <1>9, WriterAnswers
<1> QED BY <1>1, <1>8, <1>10, <1>11 DEF EndInv, c, s

(* The three jobs of the writer.                                           *)
WriterJob(e, n, job, op) ==
    /\ e \in Encoder /\ n \in 0 .. Len(e.held) /\ e.received = encoder.received
    /\ Calls("writer", job) /\ Wrote(e, n, op)
    /\ \/ /\ job = "frames" /\ op = "framesWritten" /\ context.sink.codecOpen
          /\ Job("writer").load \in Seq(FrameType)
          /\ e.held = encoder.held \o [k \in 1 .. Len(Job("writer").load) |-> Job("writer").load[k].image]
       \/ job = "last" /\ op = "lastWritten" /\ context.sink.codecOpen /\ e = encoder /\ n = Len(e.held)
       \/ job \in {"frames", "last"} /\ op = "writeFailed" /\ ~context.sink.codecOpen /\ e = encoder /\ n = 0

LEMMA WriterJobs ==
    ASSUME TypeInv, WriterThread
    PROVE  \E e, n, job, op : WriterJob(e, n, job, op)
<1>1. encoder \in Encoder /\ 0 \in 0 .. Len(encoder.held) /\ Len(encoder.held) \in 0 .. Len(encoder.held)
  BY DEF TypeInv, Encoder
<1>2. CASE WriteFrames
  <2> DEFINE load == Job("writer").load
             e == Sink!TakenIn(encoder, load)
             n == Sink!EntriesReady(e)
  <2>1. Calls("writer", "frames") /\ Wrote(e, n, "framesWritten") /\ context.sink.codecOpen
    BY <1>2 DEF WriteFrames
  <2>2. Made("writer", "frames", Job("writer").amount, load) /\ load \in Seq(FrameType)
    BY <2>1, JobTyped DEF TypeInv, Callee
  <2>3. ~HasFlush(load)
    BY <2>2 DEF Made
  <2>4. e \in Encoder /\ e = [encoder EXCEPT !.held = @ \o [k \in 1 .. Len(load) |-> load[k].image]]
    BY <1>1, <2>2, <2>3, TakenInIs
  <2> HIDE DEF e
  <2>5. e.received = encoder.received /\ e.held = encoder.held \o [k \in 1 .. Len(load) |-> load[k].image]
    BY <1>1, <2>4 DEF Encoder
  <2>6. n \in 0 .. Len(e.held)
    BY <2>4, EntriesReadyTyped
  <2> HIDE DEF n
  <2>7. WriterJob(e, n, "frames", "framesWritten")
    BY <2>1, <2>2, <2>4, <2>5, <2>6 DEF WriterJob
  <2> QED BY <2>7
<1>3. CASE WriteLastFrames
  <2>1. WriterJob(encoder, Len(encoder.held), "last", "lastWritten")
    BY <1>1, <1>3 DEF WriteLastFrames, WriterJob
  <2> QED BY <2>1
<1>4. CASE WriteRefused
  <2>1. PICK job \in {"frames", "last"} : Calls("writer", job)
    BY <1>4 DEF WriteRefused
  <2>2. WriterJob(encoder, 0, job, "writeFailed")
    BY <1>1, <1>4, <2>1 DEF WriteRefused, WriterJob
  <2> QED BY <2>2
<1> QED BY <1>2, <1>3, <1>4 DEF WriterThread

(* They keep the invariant.                                                *)
LEMMA WriterThreadEnds ==
    ASSUME TypeInv, EndInv, WriterThread
    PROVE  EndInv'
<1>1. PICK e, n, job, op : WriterJob(e, n, job, op)
  BY WriterJobs
<1>2. /\ e \in Encoder /\ n \in 0 .. Len(e.held) /\ e.received = encoder.received
      /\ op \in {"framesWritten", "lastWritten", "writeFailed"} /\ Calls("writer", job) /\ Wrote(e, n, op)
      /\ op = "writeFailed" => n = 0
      /\ op = "lastWritten" => job = "last" /\ context.sink.codecOpen /\ n = Len(e.held)
  BY <1>1 DEF WriterJob
<1>3. PICK w \in Are("writer", job), m \in Are("sink", op) : Answered(e, n, w, m)
  BY <1>2, WroteAnswers
<1> QED BY <1>2, <1>3, AnsweredEnds
-----------------------------------------------------------------------------
(* Part 6: the other steps, and the theorem.                               *)

(* Calls that are neither for the writer nor bring entries.                *)
Aside(m) == m \in AllCalls /\ m \notin Entries /\ ThreadOf(m.callee) # "writer"

QueuesRest(q, r) == r["writer"] = q["writer"] /\ Rests(q["sink"], r["sink"])

(* Such a call is posted.                                                  *)
LEMMA AsidePosted ==
    ASSUME NEW q \in Queues(AllCalls), NEW m, Aside(m)
    PROVE  Posted(q, m) \in Queues(AllCalls) /\ QueuesRest(q, Posted(q, m))
<1>1. m \in AllCalls /\ AllCalls \in SUBSET AllCalls /\ m \in CallType /\ DOMAIN q = Thread
  BY CallsTyped DEF Aside, Queues
<1>2. Posted(q, m) \in Queues(AllCalls)
  BY <1>1, PostedTyped
<1>3. Posted(q, m)["writer"] = q["writer"]
  BY <1>1, ThreadsAre DEF Posted, Aside
<1>4. Rests(q["sink"], Posted(q, m)["sink"])
  <2> DEFINE p == q["sink"]
             r == Posted(q, m)["sink"]
  <2>1. p \in Seq(CallType)
    BY <1>1, QueueCalls, ThreadsAre
  <2>2. r = p \/ r = Append(p, m)
    BY <1>1, ThreadsAre DEF Posted
  <2> HIDE DEF p, r
  <2>3. <<m>> \in Seq(CallType) /\ DOMAIN <<m>> = {1} /\ <<m>>[1] = m /\ Append(p, m) = p \o <<m>>
    BY <1>1, <2>1, OneMoreCall
  <2>4. \A i \in DOMAIN <<m>> : <<m>>[i] \notin Entries
    BY <2>3 DEF Aside
  <2>5. Rests(p, p \o <<m>>)
    BY <2>1, <2>3, <2>4, RestsBehind
  <2>6. Rests(p, p)
    BY RestsOn
  <2> QED BY <2>2, <2>3, <2>5, <2>6 DEF p, r
<1> QED BY <1>2, <1>3, <1>4 DEF QueuesRest

(* One call after the other.                                               *)
LEMMA AsideOn ==
    /\ \A q : QueuesRest(q, q)
    /\ \A q, r, t : QueuesRest(q, r) /\ QueuesRest(r, t) => QueuesRest(q, t)
BY RestsOn DEF QueuesRest

(* The calls of the pipeline are such calls.                               *)
LEMMA AsideCalls ==
    \A s \in Stage : Aside(Call(s, "init")) /\ Aside(Call(s, "start"))
<1>1. \A s \in Stage : Is(Call(s, "init"), s, "init") /\ Is(Call(s, "start"), s, "start")
  BY CallsMade
<1>2. \A s \in Stage : ThreadOf(s) # "writer"
  BY DEF Stage, ThreadOf
<1> QED BY <1>1, <1>2 DEF Is, Aside, Entries

(* The sink, the source and the encoder are left alone.                    *)
LEMMA EndAside ==
    ASSUME QueuesRest(queue, queue'), context'.sink = context.sink, context'.source = context.source,
           encoder' = encoder, Unfinished(reports, reports')
    PROVE  BeforeTheEnd
BY AtRest DEF QueuesRest, BeforeTheEnd

(* The launch and the start of the stages.                                 *)
LEMMA PipelineThreadEnds ==
    ASSUME TypeInv, PipelineThread
    PROVE  BeforeTheEnd
<1>1. queue \in Queues(AllCalls) /\ pipeline.launched \in 0 .. 4 /\ DOMAIN queue = Thread
  BY DEF TypeInv, Queues
<1>2. /\ Len(StageOrder) = 4
      /\ \A n \in 1 .. 4 : Aside(Call(StageOrder[n], "init")) /\ Aside(Call(StageOrder[n], "start"))
  <2>1. \A n \in 1 .. 4 : StageOrder[n] \in Stage
    BY DEF StageOrder, Stage
  <2> QED BY <2>1, AsideCalls DEF StageOrder
<1>3. CASE Launch
  <2>1. pipeline.launched + 1 \in 1 .. 4
    BY <1>1, <1>2, <1>3 DEF Launch
  <2>2. queue' = Posted(queue, Call(StageOrder[pipeline.launched + 1], "init"))
    BY <1>3 DEF Launch
  <2>3. QueuesRest(queue, queue')
    BY <1>1, <1>2, <2>1, <2>2, AsidePosted
  <2> QED BY <1>3, <2>3, EndAside, AtRest DEF Launch
<1>4. CASE StageInitialized
  <2> DEFINE d == Dequeued("pipeline")
  <2>1. Calls("pipeline", "initialized")
    BY <1>4 DEF StageInitialized
  <2>2. d \in Queues(AllCalls) /\ QueuesRest(queue, d)
    <3>1. d \in Queues(AllCalls)
      BY <2>1, CalmDequeued
    <3>2. d["writer"] = queue["writer"] /\ d["sink"] = queue["sink"]
      BY <1>1, ThreadsAre DEF Dequeued
    <3> HIDE DEF d
    <3>3. Rests(queue["sink"], queue["sink"])
      BY RestsOn
    <3> QED BY <3>1, <3>2, <3>3 DEF QueuesRest
  <2> HIDE DEF d
  <2>3. ASSUME NEW q \in Queues(AllCalls), QueuesRest(queue, q), NEW n \in 1 .. 4
        PROVE  StartPosted(q, n) \in Queues(AllCalls) /\ QueuesRest(queue, StartPosted(q, n))
    <3>1. StartPosted(q, n) \in Queues(AllCalls) /\ QueuesRest(q, StartPosted(q, n))
      BY <1>2, AsidePosted DEF StartPosted
    <3> QED BY <2>3, <3>1, AsideOn
  <2>4. QueuesRest(queue, AllStarted(d))
    BY <2>2, <2>3 DEF AllStarted
  <2>5. queue' = AllStarted(d) \/ queue' = d
    BY <1>4 DEF StageInitialized, d
  <2>6. QueuesRest(queue, queue')
    BY <2>2, <2>4, <2>5
  <2> QED BY <1>4, <2>6, EndAside, AtRest DEF StageInitialized
<1> QED BY <1>3, <1>4 DEF PipelineThread

(* The continuation after a compilation.                                   *)
LEMMA ContinueEnds ==
    ASSUME TypeInv, NEW s \in {"frame", "interframe"}, NEW d, Continue(s, d),
           d.eff.calls \in Queues(ToPipeline), d.eff.report \in {"none", "failed"}
    PROVE  BeforeTheEnd
<1>1. /\ context' = [context EXCEPT ![s] = Forgets(d)] /\ queue' = Post(queue, d.eff.calls) /\ encoder' = encoder
  BY DEF Continue, Effects, Forgets
<1>2. DOMAIN context = Stage /\ queue \in Queues(AllCalls) /\ s \in Stage /\ AllCalls \in SUBSET AllCalls
  BY DEF TypeInv, Contexts, Stage
<1>3. context'.sink = context.sink /\ context'.source = context.source
  BY <1>1, <1>2 DEF Stage
<1>4. ASSUME NEW t \in {"writer", "sink"}
      PROVE  queue'[t] = queue[t]
  <2> DEFINE q == d.eff.calls[t]
             p == queue[t]
  <2>1. /\ t \in Thread /\ p \in Seq(CallType) /\ q \in Seq(CallType)
        /\ \A i \in DOMAIN q : q[i] \in ToPipeline /\ ThreadOf(q[i].callee) = t
    <3>1. t \in Thread /\ ToPipeline \in SUBSET AllCalls
      BY ThreadsAre DEF ToPipeline
    <3> QED BY <1>2, <3>1, QueueCalls
  <2>2. queue'[t] = p \o q
    BY <1>1, <2>1 DEF Post
  <2> HIDE DEF q, p
  <2>3. \A i \in DOMAIN q : FALSE
    BY <2>1, ThreadsAre DEF ToPipeline
  <2>4. q = <<>>
    BY <2>1, <2>3
  <2>5. queue'[t] = p
    BY <2>1, <2>2, <2>4
  <2> QED BY <2>5 DEF p
<1>5. QueuesRest(queue, queue')
  <2>1. Rests(queue["sink"], queue["sink"])
    BY RestsOn
  <2> QED BY <1>4, <2>1 DEF QueuesRest
<1>6. Unfinished(reports, reports')
  BY DEF Continue, Effects, Rtsp!Reported, Unfinished, Results
<1> QED BY <1>1, <1>3, <1>5, <1>6, EndAside

(* It reports a failure at most, and only the inter-frame stage does.      *)
LEMMA CompiledReports ==
    ASSUME NEW ok \in BOOLEAN, NEW id
    PROVE  /\ \A c \in FrameContext(BOOLEAN, TRUE) :
                 c.eff = NoEffects => FrameStage!Compiled(c, ok, id).eff.report = "none"
           /\ \A c \in InterContext(BOOLEAN, TRUE) :
                 c.eff = NoEffects => InterStage!Compiled(c, ok, id).eff.report = IF ok THEN "none" ELSE "failed"
<1>1. ASSUME NEW c \in FrameContext(BOOLEAN, TRUE), c.eff = NoEffects
      PROVE  FrameStage!Compiled(c, ok, id).eff.report = "none"
  <2> DEFINE x == [c EXCEPT !.script = "ready", !.framesId = id]
             m == FrameStage!Call("pipeline", "initialized")
  <2>1. c.eff.report = "none"
    BY <1>1 DEF NoEffects
  <2>2. x.eff = c.eff /\ x = [c EXCEPT !.script = "ready", !.framesId = id] /\ DOMAIN x = DOMAIN c
    BY DEF FrameContext
  <2> HIDE DEF x, m
  <2>3. FrameStage!Send(x, m).eff.report = x.eff.report
    BY <2>2 DEF FrameStage!Send, FrameContext, Effect
  <2>4. [c EXCEPT !.script = "failed", !.framesId = 0].eff = c.eff
    BY DEF FrameContext
  <2> QED BY <2>1, <2>2, <2>3, <2>4 DEF FrameStage!Compiled, x, m
<1>2. ASSUME NEW c \in InterContext(BOOLEAN, TRUE), c.eff = NoEffects
      PROVE  InterStage!Compiled(c, ok, id).eff.report = IF ok THEN "none" ELSE "failed"
  <2> DEFINE x == [c EXCEPT !.script = "ready", !.framesId = id]
             m == InterStage!Common!Call("pipeline", "initialized")
             y == [c EXCEPT !.script = "failed", !.framesId = 0]
  <2>1. c.eff.report = "none"
    BY <1>2 DEF NoEffects
  <2>2. x.eff = c.eff /\ DOMAIN x = DOMAIN c /\ y.eff = c.eff /\ DOMAIN y = DOMAIN c
    BY DEF InterContext
  <2> HIDE DEF x, m, y
  <2>3. InterStage!Common!Send(x, m).eff.report = x.eff.report
    BY <2>2 DEF InterStage!Common!Send, InterContext, Effect
  <2>4. InterStage!Report(y, "failed").eff.report = "failed"
    BY <2>2 DEF InterStage!Report, InterContext, Effect
  <2> QED BY <2>1, <2>2, <2>3, <2>4 DEF InterStage!Compiled, InterStage!Common!Compiled, x, m, y
<1> QED BY <1>1, <1>2

(* The steps of the image processor.                                       *)
LEMMA ImageProcessorEnds ==
    ASSUME TypeInv, ScriptsInv, ImageProcessor
    PROVE  BeforeTheEnd
<1>1. /\ context.frame \in FrameContext(BOOLEAN, TRUE) /\ context.frame.eff = NoEffects
      /\ context.interframe \in InterContext(BOOLEAN, TRUE) /\ context.interframe.eff = NoEffects
      /\ queue \in Queues(AllCalls)
  BY ContextsTyped
<1>2. ASSUME NEW s \in {"frame", "interframe"}, Compile(s) PROVE BeforeTheEnd
  <2>1. UNCHANGED <<context, queue, encoder, reports>>
    BY <1>2 DEF Compile
  <2> QED BY <2>1, AsideOn, AtRest, EndAside
<1>3. CASE FrameCompiled
  <2> DEFINE ok == images.compiled.frame = "yes"
             d == FrameStage!Compiled(context.frame, ok, NumberOf("frame"))
  <2>1. CompiledKeeps(context.frame, d, ok, NumberOf("frame")) /\ d.eff.report \in {"none", "failed"}
    BY <1>1, CompiledRests, CompiledReports
  <2>2. Continue("frame", d)
    BY <1>3 DEF FrameCompiled
  <2> HIDE DEF d
  <2> QED BY <2>1, <2>2, ContinueEnds DEF CompiledKeeps
<1>4. CASE InterframeCompiled
  <2> DEFINE ok == images.compiled.interframe = "yes"
             d == InterStage!Compiled(context.interframe, ok, NumberOf("interframe"))
  <2>1. CompiledKeeps(context.interframe, d, ok, NumberOf("interframe")) /\ d.eff.report \in {"none", "failed"}
    BY <1>1, CompiledRests, CompiledReports
  <2>2. Continue("interframe", d)
    BY <1>4 DEF InterframeCompiled
  <2> HIDE DEF d
  <2> QED BY <2>1, <2>2, ContinueEnds DEF CompiledKeeps
<1>5. ASSUME NEW job \in images.evaluating, EvaluationDone(job) PROVE BeforeTheEnd
  <2>1. PICK m : Ends(m, job) /\ queue' = Posted(queue, m)
    BY <1>5, EvaluationEnds
  <2>2. job.stage \in {"frame", "interframe"}
    BY DEF TypeInv, ImagesType, Jobs, JobType
  <2>3. Aside(m)
    BY <2>1, <2>2, ThreadsAre DEF Ends, Aside, Entries
  <2>4. QueuesRest(queue, queue')
    BY <1>1, <2>1, <2>3, AsidePosted
  <2>5. UNCHANGED <<context, encoder, reports>>
    BY <1>5 DEF EvaluationDone
  <2> QED BY <2>4, <2>5, AtRest, EndAside
<1> QED BY <1>2, <1>3, <1>4, <1>5 DEF ImageProcessor

(* Nothing is on its way at first.                                         *)
LEMMA EndInit ==
    ASSUME Init
    PROVE  EndInv
<1>1. /\ context.sink.buffer = {} /\ context.sink.nextEntry = 0 /\ ~context.sink.finished
      /\ encoder.received = 0 /\ encoder.held = <<>> /\ reports = <<>>
      /\ queue["writer"] = <<>> /\ queue["sink"] = <<>>
  BY DEF Init, Sink!NoContext, Sink!NewEncoder, Thread
<1>2. \A M : ~Has(<<>>, M) /\ Alone(<<>>, M)
  BY DEF Has, Alone
<1>3. Stream(<<>>, Entries, 0, 0, FrameType)
  <2>1. \A M, i : i \in DOMAIN <<>> => <<>>[i] \notin M
    OBVIOUS
  <2> QED BY <2>1, SilentStream
<1>4. LastIsLast(<<>>, <<>>, context.sink, encoder)
  BY <1>1, <1>2 DEF LastIsLast
<1>5. NoneWaits(<<>>, context.sink, encoder)
  BY <1>1, <1>3 DEF NoneWaits
<1>6. AllHanded(<<>>, <<>>, context.sink, context.source)
  BY <1>1, <1>2 DEF AllHanded, LastSent
<1>7. Told(<<>>, context.sink)
  BY DEF Told
<1> QED BY <1>1, <1>4, <1>5, <1>6, <1>7 DEF EndInv

(* The steps by what they have to do with the end.                         *)
LEMMA StepsOfTheEnd ==
    ASSUME TypeInv, FlowInv, ScriptsInv, [Next]_vars
    PROVE  BeforeTheEnd \/ SinkThread \/ WriterThread
<1>1. CASE UNCHANGED vars
  <2>1. UNCHANGED <<context, queue, encoder, reports>>
    BY <1>1 DEF vars
  <2> QED BY <2>1, AsideOn, AtRest, EndAside
<1>2. CASE PipelineThread
  BY <1>2, PipelineThreadEnds
<1>3. CASE SourceThread
  BY <1>3, SourceThreadEnds
<1>4. CASE ProcessorsThread
  BY <1>4, FrameStageEnds, InterStageEnds DEF ProcessorsThread
<1>5. CASE ImageProcessor
  BY <1>5, ImageProcessorEnds
<1>6. CASE Terminated
  BY <1>1, <1>6 DEF Terminated
<1> QED BY <1>1, <1>2, <1>3, <1>4, <1>5, <1>6 DEF Next

(* Every step keeps the invariant.                                         *)
LEMMA EndStep ==
    ASSUME TypeInv, StartInv, FlowInv, ScriptsInv, EndInv, [Next]_vars
    PROVE  EndInv'
<1>1. TypeInv' /\ FlowInv'
  BY TypeStep, FlowStep
<1>2. BeforeTheEnd \/ SinkThread \/ WriterThread
  BY StepsOfTheEnd
<1>3. CASE BeforeTheEnd
  BY <1>3, BeforeTheEndKeeps
<1>4. CASE SinkThread
  BY <1>1, <1>4, SinkThreadEnds
<1>5. CASE WriterThread
  BY <1>5, WriterThreadEnds
<1> QED BY <1>2, <1>3, <1>4, <1>5

(* When the user is told that a file is finished, and when the sink of a   *)
(* stream has finished, everything was written: the source has read its    *)
(* file to the end and handed on all frames but the flush frame, the       *)
(* inter-frame stage has paired them, no evaluation runs, the writer has   *)
(* no frames left, the encoder keeps back none, and no entry waits in the  *)
(* buffer of the sink for an earlier one.                                  *)
THEOREM FinishedCompletely == Spec => []FinishedIsComplete
<1>1. Init => TypeInv /\ StartInv /\ FlowInv /\ ScriptsInv /\ EndInv
  BY TypeInit, StartInit, FlowInit, EndInit
<1>2. TypeInv /\ StartInv /\ FlowInv /\ ScriptsInv /\ EndInv /\ [Next]_vars
          => (TypeInv /\ StartInv /\ FlowInv /\ ScriptsInv /\ EndInv)'
  BY TypeStep, StartStep, FlowStep, EndStep
<1>3. TypeInv /\ FlowInv /\ EndInv => FinishedIsComplete
  BY EndInvComplete
<1> QED BY <1>1, <1>2, <1>3, PTL DEF Spec
-----------------------------------------------------------------------------
(* Part 7: the frame size goes ahead of the frames.                        *)

(* The calls that bring the frame size to a stage: frames that stage s was *)
(* handed are all behind them in its queue.                                *)
Sizes(s) == {m \in AllCalls : m.callee = s /\ m.op = "params"}

Brings(m, s, n) == m \in Deliveries(s) /\ \E k \in DOMAIN m.load : m.load[k].number = n

SizeAhead(q, s, n) ==
    \A j \in DOMAIN q : q[j] \in Sizes(s) =>
        \A k \in 0 .. n - 1 : \E i \in DOMAIN q : j < i /\ Brings(q[i], s, k)

(* The first call goes, other calls come.                                  *)
LEMMA SizeAheadTail ==
    ASSUME NEW q \in Seq(CallType), q # <<>>, NEW s, NEW n, SizeAhead(q, s, n)
    PROVE  /\ SizeAhead(Tail(q), s, n)
           /\ Head(q) \in Sizes(s) => 0 .. n - 1 \subseteq Carried(q, Deliveries(s))
<1> DEFINE r == Tail(q)
<1>1. /\ Len(q) \in Nat \ {0} /\ DOMAIN q = 1 .. Len(q) /\ 1 \in DOMAIN q /\ q[1] = Head(q)
      /\ DOMAIN r = 1 .. Len(q) - 1
      /\ \A i \in DOMAIN r : i + 1 \in DOMAIN q /\ r[i] = q[i + 1]
      /\ \A i \in DOMAIN q : i # 1 => i - 1 \in DOMAIN r /\ r[i - 1] = q[i]
  BY TailPlaces
<1> HIDE DEF r
<1>2. ASSUME NEW j \in DOMAIN r, r[j] \in Sizes(s), NEW k \in 0 .. n - 1
      PROVE  \E i \in DOMAIN r : j < i /\ Brings(r[i], s, k)
  <2>1. j + 1 \in DOMAIN q /\ q[j + 1] \in Sizes(s) /\ j \in Nat \ {0}
    BY <1>1, <1>2
  <2>2. PICK i \in DOMAIN q : j + 1 < i /\ Brings(q[i], s, k)
    BY <1>2, <2>1 DEF SizeAhead
  <2>3. i # 1 /\ j < i - 1 /\ i - 1 \in DOMAIN r /\ r[i - 1] = q[i]
    BY <1>1, <2>1, <2>2
  <2> QED BY <2>2, <2>3
<1>3. ASSUME Head(q) \in Sizes(s), NEW k \in 0 .. n - 1 PROVE k \in Carried(q, Deliveries(s))
  <2>1. PICK i \in DOMAIN q : Brings(q[i], s, k)
    BY <1>1, <1>3 DEF SizeAhead
  <2> QED BY <2>1 DEF Brings, Carried
<1> QED BY <1>2, <1>3 DEF SizeAhead, r

LEMMA SizeAheadConcat ==
    ASSUME NEW a \in Seq(CallType), NEW b \in Seq(CallType), NEW s, NEW n \in Int, NEW m \in Int,
           SizeAhead(a, s, n), \A i \in DOMAIN b : b[i] \notin Sizes(s),
           n .. m - 1 \subseteq Carried(b, Deliveries(s))
    PROVE  SizeAhead(a \o b, s, m)
<1> DEFINE q == a \o b
           l == Len(a)
<1>1. /\ l \in Nat /\ DOMAIN a = 1 .. l /\ DOMAIN b = 1 .. Len(b) /\ Len(b) \in Nat
      /\ DOMAIN q = 1 .. l + Len(b)
      /\ \A i \in 1 .. l : q[i] = a[i]
      /\ \A i \in 1 .. Len(b) : q[l + i] = b[i]
      /\ \A i \in DOMAIN q : \/ i \in DOMAIN a /\ q[i] = a[i]
                             \/ i - l \in DOMAIN b /\ q[i] = b[i - l]
  BY ConcatPlaces
<1> HIDE DEF q, l
<1>2. ASSUME NEW j \in DOMAIN q, q[j] \in Sizes(s), NEW k \in 0 .. m - 1
      PROVE  \E i \in DOMAIN q : j < i /\ Brings(q[i], s, k)
  <2>1. j \in DOMAIN a /\ a[j] \in Sizes(s)
    BY <1>1, <1>2
  <2>2. CASE k < n
    <3>1. k \in 0 .. n - 1
      BY <2>2
    <3>2. PICK i \in DOMAIN a : j < i /\ Brings(a[i], s, k)
      BY <2>1, <3>1 DEF SizeAhead
    <3>3. i \in DOMAIN q /\ q[i] = a[i]
      BY <1>1
    <3> QED BY <3>2, <3>3
  <2>3. CASE n <= k
    <3>1. k \in Carried(b, Deliveries(s))
      BY <2>3
    <3>2. PICK i \in DOMAIN b : Brings(b[i], s, k)
      BY <3>1 DEF Carried, Brings
    <3>3. l + i \in DOMAIN q /\ q[l + i] = b[i] /\ j < l + i
      BY <1>1, <2>1
    <3> QED BY <3>2, <3>3
  <2> QED BY <2>2, <2>3
<1> QED BY <1>2 DEF SizeAhead, q

(* No frames were handed over, or the queue brings no frame size.          *)
LEMMA SizeAheadNone ==
    ASSUME NEW s
    PROVE  /\ \A q : SizeAhead(q, s, 0)
           /\ \A n : SizeAhead(<<>>, s, n)
BY DEF SizeAhead

(* What happens to a queue that gets no frame size.                        *)
NoSize(q, r, s) == \A n \in Int : SizeAhead(q, s, n) => SizeAhead(r, s, n)

LEMMA NoSizeOn ==
    ASSUME NEW s
    PROVE  /\ \A q : NoSize(q, q, s)
           /\ \A q, r, t : NoSize(q, r, s) /\ NoSize(r, t, s) => NoSize(q, t, s)
           /\ \A q \in Seq(CallType) : q # <<>> => NoSize(q, Tail(q), s)
           /\ \A q \in Seq(CallType), e \in Seq(CallType) :
                 (\A i \in DOMAIN e : e[i] \notin Sizes(s)) => NoSize(q, q \o e, s)
           /\ \A q \in Seq(CallType), m \in CallType : m \notin Sizes(s) => NoSize(q, Append(q, m), s)
<1>1. ASSUME NEW q \in Seq(CallType), q # <<>> PROVE NoSize(q, Tail(q), s)
  BY <1>1, SizeAheadTail DEF NoSize
<1>2. ASSUME NEW q \in Seq(CallType), NEW e \in Seq(CallType), \A i \in DOMAIN e : e[i] \notin Sizes(s)
      PROVE  NoSize(q, q \o e, s)
  <2> SUFFICES ASSUME NEW n \in Int, SizeAhead(q, s, n) PROVE SizeAhead(q \o e, s, n)
    BY DEF NoSize
  <2>1. n .. n - 1 \subseteq Carried(e, Deliveries(s))
    OBVIOUS
  <2> QED BY <1>2, <2>1, SizeAheadConcat
<1>3. ASSUME NEW q \in Seq(CallType), NEW m \in CallType, m \notin Sizes(s)
      PROVE  NoSize(q, Append(q, m), s)
  <2>1. <<m>> \in Seq(CallType) /\ DOMAIN <<m>> = {1} /\ <<m>>[1] = m /\ Append(q, m) = q \o <<m>>
    BY OneMoreCall
  <2>2. NoSize(q, q \o <<m>>, s)
    BY <1>2, <1>3, <2>1
  <2> QED BY <2>1, <2>2
<1>4. (\A q : NoSize(q, q, s)) /\ \A q, r, t : NoSize(q, r, s) /\ NoSize(r, t, s) => NoSize(q, t, s)
  BY DEF NoSize
<1> QED BY <1>1, <1>2, <1>3, <1>4
-----------------------------------------------------------------------------
(* The stages that are connected: the first one hands frames to the other. *)
Links == {<<"source", "frame">>, <<"frame", "interframe">>, <<"interframe", "sink">>}

SizesFirst == \A l \in Links : SizeAhead(queue[ThreadOf(l[2])], l[2], Handed(context[l[1]].sdh))

LEMMA LinksAre ==
    ASSUME NEW l \in Links
    PROVE  /\ l[1] \in Stage /\ l[2] \in Stage /\ ThreadOf(l[2]) \in Thread
           /\ \/ l[1] = "source" /\ l[2] = "frame" /\ ThreadOf(l[2]) = "processors"
              \/ l[1] = "frame" /\ l[2] = "interframe" /\ ThreadOf(l[2]) = "processors"
              \/ l[1] = "interframe" /\ l[2] = "sink" /\ ThreadOf(l[2]) = "sink"
<1>1. l = <<"source", "frame">> \/ l = <<"frame", "interframe">> \/ l = <<"interframe", "sink">>
  BY DEF Links
<1>2. \/ l[1] = "source" /\ l[2] = "frame"
      \/ l[1] = "frame" /\ l[2] = "interframe"
      \/ l[1] = "interframe" /\ l[2] = "sink"
  BY <1>1
<1> QED BY <1>2, ThreadsAre DEF Stage

(* What the stages handed on is a number.                                  *)
LEMMA HandedNumbers ==
    ASSUME FlowInv
    PROVE  \A s \in Stage : Handed(context[s].sdh) \in Nat
<1>1. /\ SourceFlow(video, context.source)
      /\ Settled(context.frame.sdh, Passing(End(context.source)))
      /\ Settled(context.interframe.sdh, Pairs(End(context.source)))
      /\ Settled(context.sink.sdh, Pairs(End(context.source)))
  BY HandlersSettled DEF FlowInv
<1>2. Settled(context.source.sdh, Passing(FlushPlace(context.source)))
  BY <1>1 DEF SourceFlow
<1>3. \A A, h : Settled(h, A) => Handed(h) \in Nat
  BY HandedTyped DEF Settled
<1>4. /\ Handed(context["source"].sdh) \in Nat /\ Handed(context["frame"].sdh) \in Nat
      /\ Handed(context["interframe"].sdh) \in Nat /\ Handed(context["sink"].sdh) \in Nat
  BY <1>1, <1>2, <1>3
<1> QED BY <1>4 DEF Stage

(* The frame size finds a stage that has taken nothing yet.                *)
LEMMA SizeFindsNothing ==
    ASSUME TypeInv, FlowInv, SizesFirst, NEW s \in {"frame", "interframe", "sink"}, Calls(s, "params")
    PROVE  Seen(context[s].sdh) = {}
<1> DEFINE z == End(context.source)
           q == queue[ThreadOf(s)]
<1>1. /\ s \in Stage /\ ThreadOf(s) \in Thread /\ Job(s) \in Sizes(s) /\ Job(s) = Head(q) /\ q # <<>>
  BY JobOfStage, ThreadsAre DEF Stage, Sizes, Calls, Job
<1>2. q \in Seq(CallType)
  BY <1>1, QueueCalls, CallsTyped DEF TypeInv
<1>3. /\ FrameFlow(queue["processors"], Handed(context.source.sdh), Pending({}, "frame"), context.frame.sdh, z)
      /\ InterFlow(queue["processors"], Handed(context.frame.sdh), Pending({}, "interframe"), context.interframe, z)
      /\ SinkFlow(queue["sink"], Handed(context.interframe.sdh), context.sink.sdh, z)
  BY FlowParts DEF FramePart, InterPart, SinkPart, FlowInv
<1>4. ASSUME NEW m, SizeAhead(q, s, m), NEW r, NEW A, Stream(q, Deliveries(s), r, m, A) PROVE r = 0
  <2>1. 0 .. m - 1 \subseteq Carried(q, Deliveries(s))
    BY <1>1, <1>2, <1>4, SizeAheadTail
  <2>2. 0 .. m - 1 \subseteq r .. m - 1 /\ r \in Nat /\ m \in Nat /\ r <= m
    BY <1>4, <2>1 DEF Stream
  <2>3. m # 0 => 0 \in 0 .. m - 1
    BY <2>2
  <2>4. m # 0 => 0 \in r .. m - 1
    BY <2>2, <2>3
  <2> QED BY <2>2, <2>4
<1>5. 0 .. 0 - 1 = {} /\ 0 .. (0 - 1) - 1 = {}
  OBVIOUS
<1>6. CASE s = "frame"
  <2>1. <<"source", "frame">> \in Links
    BY DEF Links
  <2>2. SizeAhead(q, s, Handed(context.source.sdh)) /\ q = queue["processors"]
    BY <1>6, <2>1, ThreadsAre DEF SizesFirst
  <2> HIDE DEF z, q
  <2>3. PICK r \in Nat : /\ Stream(q, Deliveries(s), r, Handed(context.source.sdh), Passing(z))
                         /\ Working(q, "frame", Pending({}, "frame"), context.frame.sdh, Passing(z), r)
    BY <1>3, <1>6, <2>2 DEF FrameFlow
  <2>4. r = 0
    BY <1>4, <2>2, <2>3
  <2>5. Seen(context.frame.sdh) \subseteq 0 .. 0 - 1
    BY <2>3, <2>4 DEF Working, Balanced
  <2> QED BY <1>5, <1>6, <2>5
<1>7. CASE s = "interframe"
  <2>1. <<"frame", "interframe">> \in Links
    BY DEF Links
  <2>2. SizeAhead(q, s, Handed(context.frame.sdh)) /\ q = queue["processors"]
    BY <1>7, <2>1, ThreadsAre DEF SizesFirst
  <2> HIDE DEF z, q
  <2>3. PICK r \in Nat : /\ Stream(q, Deliveries(s), r, Handed(context.frame.sdh), Passing(z))
                         /\ Working(q, "interframe", Pending({}, "interframe"), context.interframe.sdh, Pairs(z), r - 1)
    BY <1>3, <1>7, <2>2 DEF InterFlow
  <2>4. r = 0
    BY <1>4, <2>2, <2>3
  <2>5. Seen(context.interframe.sdh) \subseteq 0 .. (0 - 1) - 1
    BY <2>3, <2>4 DEF Working, Balanced
  <2> QED BY <1>5, <1>7, <2>5
<1>8. CASE s = "sink"
  <2>1. <<"interframe", "sink">> \in Links
    BY DEF Links
  <2>2. SizeAhead(q, s, Handed(context.interframe.sdh)) /\ q = queue["sink"]
    BY <1>8, <2>1, ThreadsAre DEF SizesFirst
  <2> HIDE DEF z, q
  <2>3. PICK r \in Nat : /\ Stream(q, Deliveries(s), r, Handed(context.interframe.sdh), Pairs(z))
                         /\ Seen(context.sink.sdh) = 0 .. r - 1
    BY <1>3, <1>8, <2>2 DEF SinkFlow
  <2>4. r = 0
    BY <1>4, <2>2, <2>3
  <2> QED BY <1>5, <1>8, <2>3, <2>4
<1> QED BY <1>6, <1>7, <1>8

(* A handler that has seen nothing has handed nothing on.                  *)
LEMMA NothingSeen ==
    ASSUME NEW h, Seen(h) = {}, Handed(h) \in Nat, h.next \in Nat, h.out \in Seq(FrameType)
    PROVE  Handed(h) = 0
<1>1. 0 .. h.next - 1 = {}
  BY DEF Seen
<1>2. h.next = 0
  <2>1. h.next # 0 => 0 \in 0 .. h.next - 1
    OBVIOUS
  <2> QED BY <1>1, <2>1
<1>3. Len(h.out) \in Nat
  OBVIOUS
<1> QED BY <1>2, <1>3 DEF Handed

(* A job of stage s, which ended with the context f.                       *)
LEMMA HandledSizes ==
    ASSUME TypeInv, FlowInv, SizesFirst, NEW s \in Stage, NEW op, Calls(s, op), NEW f, Handled(s, f),
           f.eff.calls \in Queues(AllCalls), Forgets(f).sdh = f.sdh,
           \A l \in Links :
              LET e == f.eff.calls[ThreadOf(l[2])]
              IN  \/ l[1] = s /\ Handed(f.sdh) = 0
                  \/ /\ \A i \in DOMAIN e : e[i] \notin Sizes(l[2])
                     /\ l[1] = s => HandsOn(context[s], f, e, l[2])
    PROVE  SizesFirst'
<1> SUFFICES ASSUME NEW l \in Links
             PROVE  SizeAhead(queue'[ThreadOf(l[2])], l[2], Handed(context'[l[1]].sdh))
  BY DEF SizesFirst
<1> DEFINE t == ThreadOf(l[2])
           e == f.eff.calls[t]
           d == Dequeued(s)[t]
           n == Handed(context[l[1]].sdh)
           m == Handed(context'[l[1]].sdh)
<1>1. l[1] \in Stage /\ t \in Thread
  BY LinksAre
<1>2. /\ d \in Seq(CallType) /\ e \in Seq(CallType) /\ queue'[t] = d \o e
      /\ t = ThreadOf(s) => /\ queue[t] \in Seq(CallType) /\ queue[t] # <<>> /\ d = Tail(queue[t])
  BY <1>1, HandledQueues
<1>3. t # ThreadOf(s) => d = queue[t]
  <2>1. queue \in [Thread -> Seq(CallType)]
    BY DEF TypeInv, Queues
  <2> QED BY <1>1, <2>1 DEF Dequeued
<1>4. n \in Nat /\ SizeAhead(queue[t], l[2], n)
  BY <1>1, HandedNumbers DEF SizesFirst
<1>5. SizeAhead(d, l[2], n)
  BY <1>2, <1>3, <1>4, SizeAheadTail
<1>6. /\ context'[s] = Forgets(f)
      /\ \A r \in Stage : r # s => context'[r] = context[r]
  BY HandledIs DEF Forgets
<1>7. CASE l[1] = s /\ Handed(f.sdh) = 0
  <2>1. m = 0
    BY <1>6, <1>7
  <2> QED BY <2>1, SizeAheadNone
<1>8. CASE (\A i \in DOMAIN e : e[i] \notin Sizes(l[2])) /\ (l[1] = s => HandsOn(context[s], f, e, l[2]))
  <2>1. CASE l[1] = s
    <3>1. m = Handed(f.sdh)
      BY <1>6, <2>1
    <3>2. m \in Nat /\ Carried(e, Deliveries(l[2])) = n .. m - 1
      BY <1>8, <2>1, <3>1 DEF HandsOn
    <3> HIDE DEF d, e, m, n, t
    <3>3. SizeAhead(d \o e, l[2], m)
      BY <1>2, <1>4, <1>5, <1>8, <3>2, SizeAheadConcat
    <3> QED BY <1>2, <3>3 DEF m, t
  <2>2. CASE l[1] # s
    <3>1. m = n
      BY <1>1, <1>6, <2>2
    <3>2. NoSize(d, d \o e, l[2])
      BY <1>2, <1>8, NoSizeOn
    <3>3. SizeAhead(d \o e, l[2], n)
      BY <1>4, <1>5, <3>2 DEF NoSize
    <3> QED BY <1>2, <3>1, <3>3
  <2> QED BY <2>1, <2>2
<1> QED BY <1>7, <1>8
-----------------------------------------------------------------------------
(* What the jobs of the frame stage hand on and report.                    *)
FrameJob(op, f) ==
    /\ Calls("frame", op) /\ Handled("frame", f) /\ f \in FrameContext(BOOLEAN, TRUE)
    /\ HandsOn(context.frame, f, f.eff.calls["processors"], "interframe")
    /\ IF op = "params" THEN Seen(f.sdh) = Seen(context.frame.sdh) ELSE \A t \in Thread : Mute(f.eff.calls[t])
    /\ f.eff.report = "none" \/ (f.eff.report = "failed" /\ op = "failed")

LEMMA FrameJobs ==
    ASSUME TypeInv, StartInv, FlowInv, ScriptsInv,
           \/ FrameInit \/ FrameParams \/ FrameStart \/ FrameFinish
           \/ FrameProcess \/ FrameNext \/ FrameEvaluated \/ FrameEvaluationFailed
    PROVE  \E op, f : FrameJob(op, f)
<1> DEFINE c == context.frame
           A == Passing(End(context.source))
<1>1. /\ c \in FrameContext(BOOLEAN, TRUE) /\ c.eff = NoEffects /\ "frame" \in Stage
      /\ Settled(c.sdh, A) /\ A \in SUBSET FrameType /\ FlowWith({})
  BY ContextsTyped, HandlersSettled DEF FlowInv, Stage
<1> HIDE DEF A
<1>2. /\ c.eff.report = "none" /\ \A t \in Thread : Mute(c.eff.calls[t])
      /\ \A f : Silently(c, f) => f.eff.report = "none" /\ \A t \in Thread : Mute(f.eff.calls[t])
  BY <1>1, MuteAtFirst
<1>3. /\ FrameDone(c, FrameStage!Init(c), A, "none")
      /\ FrameDone(c, FrameStage!Params(c), A, "none")
      /\ FrameDone(c, FrameStage!Start(c), A, "none")
      /\ FrameDone(c, FrameStage!Finish(c), A, "none")
      /\ \A n \in 0 .. MaxOut : FrameDone(c, FrameStage!Next(c, n), A, "none")
      /\ FrameDone(c, FrameStage!EvaluationFailed(c), A, "failed")
  BY <1>1, FrameJobsDone
<1>4. ASSUME NEW f, NEW report, FrameDone(c, f, A, report)
      PROVE  /\ f \in FrameContext(BOOLEAN, TRUE) /\ Seen(f.sdh) = Seen(c.sdh) /\ f.eff.report = report
             /\ HandsOn(c, f, f.eff.calls["processors"], "interframe")
  BY <1>4 DEF FrameDone, HandsOn, Stream
<1>5. ASSUME NEW op, Calls("frame", op), NEW f, Handled("frame", f), FrameDone(c, f, A, "none"), Silently(c, f)
      PROVE  FrameJob(op, f)
  BY <1>2, <1>4, <1>5 DEF FrameJob
<1> HIDE DEF c
<1>6. CASE FrameInit
  <2>1. Calls("frame", "init") /\ Handled("frame", FrameStage!Init(c))
    BY <1>6 DEF FrameInit, c
  <2> QED BY <1>1, <1>3, <1>5, <2>1, FrameJobsSilent
<1>7. CASE FrameParams
  <2> DEFINE f == FrameStage!Params(c)
  <2>1. Calls("frame", "params") /\ Handled("frame", f)
    BY <1>7 DEF FrameParams, c
  <2>2. FrameDone(c, f, A, "none")
    BY <1>3
  <2> HIDE DEF f
  <2>3. /\ f \in FrameContext(BOOLEAN, TRUE) /\ Seen(f.sdh) = Seen(c.sdh) /\ f.eff.report = "none"
        /\ HandsOn(c, f, f.eff.calls["processors"], "interframe")
    BY <1>4, <2>2
  <2>4. FrameJob("params", f)
    BY <2>1, <2>3 DEF FrameJob, c
  <2> QED BY <2>4
<1>8. CASE FrameStart
  <2>1. Calls("frame", "start") /\ Handled("frame", FrameStage!Start(c))
    BY <1>8 DEF FrameStart, c
  <2> QED BY <1>1, <1>3, <1>5, <2>1, FrameJobsSilent
<1>9. CASE FrameFinish
  <2>1. Calls("frame", "finish") /\ Handled("frame", FrameStage!Finish(c))
    BY <1>9 DEF FrameFinish, c
  <2> QED BY <1>1, <1>3, <1>5, <2>1, FrameJobsSilent
<1>10. CASE FrameNext
  <2>1. Calls("frame", "next") /\ Handled("frame", FrameStage!Next(c, Job("frame").amount))
    BY <1>10 DEF FrameNext, c
  <2>2. Job("frame").amount \in 0 .. MaxOut
    BY <2>1, AskedAmounts
  <2> QED BY <1>1, <1>3, <1>5, <2>1, <2>2, FrameJobsSilent
<1>11. CASE FrameEvaluationFailed
  <2> DEFINE f == FrameStage!EvaluationFailed(c)
  <2>1. Calls("frame", "failed") /\ Handled("frame", f)
    BY <1>11 DEF FrameEvaluationFailed, c
  <2>2. FrameDone(c, f, A, "failed") /\ f.eff.calls = c.eff.calls
    BY <1>1, <1>3, FrameJobsSilent
  <2> HIDE DEF f
  <2>3. FrameJob("failed", f)
    BY <1>2, <1>4, <2>1, <2>2 DEF FrameJob, c
  <2> QED BY <2>3
<1>12. ASSUME NEW op, Calls("frame", op)
       PROVE  /\ Job("frame").load \in Seq(FrameType)
              /\ op = "evaluated" => Job("frame").load[1] \in FrameType
  <2>1. Made("frame", op, Job("frame").amount, Job("frame").load) /\ Job("frame").load \in Seq(FrameType)
    BY <1>1, <1>12, JobOfStage
  <2>2. op = "evaluated" => Len(Job("frame").load) = 1
    BY <2>1 DEF Made, Stage
  <2> QED BY <2>1, <2>2
<1>13. CASE FrameProcess
  <2> DEFINE load == Job("frame").load
             f == FrameStage!Process(c, load)
  <2>1. Calls("frame", "process") /\ Handled("frame", f)
    BY <1>13 DEF FrameProcess, c
  <2>2. load \in Seq(FrameType)
    BY <1>12, <2>1
  <2>3. HandsOn(c, f, f.eff.calls["processors"], "interframe")
    BY <1>1, <1>13, FrameProcessFlows DEF c
  <2>4. f \in FrameContext(BOOLEAN, TRUE) /\ Silently(c, f)
    BY <1>1, <2>2, FrameProcessTyped, FrameJobsSilent
  <2> HIDE DEF f
  <2>5. FrameJob("process", f)
    BY <1>2, <2>1, <2>3, <2>4 DEF FrameJob, c
  <2> QED BY <2>5
<1>14. CASE FrameEvaluated
  <2> DEFINE x == Job("frame").load[1]
             f == FrameStage!Evaluated(c, x)
  <2>1. Calls("frame", "evaluated") /\ Handled("frame", f)
    BY <1>14 DEF FrameEvaluated, c
  <2>2. x \in FrameType
    BY <1>12, <2>1
  <2>3. HandsOn(c, f, f.eff.calls["processors"], "interframe")
    BY <1>1, <1>14, FrameEvaluatedFlows DEF c
  <2>4. f \in FrameContext(BOOLEAN, TRUE) /\ Silently(c, f)
    BY <1>1, <2>2, FrameStepsTyped, FrameJobsSilent
  <2> HIDE DEF f
  <2>5. FrameJob("evaluated", f)
    BY <1>2, <2>1, <2>3, <2>4 DEF FrameJob, c
  <2> QED BY <2>5
<1> QED BY <1>6, <1>7, <1>8, <1>9, <1>10, <1>11, <1>13, <1>14

(* What the jobs of the inter-frame stage hand on and report.              *)
InterJob(op, f) ==
    /\ Calls("interframe", op) /\ Handled("interframe", f) /\ f \in InterContext(BOOLEAN, TRUE)
    /\ HandsOn(context.interframe, f, f.eff.calls["sink"], "sink")
    /\ IF op = "params" THEN Seen(f.sdh) = Seen(context.interframe.sdh) ELSE \A t \in Thread : Mute(f.eff.calls[t])
    /\ f.eff.report = "none" \/ (f.eff.report = "failed" /\ op = "failed")

LEMMA InterJobs ==
    ASSUME TypeInv, StartInv, FlowInv, ScriptsInv,
           \/ InterframeInit \/ InterframeParams \/ InterframeStart
           \/ InterframeProcess \/ InterframeNext
           \/ InterframeEvaluated \/ InterframeEvaluationFailed
    PROVE  \E op, f : InterJob(op, f)
<1> DEFINE c == context.interframe
           A == Pairs(End(context.source))
<1>1. /\ c \in InterContext(BOOLEAN, TRUE) /\ c.eff = NoEffects /\ "interframe" \in Stage
      /\ Settled(c.sdh, A) /\ A \in SUBSET FrameType /\ FlowWith({})
  BY ContextsTyped, HandlersSettled DEF FlowInv, Stage
<1> HIDE DEF A
<1>2. /\ c.eff.report = "none" /\ \A t \in Thread : Mute(c.eff.calls[t])
      /\ \A f : Silently(c, f) => f.eff.report = "none" /\ \A t \in Thread : Mute(f.eff.calls[t])
  BY <1>1, MuteAtFirst
<1>3. /\ InterDone(c, InterStage!Common!Init(c), A, "none")
      /\ InterDone(c, InterStage!Common!Params(c), A, "none")
      /\ InterDone(c, InterStage!Common!Start(c), A, "none")
      /\ \A n \in 0 .. MaxWrite : InterDone(c, InterStage!Common!Next(c, n), A, "none")
      /\ InterDone(c, InterStage!Common!EvaluationFailed(c), A, "failed")
  BY <1>1, InterJobsDone
<1>4. ASSUME NEW f, NEW report, InterDone(c, f, A, report)
      PROVE  /\ f \in InterContext(BOOLEAN, TRUE) /\ Seen(f.sdh) = Seen(c.sdh) /\ f.eff.report = report
             /\ HandsOn(c, f, f.eff.calls["sink"], "sink")
  BY <1>4 DEF InterDone, HandsOn, Stream
<1>5. ASSUME NEW op, Calls("interframe", op), NEW f, Handled("interframe", f), InterDone(c, f, A, "none"), Silently(c, f)
      PROVE  InterJob(op, f)
  BY <1>2, <1>4, <1>5 DEF InterJob
<1> HIDE DEF c
<1>6. CASE InterframeInit
  <2>1. Calls("interframe", "init") /\ Handled("interframe", InterStage!Common!Init(c))
    BY <1>6, InterStageIs DEF InterframeInit, c
  <2> QED BY <1>1, <1>3, <1>5, <2>1, InterJobsSilent
<1>7. CASE InterframeParams
  <2> DEFINE f == InterStage!Common!Params(c)
  <2>1. Calls("interframe", "params") /\ Handled("interframe", f)
    BY <1>7, InterStageIs DEF InterframeParams, c
  <2>2. InterDone(c, f, A, "none")
    BY <1>3
  <2> HIDE DEF f
  <2>3. /\ f \in InterContext(BOOLEAN, TRUE) /\ Seen(f.sdh) = Seen(c.sdh) /\ f.eff.report = "none"
        /\ HandsOn(c, f, f.eff.calls["sink"], "sink")
    BY <1>4, <2>2
  <2>4. InterJob("params", f)
    BY <2>1, <2>3 DEF InterJob, c
  <2> QED BY <2>4
<1>8. CASE InterframeStart
  <2>1. Calls("interframe", "start") /\ Handled("interframe", InterStage!Common!Start(c))
    BY <1>8, InterStageIs DEF InterframeStart, c
  <2> QED BY <1>1, <1>3, <1>5, <2>1, InterJobsSilent
<1>10. CASE InterframeNext
  <2>1. Calls("interframe", "next") /\ Handled("interframe", InterStage!Common!Next(c, Job("interframe").amount))
    BY <1>10, InterStageIs DEF InterframeNext, c
  <2>2. Job("interframe").amount \in 0 .. MaxWrite
    BY <2>1, AskedAmounts
  <2> QED BY <1>1, <1>3, <1>5, <2>1, <2>2, InterJobsSilent
<1>11. CASE InterframeEvaluationFailed
  <2> DEFINE f == InterStage!Common!EvaluationFailed(c)
  <2>1. Calls("interframe", "failed") /\ Handled("interframe", f)
    BY <1>11, InterStageIs DEF InterframeEvaluationFailed, c
  <2>2. InterDone(c, f, A, "failed") /\ f.eff.calls = c.eff.calls
    BY <1>1, <1>3, InterJobsSilent
  <2> HIDE DEF f
  <2>3. InterJob("failed", f)
    BY <1>2, <1>4, <2>1, <2>2 DEF InterJob, c
  <2> QED BY <2>3
<1>12. ASSUME NEW op, Calls("interframe", op)
       PROVE  /\ Job("interframe").load \in Seq(FrameType)
              /\ op = "evaluated" => Job("interframe").load[1] \in FrameType
  <2>1. Made("interframe", op, Job("interframe").amount, Job("interframe").load) /\ Job("interframe").load \in Seq(FrameType)
    BY <1>1, <1>12, JobOfStage
  <2>2. op = "evaluated" => Len(Job("interframe").load) = 1
    BY <2>1 DEF Made, Stage
  <2> QED BY <2>1, <2>2
<1>13. CASE InterframeProcess
  <2> DEFINE load == Job("interframe").load
             f == InterStage!Process(c, load)
  <2>1. Calls("interframe", "process") /\ Handled("interframe", f)
    BY <1>13, InterStageIs DEF InterframeProcess, c
  <2>2. load \in Seq(FrameType)
    BY <1>12, <2>1
  <2>3. HandsOn(c, f, f.eff.calls["sink"], "sink")
    BY <1>1, <1>13, InterProcessFlows DEF c
  <2>4. f \in InterContext(BOOLEAN, TRUE) /\ Silently(c, f)
    BY <1>1, <2>2, InterProcessTyped, InterJobsSilent
  <2> HIDE DEF f
  <2>5. InterJob("process", f)
    BY <1>2, <2>1, <2>3, <2>4 DEF InterJob, c
  <2> QED BY <2>5
<1>14. CASE InterframeEvaluated
  <2> DEFINE x == Job("interframe").load[1]
             f == InterStage!Common!Evaluated(c, x)
  <2>1. Calls("interframe", "evaluated") /\ Handled("interframe", f)
    BY <1>14, InterStageIs DEF InterframeEvaluated, c
  <2>2. x \in FrameType
    BY <1>12, <2>1
  <2>3. HandsOn(c, f, f.eff.calls["sink"], "sink")
    BY <1>1, <1>14, InterEvaluatedFlows DEF c
  <2>4. f \in InterContext(BOOLEAN, TRUE) /\ Silently(c, f)
    BY <1>1, <2>2, InterStepsTyped, InterJobsSilent
  <2> HIDE DEF f
  <2>5. InterJob("evaluated", f)
    BY <1>2, <2>1, <2>3, <2>4 DEF InterJob, c
  <2> QED BY <2>5
<1> QED BY <1>6, <1>7, <1>8, <1>10, <1>11, <1>13, <1>14
-----------------------------------------------------------------------------
(* What the jobs of the source hand on and say.                            *)
SourceJob(op, f) ==
    /\ Calls("source", op) /\ Handled("source", f) /\ f \in SourceContext(video, BOOLEAN, TRUE)
    /\ HandsOn(context.source, f, f.eff.calls["processors"], "frame")
    /\ \/ op = "init" /\ \E opened \in BOOLEAN : SourceBegins(context.source, opened, f)
       \/ op # "init" /\ SourceSays(video, context.source, f)

LEMMA SourceJobs ==
    ASSUME TypeInv, FlowInv, SourceThread
    PROVE  \E op, f : SourceJob(op, f)
<1> DEFINE c == context.source
<1>1. /\ video \in Videos /\ c \in SourceContext(video, BOOLEAN, TRUE) /\ c.eff = NoEffects
      /\ SourceFlow(video, c)
  BY ContextsTyped, HandlersSettled DEF FlowInv
<1>2. ASSUME NEW f, SourceDone(video, c, f)
      PROVE  f \in SourceContext(video, BOOLEAN, TRUE) /\ HandsOn(c, f, f.eff.calls["processors"], "frame")
  <2>1. Settled(f.sdh, Passing(FlushPlace(f)))
    BY <1>2 DEF SourceDone, SourceFlow
  <2>2. Handed(f.sdh) \in Nat
    BY <2>1, HandedTyped DEF Settled
  <2> QED BY <1>2, <2>2 DEF SourceDone, HandsOn, Stream
<1> HIDE DEF c
<1>3. CASE SourceInit
  <2>1. Calls("source", "init")
    BY <1>3 DEF SourceInit
  <2>2. PICK opened \in BOOLEAN : Handled("source", Source!Init(c, opened))
    BY <1>3, RtspIs DEF SourceInit, c
  <2> DEFINE f == Source!Init(c, opened)
  <2>3. SourceDone(video, c, f) /\ SourceBegins(c, opened, f) /\ Handled("source", f)
    BY <1>1, <2>2, SourceInitDone, SourceInitSays
  <2> HIDE DEF f
  <2>4. SourceJob("init", f)
    BY <1>2, <2>1, <2>3 DEF SourceJob, c
  <2> QED BY <2>4
<1>4. CASE SourceStart
  <2> DEFINE f == Source!Start(c, video)
  <2>1. Calls("source", "start") /\ Handled("source", f)
    BY <1>4, RtspIs DEF SourceStart, c
  <2>2. SourceDone(video, c, f) /\ SourceSays(video, c, f)
    BY <1>1, SourceStartDone, SourceStartSays
  <2> HIDE DEF f
  <2>3. SourceJob("start", f)
    BY <1>2, <2>1, <2>2 DEF SourceJob, c
  <2> QED BY <2>3
<1>5. CASE SourceNext
  <2> DEFINE n == Job("source").amount
             f == Source!Next(c, n)
  <2>1. Calls("source", "next") /\ Handled("source", f)
    BY <1>5, RtspIs DEF SourceNext, c
  <2>2. n \in 0 .. MaxOut
    BY <2>1, AskedAmounts
  <2>3. SourceDone(video, c, f) /\ SourceSays(video, c, f)
    BY <1>1, <2>2, SourceNextDone, SourceNextSays
  <2> HIDE DEF f
  <2>4. SourceJob("next", f)
    BY <1>2, <2>1, <2>3 DEF SourceJob, c
  <2> QED BY <2>4
<1> QED BY <1>3, <1>4, <1>5 DEF SourceThread

(* And those of the sink.                                                  *)
SinkJob(op, f) ==
    /\ Calls("sink", op) /\ Handled("sink", f) /\ f \in SinkContext(BOOLEAN)
    /\ f.codecOpen => context.sink.codecOpen \/ op = "params"
    /\ f.eff.report = "failed" => op = "writeFailed"
    /\ SinkHands(context.sink, f, Pairs(End(context.source)))

LEMMA SinkJobs ==
    ASSUME TypeInv, FlowInv, EndInv, SinkThread
    PROVE  \E op, f : SinkJob(op, f)
<1> DEFINE c == context.sink
<1>1. c \in SinkContext(BOOLEAN) /\ c.eff = NoEffects
  BY ContextsTyped
<1>0. context.sink.buffer = {} /\ Stream(queue["sink"], Entries, context.sink.nextEntry, encoder.received, FrameType)
  BY DEF EndInv, NoneWaits
<1> HIDE DEF c
<1>2. CASE SinkInit \/ SinkParams \/ SinkStart \/ SinkProcess \/ SinkWriteFailed
  <2>1. PICK op, f : SinkPasses(op, f)
    BY <1>2, SinkPassingJobs
  <2>2. SinkJob(op, f)
    BY <2>1 DEF SinkPasses, SinkPassing, SinkJob
  <2> QED BY <2>2
<1>3. ASSUME NEW load, NEW y, EntriesWritten(c, Sink!FlushBuffer(c, load), load, y)
      PROVE  LET g == Sink!FlushBuffer(c, load)
             IN  g \in SinkContext(BOOLEAN) /\ g.codecOpen = c.codecOpen /\ g.sdh = c.sdh /\ g.eff = c.eff
  BY <1>3 DEF EntriesWritten
<1>4. CASE SinkFramesWritten
  <2> DEFINE load == Job("sink").load
             g == Sink!FlushBuffer(c, load)
             f == Sink!FramesWritten(c, load)
  <2>1. Calls("sink", "framesWritten") /\ Handled("sink", f) /\ f = Sink!Trigger(g)
    BY <1>4 DEF SinkFramesWritten, Sink!FramesWritten, c
  <2>2. \E y : EntriesWritten(c, g, load, y)
    BY <1>0, <2>1, EntriesTaken DEF c
  <2>3. g \in SinkContext(BOOLEAN) /\ g.codecOpen = c.codecOpen /\ g.sdh = c.sdh /\ g.eff = c.eff
    BY <1>3, <2>2
  <2> HIDE DEF f, g
  <2>4. SinkSame(g, f) /\ f.sdh = g.sdh /\ f.eff.calls["writer"] = g.eff.calls["writer"]
    BY <2>1, <2>3, SinkTriggerFields
  <2>5. f.eff.report = "none" /\ f.codecOpen = c.codecOpen /\ f \in SinkContext(BOOLEAN)
    BY <1>1, <2>3, <2>4 DEF SinkSame, NoEffects
  <2>6. SinkJob("framesWritten", f)
    BY <2>1, <2>3, <2>4, <2>5 DEF SinkJob, SinkHands, c
  <2> QED BY <2>6
<1>5. CASE SinkLastWritten
  <2> DEFINE load == Job("sink").load
             g == Sink!FlushBuffer(c, load)
             h == [g EXCEPT !.finished = TRUE]
             f == Sink!LastWritten(c, load)
  <2>1. Calls("sink", "lastWritten") /\ Handled("sink", f) /\ f = Sink!Report(h, "finished")
    BY <1>5 DEF SinkLastWritten, Sink!LastWritten, c
  <2>2. \E y : EntriesWritten(c, g, load, y)
    BY <1>0, <2>1, EntriesTaken DEF c
  <2>3. g \in SinkContext(BOOLEAN) /\ g.codecOpen = c.codecOpen /\ g.sdh = c.sdh /\ g.eff = c.eff
    BY <1>3, <2>2
  <2> HIDE DEF f, g
  <2>4. h \in SinkContext(BOOLEAN) /\ h.codecOpen = g.codecOpen /\ h.sdh = g.sdh /\ h.eff = g.eff
    BY <2>3 DEF SinkContext
  <2> HIDE DEF h
  <2>5. f \in SinkContext(BOOLEAN)
    BY <2>1, <2>4, SinkReports
  <2>6. f.codecOpen = h.codecOpen /\ f.sdh = h.sdh /\ f.eff.calls = h.eff.calls /\ f.eff.report = "finished"
    BY <2>1, <2>4 DEF Sink!Report, SinkContext, Effect
  <2>7. SinkJob("lastWritten", f)
    BY <2>1, <2>3, <2>4, <2>5, <2>6 DEF SinkJob, SinkHands, c
  <2> QED BY <2>7
<1> QED BY <1>2, <1>4, <1>5 DEF SinkThread
-----------------------------------------------------------------------------
(* Part 8: what each step does to the outcome.                             *)

(* What it adds to the queues: of the calls that are not in N there are no *)
(* more than before.                                                       *)
NoMore(q, r, M) == (Has(r, M) => Has(q, M)) /\ (Alone(q, M) => Alone(r, M))

AddsTo(q, r, N) ==
    \A t \in Thread :
        /\ \A M : N \intersect M = {} => NoMore(q[t], r[t], M)
        /\ \A s : N \intersect Sizes(s) = {} => NoSize(q[t], r[t], s)

Adds(N) == AddsTo(queue, queue', N)

(* One queue.                                                              *)
LEMMA NoMoreOn ==
    ASSUME NEW M
    PROVE  /\ \A q : NoMore(q, q, M)
           /\ \A q, r, t : NoMore(q, r, M) /\ NoMore(r, t, M) => NoMore(q, t, M)
           /\ \A q \in Seq(CallType) : q # <<>> => NoMore(q, Tail(q), M)
           /\ \A q \in Seq(CallType), e \in Seq(CallType) :
                 (\A i \in DOMAIN e : e[i] \notin M) => NoMore(q, q \o e, M)
<1>1. ASSUME NEW q \in Seq(CallType), q # <<>> PROVE NoMore(q, Tail(q), M)
  BY <1>1, HasTail DEF NoMore
<1>2. ASSUME NEW q \in Seq(CallType), NEW e \in Seq(CallType), \A i \in DOMAIN e : e[i] \notin M
      PROVE  NoMore(q, q \o e, M)
  <2> DEFINE r == q \o e
  <2>1. \A i \in DOMAIN r : r[i] \in M => i \in DOMAIN q /\ r[i] = q[i]
    BY <1>2, ConcatPlaces
  <2> HIDE DEF r
  <2>2. Has(r, M) => Has(q, M)
    BY <2>1 DEF Has
  <2>3. Alone(q, M) => Alone(r, M)
    BY <2>1 DEF Alone
  <2> QED BY <2>2, <2>3 DEF NoMore, r
<1> QED BY <1>1, <1>2 DEF NoMore

(* One step after the other.                                               *)
LEMMA AddsOn ==
    ASSUME NEW N
    PROVE  /\ \A q : AddsTo(q, q, N)
           /\ \A q, r, t : AddsTo(q, r, N) /\ AddsTo(r, t, N) => AddsTo(q, t, N)
<1>1. \A q : AddsTo(q, q, N)
  BY NoMoreOn, NoSizeOn DEF AddsTo
<1>2. ASSUME NEW q, NEW r, NEW u, AddsTo(q, r, N), AddsTo(r, u, N), NEW t \in Thread
      PROVE  /\ \A M : N \intersect M = {} => NoMore(q[t], u[t], M)
             /\ \A s : N \intersect Sizes(s) = {} => NoSize(q[t], u[t], s)
  <2>1. \A M : N \intersect M = {} => NoMore(q[t], r[t], M) /\ NoMore(r[t], u[t], M)
    BY <1>2 DEF AddsTo
  <2>2. \A s : N \intersect Sizes(s) = {} => NoSize(q[t], r[t], s) /\ NoSize(r[t], u[t], s)
    BY <1>2 DEF AddsTo
  <2> QED BY <2>1, <2>2, NoMoreOn, NoSizeOn
<1> QED BY <1>1, <1>2 DEF AddsTo

(* Calls are posted,                                                       *)
LEMMA PostAdds ==
    ASSUME NEW N, NEW q \in Queues(AllCalls), NEW e \in Queues(AllCalls),
           \A t \in Thread : \A i \in DOMAIN e[t] : e[t][i] \in N
    PROVE  AddsTo(q, Post(q, e), N)
<1> SUFFICES ASSUME NEW t \in Thread
             PROVE  /\ \A M : N \intersect M = {} => NoMore(q[t], Post(q, e)[t], M)
                    /\ \A s : N \intersect Sizes(s) = {} => NoSize(q[t], Post(q, e)[t], s)
  BY DEF AddsTo
<1> DEFINE a == q[t]
           b == e[t]
<1>1. a \in Seq(CallType) /\ b \in Seq(CallType)
  BY QueueCalls
<1>2. Post(q, e)[t] = a \o b /\ \A i \in DOMAIN b : b[i] \in N
  BY DEF Post
<1> HIDE DEF a, b
<1>3. ASSUME NEW M, N \intersect M = {} PROVE NoMore(a, a \o b, M)
  <2>1. \A i \in DOMAIN b : b[i] \notin M
    BY <1>2, <1>3
  <2> QED BY <1>1, <2>1, NoMoreOn
<1>4. ASSUME NEW s, N \intersect Sizes(s) = {} PROVE NoSize(a, a \o b, s)
  <2>1. \A i \in DOMAIN b : b[i] \notin Sizes(s)
    BY <1>2, <1>4
  <2> QED BY <1>1, <2>1, NoSizeOn
<1> QED BY <1>2, <1>3, <1>4 DEF a

LEMMA PostedAdds ==
    ASSUME NEW N, NEW q \in Queues(AllCalls), NEW m \in AllCalls, m \in N
    PROVE  Posted(q, m) \in Queues(AllCalls) /\ AddsTo(q, Posted(q, m), N)
<1>1. Posted(q, m) \in Queues(AllCalls)
  BY CallsTyped, PostedTyped
<1> SUFFICES ASSUME NEW t \in Thread
             PROVE  /\ \A M : N \intersect M = {} => NoMore(q[t], Posted(q, m)[t], M)
                    /\ \A s : N \intersect Sizes(s) = {} => NoSize(q[t], Posted(q, m)[t], s)
  BY <1>1 DEF AddsTo
<1> DEFINE a == q[t]
           b == <<m>>
<1>2. a \in Seq(CallType) /\ m \in CallType
  BY QueueCalls, CallsTyped
<1>3. b \in Seq(CallType) /\ DOMAIN b = {1} /\ b[1] = m /\ Append(a, m) = a \o b
  BY <1>2, OneMoreCall
<1>4. Posted(q, m)[t] = a \/ Posted(q, m)[t] = Append(a, m)
  BY DEF Posted, Queues
<1> HIDE DEF a, b
<1>5. ASSUME NEW M, N \intersect M = {} PROVE NoMore(a, a, M) /\ NoMore(a, a \o b, M)
  <2>1. \A i \in DOMAIN b : b[i] \notin M
    BY <1>3, <1>5
  <2> QED BY <1>2, <1>3, <2>1, NoMoreOn
<1>6. ASSUME NEW s, N \intersect Sizes(s) = {} PROVE NoSize(a, a, s) /\ NoSize(a, a \o b, s)
  <2>1. \A i \in DOMAIN b : b[i] \notin Sizes(s)
    BY <1>3, <1>6
  <2> QED BY <1>2, <1>3, <2>1, NoSizeOn
<1> QED BY <1>3, <1>4, <1>5, <1>6 DEF a

(* and one is taken from a queue.                                          *)
LEMMA DequeuedAdds ==
    ASSUME TypeInv, NEW s \in Callee, NEW op, Calls(s, op), NEW N
    PROVE  Dequeued(s) \in Queues(AllCalls) /\ AddsTo(queue, Dequeued(s), N)
<1>1. Dequeued(s) \in Queues(AllCalls) /\ queue \in Queues(AllCalls) /\ AllCalls \in SUBSET AllCalls
  BY JobTyped DEF TypeInv
<1> SUFFICES ASSUME NEW t \in Thread
             PROVE  /\ \A M : NoMore(queue[t], Dequeued(s)[t], M)
                    /\ \A r : NoSize(queue[t], Dequeued(s)[t], r)
  BY <1>1 DEF AddsTo
<1> DEFINE q == queue[t]
<1>2. q \in Seq(CallType)
  BY <1>1, QueueCalls
<1>3. Dequeued(s)[t] = q \/ (Dequeued(s)[t] = Tail(q) /\ q # <<>>)
  BY <1>1 DEF Dequeued, Calls, Queues
<1> HIDE DEF q
<1> QED BY <1>2, <1>3, NoMoreOn, NoSizeOn DEF q

(* A job of a stage adds what the stage calls.                             *)
LEMMA HandledAdds ==
    ASSUME TypeInv, NEW s \in Stage, NEW op, Calls(s, op), NEW f, Handled(s, f),
           NEW M \in SUBSET AllCalls, NEW J, f.eff \in Effect(M, J)
    PROVE  Adds(M)
<1>1. /\ f.eff.calls \in Queues(AllCalls)
      /\ \A t \in Thread : \A i \in DOMAIN f.eff.calls[t] : f.eff.calls[t][i] \in M
  BY CallsOfStage
<1>2. s \in Callee /\ queue' = Post(Dequeued(s), f.eff.calls)
  BY DEF Callee, Handled, Effects
<1>3. Dequeued(s) \in Queues(AllCalls) /\ AddsTo(queue, Dequeued(s), M)
  BY <1>2, DequeuedAdds
<1>4. AddsTo(Dequeued(s), queue', M)
  BY <1>1, <1>2, <1>3, PostAdds
<1> QED BY <1>3, <1>4, AddsOn DEF Adds
-----------------------------------------------------------------------------
(* The calls on which the outcome depends.                                 *)
Inits   == {m \in AllCalls : m.callee = "source" /\ m.op = "init"}
Writing == {m \in AllCalls : m.callee = "writer"}
Refusal == {m \in AllCalls : m.callee = "sink" /\ m.op = "writeFailed"}
Losing  == {m \in AllCalls : m.callee \in {"frame", "interframe"} /\ m.op = "failed"}

(* The steps of the other threads change neither what a stage has handed   *)
(* on nor the contexts of the source and of the sink; the image processor  *)
(* may report that a compilation has failed.                               *)
Elsewhere(N) ==
    /\ Adds(N) /\ N \intersect Writing = {} /\ \A s \in Stage : N \intersect Sizes(s) = {}
    /\ context'.source = context.source /\ context'.sink = context.sink /\ video' = video
    /\ \A s \in Stage : context'[s].sdh = context[s].sdh
    /\ \/ reports' = reports
       \/ reports' = Append(reports, "failed") /\ images.compiled["interframe"] = "failed"
    /\ \A s \in {"frame", "interframe"} : images.compiled[s] = "failed" => images'.compiled[s] = "failed"

(* The calls of the pipeline.                                              *)
LEMMA PipelineCalls ==
    ASSUME NEW s \in Stage
    PROVE  /\ Call(s, "init") \in AllCalls /\ Call(s, "init").callee = s /\ Call(s, "init").op = "init"
           /\ Call(s, "start") \in AllCalls /\ Call(s, "start").callee = s /\ Call(s, "start").op = "start"
BY CallsMade DEF Is

(* A set of calls that size nothing and are not for the writer.            *)
LEMMA AddsAside ==
    ASSUME NEW N, \A m \in N : m.callee # "writer" /\ m.op # "params"
    PROVE  N \intersect Writing = {} /\ \A s \in Stage : N \intersect Sizes(s) = {}
BY DEF Writing, Sizes

(* The launch of the stages.                                               *)
LEMMA LaunchElse ==
    ASSUME TypeInv, Launch
    PROVE  \E N : /\ Elsewhere(N) /\ N \intersect Refusal = {} /\ N \intersect Losing = {}
                  /\ N \intersect Inits # {} => pipeline.launched = 0
<1> DEFINE n == pipeline.launched + 1
           m == Call(StageOrder[n], "init")
           N == {m}
<1>1. n \in 1 .. 4 /\ queue \in Queues(AllCalls)
  BY DEF TypeInv, Launch, StageOrder
<1>2. StageOrder[n] \in Stage /\ (StageOrder[n] = "source" => n = 1)
  BY <1>1 DEF StageOrder, Stage
<1>3. m \in AllCalls /\ m.callee = StageOrder[n] /\ m.op = "init"
  BY <1>2, PipelineCalls
<1>4. queue' = Posted(queue, m)
  BY DEF Launch
<1>5. n = 1 => pipeline.launched = 0
  BY DEF TypeInv
<1> HIDE DEF n, m
<1>6. Adds(N)
  BY <1>1, <1>3, <1>4, PostedAdds DEF Adds
<1>7. \A k \in N : k.callee # "writer" /\ k.op # "params"
  BY <1>2, <1>3 DEF Stage
<1>8. N \intersect Refusal = {} /\ N \intersect Losing = {}
  BY <1>3 DEF Refusal, Losing
<1>9. N \intersect Inits # {} => pipeline.launched = 0
  BY <1>2, <1>3, <1>5 DEF Inits
<1>10. UNCHANGED <<video, context, images, reports>>
  BY DEF Launch
<1> HIDE DEF N
<1>11. Elsewhere(N)
  BY <1>6, <1>7, <1>10, AddsAside DEF Elsewhere
<1> QED BY <1>8, <1>9, <1>11

(* The start of the stages.                                                *)
LEMMA StartElse ==
    ASSUME TypeInv, StageInitialized
    PROVE  \E N : /\ Elsewhere(N) /\ N \intersect Refusal = {} /\ N \intersect Losing = {}
                  /\ N \intersect Inits = {}
<1> DEFINE N == {m \in AllCalls : m.op = "start"}
           d == Dequeued("pipeline")
<1>1. \A n \in 1 .. 4 : Call(StageOrder[n], "start") \in N
  <2>1. \A n \in 1 .. 4 : StageOrder[n] \in Stage
    BY DEF StageOrder, Stage
  <2> QED BY <2>1, PipelineCalls
<1>2. d \in Queues(AllCalls) /\ AddsTo(queue, d, N)
  <2>1. Calls("pipeline", "initialized") /\ "pipeline" \in Callee
    BY DEF StageInitialized, Callee
  <2> QED BY <2>1, DequeuedAdds
<1>3. queue' = AllStarted(d) \/ queue' = d
  BY DEF StageInitialized
<1>4. N \intersect Refusal = {} /\ N \intersect Losing = {} /\ N \intersect Inits = {}
  BY DEF Refusal, Losing, Inits
<1>5. \A k \in N : k.callee # "writer" /\ k.op # "params" /\ k \in AllCalls
  BY DEF AllCalls, Made, Stage
<1>6. UNCHANGED <<video, context, images, reports>>
  BY DEF StageInitialized
<1> HIDE DEF N, d
<1>7. ASSUME NEW q \in Queues(AllCalls), AddsTo(queue, q, N), NEW n \in 1 .. 4
      PROVE  StartPosted(q, n) \in Queues(AllCalls) /\ AddsTo(queue, StartPosted(q, n), N)
  <2>1. Call(StageOrder[n], "start") \in N /\ Call(StageOrder[n], "start") \in AllCalls
    BY <1>1, <1>5
  <2>2. StartPosted(q, n) \in Queues(AllCalls) /\ AddsTo(q, StartPosted(q, n), N)
    BY <2>1, PostedAdds DEF StartPosted
  <2> QED BY <1>7, <2>2, AddsOn
<1>8. AddsTo(queue, AllStarted(d), N)
  BY <1>2, <1>7 DEF AllStarted
<1>9. Adds(N)
  BY <1>2, <1>3, <1>8 DEF Adds
<1>10. Elsewhere(N)
  BY <1>5, <1>6, <1>9, AddsAside DEF Elsewhere
<1> QED BY <1>4, <1>10

(* A continuation after a compilation.                                     *)
LEMMA ContinueElse ==
    ASSUME TypeInv, NEW s \in {"frame", "interframe"}, NEW d, Continue(s, d), d.sdh = context[s].sdh,
           d.eff.calls \in Queues(ToPipeline), d.eff.report \in {"none", "failed"},
           d.eff.report = "failed" => images.compiled["interframe"] = "failed"
    PROVE  \E N : /\ Elsewhere(N) /\ N \intersect Refusal = {} /\ N \intersect Losing = {}
                  /\ N \intersect Inits = {}
<1> DEFINE N == ToPipeline
           e == d.eff.calls
<1>1. /\ context' = [context EXCEPT ![s] = Forgets(d)] /\ queue' = Post(queue, e) /\ video' = video
      /\ images' = images
  BY DEF Continue, Effects, Forgets
<1>2. DOMAIN context = Stage /\ queue \in Queues(AllCalls) /\ s \in Stage
  BY DEF TypeInv, Contexts, Stage
<1>3. /\ context'.sink = context.sink /\ context'.source = context.source
      /\ \A r \in Stage : context'[r].sdh = context[r].sdh
  <2>1. Forgets(d).sdh = context[s].sdh
    BY DEF Forgets
  <2> QED BY <1>1, <1>2, <2>1 DEF Stage
<1>4. e \in Queues(AllCalls) /\ \A t \in Thread : \A i \in DOMAIN e[t] : e[t][i] \in N
  <2>1. ToPipeline \in SUBSET AllCalls
    BY DEF ToPipeline
  <2>2. \A t \in Thread : \A i \in DOMAIN e[t] : e[t][i] \in N
    BY <2>1, QueueCalls
  <2>3. \A t \in Thread : Seq(On(t, ToPipeline)) \subseteq Seq(On(t, AllCalls))
    <3>1. \A t \in Thread : On(t, ToPipeline) \subseteq On(t, AllCalls)
      BY <2>1 DEF On
    <3> QED BY <3>1
  <2>4. e \in Queues(AllCalls)
    BY <2>3 DEF Queues
  <2> QED BY <2>2, <2>4
<1>5. Adds(N)
  <2> HIDE DEF e, N
  <2> QED BY <1>1, <1>2, <1>4, PostAdds DEF Adds
<1>6. \A k \in N : k.callee # "writer" /\ k.op # "params"
  BY DEF ToPipeline, AllCalls, Made, Stage
<1>7. N \intersect Refusal = {} /\ N \intersect Losing = {} /\ N \intersect Inits = {}
  BY DEF ToPipeline, Refusal, Losing, Inits
<1>8. reports' = reports \/ (reports' = Append(reports, "failed") /\ images.compiled["interframe"] = "failed")
  BY DEF Continue, Effects, Rtsp!Reported
<1>9. Elsewhere(N)
  BY <1>1, <1>3, <1>5, <1>6, <1>8, AddsAside DEF Elsewhere
<1> QED BY <1>7, <1>9
-----------------------------------------------------------------------------
(* An evaluation that has failed.                                          *)
Fails(job) == \E m : Ends(m, job) /\ m.op = "failed" /\ queue' = Posted(queue, m)

LEMMA EvaluationElse ==
    ASSUME TypeInv, ScriptsInv, NEW job \in images.evaluating, EvaluationDone(job)
    PROVE  \E N : /\ Elsewhere(N) /\ N \intersect Refusal = {} /\ N \intersect Inits = {}
                  /\ N \intersect Losing # {} => Fails(job)
<1>1. PICK m : Ends(m, job) /\ queue' = Posted(queue, m)
  BY EvaluationEnds
<1>2. job.stage \in {"frame", "interframe"} /\ queue \in Queues(AllCalls)
  BY DEF TypeInv, ImagesType, Jobs, JobType
<1>3. m \in AllCalls /\ m.callee \in {"frame", "interframe"} /\ m.op \in {"failed", "evaluated"}
  BY <1>1, <1>2 DEF Ends
<1> DEFINE N == {m}
<1>4. Adds(N)
  BY <1>1, <1>2, <1>3, PostedAdds DEF Adds
<1>5. \A k \in N : k.callee # "writer" /\ k.op # "params"
  BY <1>3
<1>6. N \intersect Refusal = {} /\ N \intersect Inits = {}
  BY <1>3 DEF Refusal, Inits
<1>7. N \intersect Losing # {} => Fails(job)
  BY <1>1 DEF Losing, Fails
<1>8. UNCHANGED <<video, context, reports>> /\ images'.compiled = images.compiled
  BY DEF EvaluationDone, TypeInv, ImagesType
<1> HIDE DEF N
<1>9. Elsewhere(N)
  BY <1>4, <1>5, <1>8, AddsAside DEF Elsewhere
<1> QED BY <1>6, <1>7, <1>9

(* An answer of the writer.                                                *)
LEMMA WroteElse ==
    ASSUME TypeInv, NEW op \in {"framesWritten", "lastWritten", "writeFailed"},
           NEW e \in Encoder, NEW n \in 0 .. Len(e.held), NEW job, Calls("writer", job), Wrote(e, n, op),
           op = "writeFailed" => ~context.sink.codecOpen
    PROVE  \E N : /\ Elsewhere(N) /\ N \intersect Losing = {} /\ N \intersect Inits = {}
                  /\ N \intersect Refusal # {} => Has(queue["writer"], Writing) /\ ~context.sink.codecOpen
<1> DEFINE load == Sink!EntriesOut(e, n)
           m == CallWith("sink", op, load)
           N == {m}
           d == Dequeued("writer")
<1>1. m \in AllCalls /\ m.callee = "sink" /\ m.op = op
  <2>1. load \in Seq(FrameType)
    BY EntriesOutTyped
  <2>2. Is(m, "sink", op)
    BY <2>1, CallsMade
  <2> QED BY <2>2 DEF Is
<1>2. "writer" \in Callee /\ queue' = Posted(d, m) /\ UNCHANGED <<video, context, images, reports>>
  BY DEF Callee, Wrote
<1> HIDE DEF m
<1>3. d \in Queues(AllCalls) /\ AddsTo(queue, d, N)
  BY <1>2, DequeuedAdds
<1>4. Has(queue["writer"], Writing)
  <2>1. Job("writer") \in AllCalls /\ Job("writer").callee = "writer"
    BY <1>2, JobTyped DEF TypeInv
  <2>2. queue["writer"] \in Seq(CallType) /\ queue["writer"] # <<>> /\ Head(queue["writer"]) = Job("writer")
    <3>1. queue \in Queues(AllCalls) /\ AllCalls \in SUBSET AllCalls
      BY DEF TypeInv
    <3>2. queue["writer"] \in Seq(CallType)
      BY <3>1, QueueCalls, ThreadsAre
    <3> QED BY <3>2, ThreadsAre DEF Calls, Job
  <2>3. 1 \in DOMAIN queue["writer"] /\ queue["writer"][1] = Job("writer")
    BY <2>2, TailPlaces
  <2> QED BY <2>1, <2>3 DEF Has, Writing
<1> HIDE DEF d
<1>5. Adds(N)
  <2>1. AddsTo(d, queue', N)
    BY <1>1, <1>2, <1>3, PostedAdds
  <2> QED BY <1>3, <2>1, AddsOn DEF Adds
<1>6. \A k \in N : k.callee # "writer" /\ k.op # "params"
  BY <1>1
<1>7. N \intersect Losing = {} /\ N \intersect Inits = {} /\ (N \intersect Refusal # {} => op = "writeFailed")
  BY <1>1 DEF Losing, Inits, Refusal
<1> HIDE DEF N
<1>8. Elsewhere(N)
  BY <1>2, <1>5, <1>6, AddsAside DEF Elsewhere
<1> QED BY <1>4, <1>7, <1>8

(* The writer.                                                             *)
LEMMA WriterElse ==
    ASSUME TypeInv, WriterThread
    PROVE  \E N : /\ Elsewhere(N) /\ N \intersect Losing = {} /\ N \intersect Inits = {}
                  /\ N \intersect Refusal # {} => Has(queue["writer"], Writing) /\ ~context.sink.codecOpen
<1>1. encoder \in Encoder /\ 0 \in 0 .. Len(encoder.held) /\ Len(encoder.held) \in 0 .. Len(encoder.held)
  BY DEF TypeInv, Encoder
<1>2. CASE WriteFrames
  <2> DEFINE load == Job("writer").load
             e == Sink!TakenIn(encoder, load)
  <2>1. Calls("writer", "frames") /\ Wrote(e, Sink!EntriesReady(e), "framesWritten")
    BY <1>2 DEF WriteFrames
  <2>2. Made("writer", "frames", Job("writer").amount, load) /\ load \in Seq(FrameType)
    BY <2>1, JobTyped DEF TypeInv, Callee
  <2>3. ~HasFlush(load)
    BY <2>2 DEF Made
  <2>4. e \in Encoder
    BY <1>1, <2>2, <2>3, TakenInIs
  <2> HIDE DEF e
  <2>5. Sink!EntriesReady(e) \in 0 .. Len(e.held)
    BY <2>4, EntriesReadyTyped
  <2> QED BY <2>1, <2>4, <2>5, WroteElse
<1>3. CASE WriteLastFrames
  BY <1>1, <1>3, WroteElse DEF WriteLastFrames
<1>4. CASE WriteRefused
  <2>1. /\ Wrote(encoder, 0, "writeFailed") /\ encoder \in Encoder /\ 0 \in 0 .. Len(encoder.held)
        /\ ~context.sink.codecOpen
    BY <1>1, <1>4 DEF WriteRefused
  <2>2. CASE Calls("writer", "frames")
    BY <2>1, <2>2, WroteElse
  <2>3. CASE Calls("writer", "last")
    BY <2>1, <2>3, WroteElse
  <2> QED BY <1>4, <2>2, <2>3 DEF WriteRefused
<1> QED BY <1>2, <1>3, <1>4 DEF WriterThread

(* The steps of these threads.                                             *)
ElseStep(N) ==
    /\ Elsewhere(N)
    /\ N \intersect Inits # {} => Launch /\ pipeline.launched = 0
    /\ N \intersect Losing # {} => \E job \in images.evaluating : EvaluationDone(job) /\ Fails(job)
    /\ N \intersect Refusal # {} => Has(queue["writer"], Writing) /\ ~context.sink.codecOpen

(* A script, once the compilation has ended, stays as it is.               *)
LEMMA CompileElse ==
    ASSUME TypeInv, NEW s \in {"frame", "interframe"}, Compile(s)
    PROVE  Elsewhere({})
<1>1. UNCHANGED <<video, context, queue, reports>> /\ images.compiled[s] = "no"
  BY DEF Compile
<1>2. \A r \in {"frame", "interframe"} : r # s => images'.compiled[r] = images.compiled[r]
  BY DEF Compile, TypeInv, ImagesType
<1>3. Adds({})
  BY <1>1, AddsOn DEF Adds
<1> QED BY <1>1, <1>2, <1>3 DEF Elsewhere

LEMMA ElseSteps ==
    ASSUME TypeInv, ScriptsInv, PipelineThread \/ WriterThread \/ ImageProcessor
    PROVE  \E N : ElseStep(N)
<1>1. CASE Launch
  BY <1>1, LaunchElse DEF ElseStep
<1>2. CASE StageInitialized
  BY <1>2, StartElse DEF ElseStep
<1>3. CASE WriterThread
  BY <1>3, WriterElse DEF ElseStep
<1>4. /\ context.frame \in FrameContext(BOOLEAN, TRUE) /\ context.frame.eff = NoEffects
      /\ context.interframe \in InterContext(BOOLEAN, TRUE) /\ context.interframe.eff = NoEffects
  BY ContextsTyped
<1>5. ASSUME NEW s \in {"frame", "interframe"}, Compile(s) PROVE \E N : ElseStep(N)
  <2>1. ElseStep({})
    BY <1>5, CompileElse DEF ElseStep
  <2> QED BY <2>1
<1>6. CASE FrameCompiled
  <2> DEFINE ok == images.compiled.frame = "yes"
             d == FrameStage!Compiled(context.frame, ok, NumberOf("frame"))
  <2>1. CompiledKeeps(context.frame, d, ok, NumberOf("frame"))
    BY <1>4, CompiledRests
  <2>2. Continue("frame", d)
    BY <1>6 DEF FrameCompiled
  <2>3. d.eff.report = "none"
    BY <1>4, CompiledReports
  <2> HIDE DEF d
  <2>4. d.sdh = context["frame"].sdh /\ d.eff.calls \in Queues(ToPipeline)
    BY <2>1 DEF CompiledKeeps
  <2> QED BY <2>2, <2>3, <2>4, ContinueElse DEF ElseStep
<1>7. CASE InterframeCompiled
  <2> DEFINE ok == images.compiled.interframe = "yes"
             d == InterStage!Compiled(context.interframe, ok, NumberOf("interframe"))
  <2>1. CompiledKeeps(context.interframe, d, ok, NumberOf("interframe"))
    BY <1>4, CompiledRests
  <2>2. Continue("interframe", d)
    BY <1>7 DEF InterframeCompiled
  <2>3. d.eff.report = IF ok THEN "none" ELSE "failed"
    BY <1>4, CompiledReports
  <2>4. images.compiled["interframe"] \in {"yes", "failed"}
    BY <2>2 DEF Continue, TypeInv, ImagesType
  <2>5. d.eff.report = "failed" => images.compiled["interframe"] = "failed"
    BY <2>3, <2>4
  <2> HIDE DEF d
  <2>6. d.sdh = context["interframe"].sdh /\ d.eff.calls \in Queues(ToPipeline)
    BY <2>1 DEF CompiledKeeps
  <2> QED BY <2>2, <2>3, <2>5, <2>6, ContinueElse DEF ElseStep
<1>8. ASSUME NEW job \in images.evaluating, EvaluationDone(job) PROVE \E N : ElseStep(N)
  BY <1>8, EvaluationElse DEF ElseStep
<1> QED BY <1>1, <1>2, <1>3, <1>5, <1>6, <1>7, <1>8 DEF PipelineThread, ImageProcessor
-----------------------------------------------------------------------------
(* A frame whose evaluation failed is lost: the frames go on as if its     *)
(* evaluation had no end.                                                  *)
Ghosts == [stage : {"frame", "interframe"}, script : {-1}, number : Nat, images : Seq(Nat)]

Lossy == \E p \in Ghosts : FlowWith({p})

LEMMA GhostsAreNone == \A p \in Ghosts : {p} \intersect JobType = {}
<1> SUFFICES ASSUME NEW p \in Ghosts, p \in JobType PROVE FALSE
  OBVIOUS
<1>1. p.script = -1 /\ p.script \in Nat
  BY DEF Ghosts, JobType
<1> QED BY <1>1

LEMMA LossyStays ==
    ASSUME TypeInv, StartInv, ScriptsInv, Lossy, [Next]_vars
    PROVE  Lossy'
<1>1. PICK p \in Ghosts : FlowWith({p})
  BY DEF Lossy
<1>2. FlowWith({p})'
  BY <1>1, GhostsAreNone, FlowKeeps
<1> QED BY <1>2 DEF Lossy

(* The stage of the evaluation.                                            *)
LEMMA WorkLost ==
    ASSUME NEW q, NEW r, NEW s, NEW J, NEW h, NEW A, NEW n, Working(q, s, J, h, A, n), Same(q, r, Returns(s)),
           NEW job \in J, NEW p, p.number = job.number, p.images = job.images
    PROVE  Working(r, s, (J \ {job}) \union {p}, h, A, n)
<1> DEFINE K == (J \ {job}) \union {p}
<1>1. NumbersOf(K) = NumbersOf(J)
  BY DEF NumbersOf
<1>2. JobsFit(K, A)
  <2>1. JobsFit(J, A)
    BY DEF Working
  <2>2. \A j, k \in K : j.number = k.number => j = k
    BY <2>1 DEF JobsFit
  <2>3. \A j \in K : \A script : Frame(j.number, Result(script, j.images)) \in A
    BY <2>1 DEF JobsFit
  <2> QED BY <2>2, <2>3 DEF JobsFit
<1>3. Carried(r, Returns(s)) = Carried(q, Returns(s)) /\ Answers(r, Returns(s), A)
  BY DEF Same, Working
<1> HIDE DEF K
<1>4. Working(r, s, K, h, A, n)
  BY <1>1, <1>2, <1>3 DEF Working
<1> QED BY <1>4 DEF K

(* An evaluation fails.                                                    *)
LEMMA LossyFails ==
    ASSUME TypeInv, FlowInv, NEW job \in images.evaluating, EvaluationDone(job), Fails(job)
    PROVE  Lossy'
<1> DEFINE z == End(context.source)
           q == queue["processors"]
           r == queue'["processors"]
           p == [job EXCEPT !.script = -1]
<1>1. PICK m : Ends(m, job) /\ m.op = "failed" /\ queue' = Posted(queue, m)
  BY DEF Fails
<1>2. /\ images' = [images EXCEPT !.evaluating = @ \ {job}] /\ UNCHANGED <<video, context>>
      /\ images \in ImagesType /\ queue \in Queues(AllCalls)
  BY DEF EvaluationDone, TypeInv
<1>3. images'.evaluating = images.evaluating \ {job} /\ job \in JobType
  BY <1>2 DEF ImagesType, Jobs
<1>4. p \in Ghosts /\ p.number = job.number /\ p.images = job.images /\ p.stage = job.stage
  BY <1>3 DEF JobType, Ghosts
<1>5. m \in AllCalls /\ m.callee = job.stage /\ job.stage \in {"frame", "interframe"}
  BY <1>1, <1>3 DEF Ends, JobType
<1>6. ThreadOf(m.callee) = "processors" /\ "processors" \in Thread /\ "sink" \in Thread /\ "sink" # "processors"
  BY <1>5 DEF ThreadOf, Thread
<1>7. queue'["sink"] = queue["sink"]
  BY <1>1, <1>2, <1>6 DEF Posted, Queues
<1>8. \A M : m \notin M => Same(q, r, M)
  BY <1>1, <1>2, <1>5, <1>6, SameAfterAll
<1>9. \A s : m \notin Deliveries(s) /\ m \notin Returns(s)
  BY <1>1 DEF Deliveries, Returns
<1>10. \A s : Same(q, r, Deliveries(s)) /\ Same(q, r, Returns(s))
  BY <1>8, <1>9
<1> HIDE DEF p
<1>11. /\ Pending({p}, job.stage)' = (Pending({}, job.stage) \ {job}) \union {p}
       /\ \A s : s # job.stage => Pending({p}, s)' = Pending({}, s)
       /\ job \in Pending({}, job.stage)
  BY <1>3, <1>4 DEF Evaluating, Pending
<1>12. /\ FrameFlow(q, Handed(context.source.sdh), Pending({}, "frame"), context.frame.sdh, z)
       /\ InterFlow(q, Handed(context.frame.sdh), Pending({}, "interframe"), context.interframe, z)
       /\ SinkFlow(queue["sink"], Handed(context.interframe.sdh), context.sink.sdh, z)
       /\ SourceFlow(video, context.source)
  BY DEF FlowInv, FlowWith
<1> HIDE DEF z, q, r
<1>13. FrameFlow(r, Handed(context.source.sdh), Pending({p}, "frame")', context.frame.sdh, z)
  <2>1. CASE job.stage = "frame"
    <3>1. PICK n \in Nat : /\ Stream(q, Deliveries("frame"), n, Handed(context.source.sdh), Passing(z))
                           /\ Working(q, "frame", Pending({}, "frame"), context.frame.sdh, Passing(z), n)
      BY <1>12 DEF FrameFlow
    <3>2. Working(r, "frame", (Pending({}, "frame") \ {job}) \union {p}, context.frame.sdh, Passing(z), n)
      BY <1>4, <1>10, <1>11, <2>1, <3>1, WorkLost
    <3>3. Stream(r, Deliveries("frame"), n, Handed(context.source.sdh), Passing(z))
      BY <1>10, <3>1, SameStream
    <3> QED BY <1>11, <2>1, <3>2, <3>3 DEF FrameFlow
  <2>2. CASE job.stage # "frame"
    BY <1>10, <1>11, <1>12, <2>2, FlowsKept
  <2> QED BY <2>1, <2>2
<1>14. InterFlow(r, Handed(context.frame.sdh), Pending({p}, "interframe")', context.interframe, z)
  <2>1. CASE job.stage = "interframe"
    <3>1. PICK n \in Nat : /\ Stream(q, Deliveries("interframe"), n, Handed(context.frame.sdh), Passing(z))
                           /\ Buffered(context.interframe, n, z)
                           /\ Working(q, "interframe", Pending({}, "interframe"), context.interframe.sdh, Pairs(z), n - 1)
      BY <1>12 DEF InterFlow
    <3> DEFINE k == n - 1
    <3>2. Working(q, "interframe", Pending({}, "interframe"), context.interframe.sdh, Pairs(z), k)
      BY <3>1
    <3> HIDE DEF k
    <3>3. Working(r, "interframe", (Pending({}, "interframe") \ {job}) \union {p}, context.interframe.sdh, Pairs(z), k)
      BY <1>4, <1>10, <1>11, <2>1, <3>2, WorkLost
    <3>4. Stream(r, Deliveries("interframe"), n, Handed(context.frame.sdh), Passing(z))
      BY <1>10, <3>1, SameStream
    <3> QED BY <1>11, <2>1, <3>1, <3>3, <3>4 DEF InterFlow, k
  <2>2. CASE job.stage # "interframe"
    BY <1>10, <1>11, <1>12, <2>2, FlowsKept
  <2> QED BY <2>1, <2>2
<1>15. FlowWith({p})'
  BY <1>2, <1>7, <1>12, <1>13, <1>14, FlowPartsNext DEF FramePart, InterPart, SinkPart, z, r
<1> QED BY <1>4, <1>15 DEF Lossy
-----------------------------------------------------------------------------
(* What a step does, by the thread that takes it.                          *)
SomeJob ==
    \/ \E op, f : SourceJob(op, f)
    \/ \E op, f : FrameJob(op, f)
    \/ \E op, f : InterJob(op, f)
    \/ \E op, f : SinkJob(op, f)

LEMMA Steps ==
    ASSUME TypeInv, StartInv, FlowInv, ScriptsInv, EndInv, [Next]_vars
    PROVE  SomeJob \/ \E N : ElseStep(N)
<1>1. CASE UNCHANGED vars
  <2>1. UNCHANGED <<video, context, queue, images, reports>>
    BY <1>1 DEF vars
  <2>2. Adds({})
    BY <2>1, AddsOn DEF Adds
  <2>3. ElseStep({})
    BY <2>1, <2>2 DEF ElseStep, Elsewhere
  <2> QED BY <2>3
<1>2. CASE PipelineThread \/ WriterThread \/ ImageProcessor
  BY <1>2, ElseSteps
<1>3. CASE SourceThread
  BY <1>3, SourceJobs DEF SomeJob
<1>4. CASE ProcessorsThread
  <2>1. \/ FrameInit \/ FrameParams \/ FrameStart \/ FrameFinish
        \/ FrameProcess \/ FrameNext \/ FrameEvaluated \/ FrameEvaluationFailed
        => SomeJob
    BY FrameJobs DEF SomeJob
  <2>2. \/ InterframeInit \/ InterframeParams \/ InterframeStart
        \/ InterframeProcess \/ InterframeNext
        \/ InterframeEvaluated \/ InterframeEvaluationFailed
        => SomeJob
    BY InterJobs DEF SomeJob
  <2> QED BY <1>4, <2>1, <2>2 DEF ProcessorsThread
<1>5. CASE SinkThread
  BY <1>5, SinkJobs DEF SomeJob
<1>6. CASE Terminated
  BY <1>1, <1>6 DEF Terminated
<1> QED BY <1>1, <1>2, <1>3, <1>4, <1>5, <1>6 DEF Next

(* A job of stage s with the effects of M.                                 *)
StageJob(s, op, f, M) ==
    /\ s \in Stage /\ Calls(s, op) /\ Handled(s, f)
    /\ f.eff.calls \in Queues(AllCalls) /\ Adds(M) /\ Forgets(f).sdh = f.sdh
    /\ \A t \in Thread : \A i \in DOMAIN f.eff.calls[t] : f.eff.calls[t][i] \in M

LEMMA StageJobs ==
    ASSUME TypeInv, NEW op, NEW f
    PROVE  /\ SourceJob(op, f) => StageJob("source", op, f, SourceCalls(TRUE))
           /\ FrameJob(op, f)  => StageJob("frame", op, f, FrameCalls(TRUE))
           /\ InterJob(op, f)  => StageJob("interframe", op, f, InterCalls(TRUE))
           /\ SinkJob(op, f)   => StageJob("sink", op, f, SinkCalls)
<1>1. ASSUME NEW s \in Stage, NEW M \in SUBSET AllCalls, NEW J, f.eff \in Effect(M, J), Calls(s, op), Handled(s, f),
             Forgets(f).sdh = f.sdh
      PROVE  StageJob(s, op, f, M)
  <2>1. f.eff.calls \in Queues(AllCalls) /\ \A t \in Thread : \A i \in DOMAIN f.eff.calls[t] : f.eff.calls[t][i] \in M
    BY <1>1, CallsOfStage
  <2>2. Adds(M)
    BY <1>1, HandledAdds
  <2> QED BY <1>1, <2>1, <2>2 DEF StageJob
<1>2. /\ SourceCalls(TRUE) \in SUBSET AllCalls /\ FrameCalls(TRUE) \in SUBSET AllCalls
      /\ InterCalls(TRUE) \in SUBSET AllCalls /\ SinkCalls \in SUBSET AllCalls
  BY CallsTyped
<1>3. "source" \in Stage /\ "frame" \in Stage /\ "interframe" \in Stage /\ "sink" \in Stage
  BY DEF Stage
<1>4. ASSUME SourceJob(op, f) PROVE StageJob("source", op, f, SourceCalls(TRUE))
  <2>1. f.eff \in Effect(SourceCalls(TRUE), {}) /\ Forgets(f).sdh = f.sdh
    BY <1>4 DEF SourceJob, SourceContext, Forgets
  <2> QED BY <1>1, <1>2, <1>3, <1>4, <2>1 DEF SourceJob
<1>5. ASSUME FrameJob(op, f) PROVE StageJob("frame", op, f, FrameCalls(TRUE))
  <2>1. f.eff \in Effect(FrameCalls(TRUE), Jobs("frame")) /\ Forgets(f).sdh = f.sdh
    BY <1>5 DEF FrameJob, FrameContext, Forgets
  <2> QED BY <1>1, <1>2, <1>3, <1>5, <2>1 DEF FrameJob
<1>6. ASSUME InterJob(op, f) PROVE StageJob("interframe", op, f, InterCalls(TRUE))
  <2>1. f.eff \in Effect(InterCalls(TRUE), Jobs("interframe")) /\ Forgets(f).sdh = f.sdh
    BY <1>6 DEF InterJob, InterContext, Forgets
  <2> QED BY <1>1, <1>2, <1>3, <1>6, <2>1 DEF InterJob
<1>7. ASSUME SinkJob(op, f) PROVE StageJob("sink", op, f, SinkCalls)
  <2>1. f.eff \in Effect(SinkCalls, {}) /\ Forgets(f).sdh = f.sdh
    BY <1>7 DEF SinkJob, SinkContext, Forgets
  <2> QED BY <1>1, <1>2, <1>3, <1>7, <2>1 DEF SinkJob
<1> QED BY <1>4, <1>5, <1>6, <1>7
-----------------------------------------------------------------------------
(* The frame size stays ahead of the frames. A job passes the size on to   *)
(* the next stage at most.                                                 *)
LEMMA SizedNext ==
    /\ \A m \in SourceCalls(TRUE) : m.op = "params" => m.callee = "frame"
    /\ \A m \in FrameCalls(TRUE) : m.op = "params" => m.callee = "interframe"
    /\ \A m \in InterCalls(TRUE) : m.op = "params" => m.callee = "sink"
    /\ \A m \in SinkCalls : m.op # "params"
BY DEF SourceCalls, FrameCalls, InterCalls, SinkCalls, AllCalls, Made, Stage

HandsSized(s, f, t, n) ==
    (Handed(f.sdh) = 0 \/ Mute(f.eff.calls[t])) /\ HandsOn(context[s], f, f.eff.calls[t], n)

LEMMA JobSizes ==
    ASSUME TypeInv, FlowInv, SizesFirst, NEW s, NEW op, NEW f, NEW M, StageJob(s, op, f, M), NEW n,
           \A l \in Links : l[1] = s <=> l[2] = n,
           \A m \in M : m.op = "params" => m.callee = n,
           NEW t, t = ThreadOf(n), s = "sink" \/ HandsSized(s, f, t, n)
    PROVE  SizesFirst'
<1>1. /\ s \in Stage /\ Calls(s, op) /\ Handled(s, f) /\ f.eff.calls \in Queues(AllCalls) /\ Forgets(f).sdh = f.sdh
      /\ \A u \in Thread : \A i \in DOMAIN f.eff.calls[u] : f.eff.calls[u][i] \in M
  BY DEF StageJob
<1>2. ASSUME NEW l \in Links
      PROVE  LET e == f.eff.calls[ThreadOf(l[2])]
             IN  \/ l[1] = s /\ Handed(f.sdh) = 0
                 \/ /\ \A i \in DOMAIN e : e[i] \notin Sizes(l[2])
                    /\ l[1] = s => HandsOn(context[s], f, e, l[2])
  <2> DEFINE e == f.eff.calls[ThreadOf(l[2])]
  <2>1. ThreadOf(l[2]) \in Thread
    BY LinksAre
  <2>2. CASE l[1] = s
    <3>1. s # "sink"
      BY <2>2, LinksAre
    <3>2. l[2] = n
      BY <2>2
    <3>3. HandsOn(context[s], f, e, l[2]) /\ (Handed(f.sdh) = 0 \/ Mute(e))
      BY <3>1, <3>2 DEF HandsSized
    <3> QED BY <2>2, <3>3 DEF Mute, Sizes
  <2>3. CASE l[1] # s
    <3>1. \A i \in DOMAIN e : e[i] \in M
      BY <1>1, <2>1
    <3>2. \A m \in M : m \notin Sizes(l[2])
      BY <2>3 DEF Sizes
    <3> QED BY <2>3, <3>1, <3>2
  <2> QED BY <2>2, <2>3
<1> QED BY <1>1, <1>2, HandledSizes

(* The source is there only once.                                          *)
Begun ==
    /\ Alone(queue["source"], Inits)
    /\ Has(queue["source"], Inits) => ~context.source.exists
    /\ context.source.opened => context.source.exists

(* The init of the source finds no source.                                 *)
LEMMA InitFindsNothing ==
    ASSUME TypeInv, Begun, Calls("source", "init")
    PROVE  /\ queue["source"] \in Seq(CallType) /\ queue["source"] # <<>>
           /\ Head(queue["source"]) \in Inits /\ ~context.source.exists
<1>1. /\ queue \in Queues(AllCalls) /\ AllCalls \in SUBSET AllCalls /\ "source" \in Stage /\ "source" \in Thread
      /\ ThreadOf("source") = "source"
  BY DEF TypeInv, Stage, Thread, ThreadOf
<1>2. queue["source"] \in Seq(CallType) /\ queue["source"] # <<>> /\ Head(queue["source"]) = Job("source")
  <2>1. queue["source"] \in Seq(CallType)
    BY <1>1, QueueCalls
  <2> QED BY <1>1, <2>1 DEF Calls, Job
<1>3. Job("source") \in Inits
  BY <1>1, JobOfStage DEF Inits
<1>4. Has(queue["source"], Inits)
  BY <1>2, <1>3, HasTail
<1> QED BY <1>2, <1>3, <1>4 DEF Begun

LEMMA SizesStay ==
    ASSUME TypeInv, FlowInv, SizesFirst, Begun, SomeJob
    PROVE  SizesFirst'
<1>1. /\ \A l \in Links : l[1] = "source" <=> l[2] = "frame"
      /\ \A l \in Links : l[1] = "frame" <=> l[2] = "interframe"
      /\ \A l \in Links : l[1] = "interframe" <=> l[2] = "sink"
      /\ \A l \in Links : l[1] = "sink" <=> l[2] = "none"
  BY DEF Links
<1>2. /\ ThreadOf("frame") = "processors" /\ ThreadOf("interframe") = "processors" /\ ThreadOf("sink") = "sink"
      /\ "processors" \in Thread /\ "sink" \in Thread
  BY DEF ThreadOf, Thread
<1>3. /\ \A s \in Stage : Handed(context[s].sdh) \in Nat
      /\ \A h \in Handler : h.next \in Nat /\ h.out \in Seq(FrameType)
  BY HandedNumbers DEF Handler
<1>4. ASSUME NEW op, NEW f, SourceJob(op, f) PROVE SizesFirst'
  <2>1. StageJob("source", op, f, SourceCalls(TRUE))
    BY <1>4, StageJobs
  <2>2. Handed(f.sdh) = 0 \/ Mute(f.eff.calls["processors"])
    <3>1. CASE op = "init"
      <4>1. ~context.source.exists /\ SourceFlow(video, context.source)
        BY <1>4, <3>1, InitFindsNothing, HandlersSettled DEF SourceJob, FlowInv
      <4>2. Seen(context.source.sdh) = 0 .. 0 - 1 /\ 0 .. 0 - 1 = {}
        BY <4>1 DEF SourceFlow
      <4>3. f.sdh = context.source.sdh
        BY <1>4, <3>1 DEF SourceJob, SourceBegins
      <4>4. f.sdh \in Handler
        BY <1>4 DEF SourceJob, SourceContext
      <4>5. Handed(context["source"].sdh) \in Nat
        BY <1>3 DEF Stage
      <4> QED BY <1>3, <4>2, <4>3, <4>4, <4>5, NothingSeen
    <3>2. CASE op # "init"
      BY <1>2, <1>4, <3>2 DEF SourceJob, SourceSays
    <3> QED BY <3>1, <3>2
  <2>3. HandsOn(context["source"], f, f.eff.calls["processors"], "frame")
    BY <1>4 DEF SourceJob
  <2>4. \A m \in SourceCalls(TRUE) : m.op = "params" => m.callee = "frame"
    BY SizedNext
  <2>5. HandsSized("source", f, "processors", "frame")
    BY <2>2, <2>3 DEF HandsSized
  <2> QED BY <1>1, <1>2, <2>1, <2>4, <2>5, JobSizes
<1>5. ASSUME NEW s \in {"frame", "interframe"}, Calls(s, "params"), NEW f, f.sdh \in Handler,
             Handed(f.sdh) \in Nat, Seen(f.sdh) = Seen(context[s].sdh)
      PROVE  Handed(f.sdh) = 0
  <2>1. Seen(f.sdh) = {}
    BY <1>5, SizeFindsNothing
  <2> QED BY <1>3, <1>5, <2>1, NothingSeen
<1>6. ASSUME NEW op, NEW f, FrameJob(op, f) PROVE SizesFirst'
  <2>1. StageJob("frame", op, f, FrameCalls(TRUE))
    BY <1>6, StageJobs
  <2>2. HandsOn(context["frame"], f, f.eff.calls["processors"], "interframe")
    BY <1>6 DEF FrameJob
  <2>3. f.sdh \in Handler /\ Handed(f.sdh) \in Nat
    BY <1>6, <2>2 DEF FrameJob, FrameContext, HandsOn
  <2>4. Handed(f.sdh) = 0 \/ Mute(f.eff.calls["processors"])
    <3>1. CASE op = "params"
      BY <1>5, <1>6, <2>3, <3>1 DEF FrameJob
    <3>2. CASE op # "params"
      BY <1>2, <1>6, <3>2 DEF FrameJob
    <3> QED BY <3>1, <3>2
  <2>5. \A m \in FrameCalls(TRUE) : m.op = "params" => m.callee = "interframe"
    BY SizedNext
  <2>6. HandsSized("frame", f, "processors", "interframe")
    BY <2>2, <2>4 DEF HandsSized
  <2> QED BY <1>1, <1>2, <2>1, <2>5, <2>6, JobSizes
<1>7. ASSUME NEW op, NEW f, InterJob(op, f) PROVE SizesFirst'
  <2>1. StageJob("interframe", op, f, InterCalls(TRUE))
    BY <1>7, StageJobs
  <2>2. HandsOn(context["interframe"], f, f.eff.calls["sink"], "sink")
    BY <1>7 DEF InterJob
  <2>3. f.sdh \in Handler /\ Handed(f.sdh) \in Nat
    BY <1>7, <2>2 DEF InterJob, InterContext, HandsOn
  <2>4. Handed(f.sdh) = 0 \/ Mute(f.eff.calls["sink"])
    <3>1. CASE op = "params"
      BY <1>5, <1>7, <2>3, <3>1 DEF InterJob
    <3>2. CASE op # "params"
      BY <1>2, <1>7, <3>2 DEF InterJob
    <3> QED BY <3>1, <3>2
  <2>5. \A m \in InterCalls(TRUE) : m.op = "params" => m.callee = "sink"
    BY SizedNext
  <2>6. HandsSized("interframe", f, "sink", "sink")
    BY <2>2, <2>4 DEF HandsSized
  <2> QED BY <1>1, <1>2, <2>1, <2>5, <2>6, JobSizes
<1>8. ASSUME NEW op, NEW f, SinkJob(op, f) PROVE SizesFirst'
  <2>1. StageJob("sink", op, f, SinkCalls)
    BY <1>8, StageJobs
  <2>2. \A m \in SinkCalls : m.op = "params" => m.callee = "none"
    BY SizedNext
  <2>3. PICK t : t = ThreadOf("none")
    OBVIOUS
  <2> QED BY <1>1, <2>1, <2>2, <2>3, JobSizes
<1> QED BY <1>4, <1>6, <1>7, <1>8 DEF SomeJob

(* The other threads bring no size and hand nothing on.                    *)
LEMMA SizesRest ==
    ASSUME SizesFirst, FlowInv, NEW N, ElseStep(N)
    PROVE  SizesFirst'
<1> SUFFICES ASSUME NEW l \in Links
             PROVE  SizeAhead(queue'[ThreadOf(l[2])], l[2], Handed(context'[l[1]].sdh))
  BY DEF SizesFirst
<1> DEFINE t == ThreadOf(l[2])
           n == Handed(context[l[1]].sdh)
<1>1. l[1] \in Stage /\ l[2] \in Stage /\ t \in Thread
  BY LinksAre
<1>2. NoSize(queue[t], queue'[t], l[2])
  BY <1>1 DEF ElseStep, Elsewhere, Adds, AddsTo
<1>3. n \in Int /\ SizeAhead(queue[t], l[2], n)
  BY <1>1, HandedNumbers DEF SizesFirst
<1>4. context'[l[1]].sdh = context[l[1]].sdh
  BY <1>1 DEF ElseStep, Elsewhere
<1> HIDE DEF t
<1>5. SizeAhead(queue'[t], l[2], n)
  BY <1>2, <1>3 DEF NoSize
<1> QED BY <1>4, <1>5 DEF t
-----------------------------------------------------------------------------
(* The calls that a step adds: of those on which the outcome depends, the  *)
(* stages make only those for the writer.                                  *)
StepAdds(N) ==
    /\ Adds(N)
    /\ N \intersect Inits # {} => Launch /\ pipeline.launched = 0
    /\ N \intersect Losing # {} => \E job \in images.evaluating : EvaluationDone(job) /\ Fails(job)
    /\ N \intersect Refusal # {} =>
          Has(queue["writer"], Writing) /\ ~context.sink.codecOpen /\ context'.sink = context.sink
    /\ N \intersect Writing # {} => \E op, f : SinkJob(op, f)

LEMMA StagesAdd ==
    /\ \A M \in {SourceCalls(TRUE), FrameCalls(TRUE), InterCalls(TRUE), SinkCalls} :
          M \intersect Inits = {} /\ M \intersect Losing = {} /\ M \intersect Refusal = {}
    /\ \A M \in {SourceCalls(TRUE), FrameCalls(TRUE), InterCalls(TRUE)} : M \intersect Writing = {}
BY DEF SourceCalls, FrameCalls, InterCalls, SinkCalls, Inits, Losing, Refusal, Writing

LEMMA StepsAdd ==
    ASSUME TypeInv, SomeJob \/ \E N : ElseStep(N)
    PROVE  \E N : StepAdds(N)
<1>1. ASSUME NEW N, ElseStep(N) PROVE StepAdds(N)
  BY <1>1 DEF ElseStep, Elsewhere, StepAdds
<1>2. ASSUME NEW M \in {SourceCalls(TRUE), FrameCalls(TRUE), InterCalls(TRUE)}, Adds(M) PROVE StepAdds(M)
  BY <1>2, StagesAdd DEF StepAdds
<1>3. ASSUME NEW op, NEW f, SourceJob(op, f) PROVE \E N : StepAdds(N)
  BY <1>2, <1>3, StageJobs DEF StageJob
<1>4. ASSUME NEW op, NEW f, FrameJob(op, f) PROVE \E N : StepAdds(N)
  BY <1>2, <1>4, StageJobs DEF StageJob
<1>5. ASSUME NEW op, NEW f, InterJob(op, f) PROVE \E N : StepAdds(N)
  BY <1>2, <1>5, StageJobs DEF StageJob
<1>6. ASSUME NEW op, NEW f, SinkJob(op, f) PROVE \E N : StepAdds(N)
  <2>1. Adds(SinkCalls)
    BY <1>6, StageJobs DEF StageJob
  <2>2. StepAdds(SinkCalls)
    BY <1>6, <2>1, StagesAdd DEF StepAdds
  <2> QED BY <2>2
<1> QED BY <1>1, <1>3, <1>4, <1>5, <1>6 DEF SomeJob

(* The contexts of the source and of the sink change with their jobs only; *)
(* a script that was not compiled stays so.                                *)
LEMMA StepsChange ==
    ASSUME TypeInv, SomeJob \/ \E N : ElseStep(N)
    PROVE  /\ context'.source = context.source \/ \E op, f : SourceJob(op, f) /\ context'.source = Forgets(f)
           /\ context'.sink = context.sink \/ \E op, f : SinkJob(op, f) /\ context'.sink = Forgets(f)
           /\ video' = video
           /\ \A s \in {"frame", "interframe"} : images.compiled[s] = "failed" => images'.compiled[s] = "failed"
<1>1. ASSUME NEW N, ElseStep(N)
      PROVE  /\ context'.source = context.source /\ context'.sink = context.sink /\ video' = video
             /\ \A s \in {"frame", "interframe"} : images.compiled[s] = "failed" => images'.compiled[s] = "failed"
  BY <1>1 DEF ElseStep, Elsewhere
<1>2. ASSUME NEW s, NEW op, NEW f, NEW M, StageJob(s, op, f, M)
      PROVE  /\ context'[s] = Forgets(f) /\ \A r \in Stage : r # s => context'[r] = context[r]
             /\ video' = video /\ images'.compiled = images.compiled
  <2>1. s \in Stage /\ Handled(s, f)
    BY <1>2 DEF StageJob
  <2>2. images'.compiled = images.compiled
    BY <2>1 DEF Handled, TypeInv, ImagesType
  <2> QED BY <2>1, <2>2, HandledIs DEF Forgets
<1>3. "source" \in Stage /\ "sink" \in Stage
  BY DEF Stage
<1>4. CASE \E op, f : SourceJob(op, f)
  <2>1. PICK op, f : SourceJob(op, f)
    BY <1>4
  <2>2. StageJob("source", op, f, SourceCalls(TRUE))
    BY <2>1, StageJobs
  <2>3. /\ context'["source"] = Forgets(f) /\ context'["sink"] = context["sink"]
        /\ video' = video /\ images'.compiled = images.compiled
    BY <1>2, <1>3, <2>2
  <2> QED BY <2>1, <2>3
<1>5. CASE \E op, f : SinkJob(op, f)
  <2>1. PICK op, f : SinkJob(op, f)
    BY <1>5
  <2>2. StageJob("sink", op, f, SinkCalls)
    BY <2>1, StageJobs
  <2>3. /\ context'["sink"] = Forgets(f) /\ context'["source"] = context["source"]
        /\ video' = video /\ images'.compiled = images.compiled
    BY <1>2, <1>3, <2>2
  <2> QED BY <2>1, <2>3
<1>6. CASE \E op, f : FrameJob(op, f) \/ InterJob(op, f)
  <2>1. \E s \in {"frame", "interframe"} : \E op, f, M : StageJob(s, op, f, M)
    BY <1>6, StageJobs
  <2>2. /\ context'["sink"] = context["sink"] /\ context'["source"] = context["source"]
        /\ video' = video /\ images'.compiled = images.compiled
    BY <1>2, <1>3, <2>1
  <2> QED BY <2>2
<1> QED BY <1>1, <1>4, <1>5, <1>6 DEF SomeJob

(* Who says that the video has failed.                                     *)
LEMMA StepsReport ==
    ASSUME TypeInv, SomeJob \/ \E N : ElseStep(N), "failed" \in Range(reports')
    PROVE  \/ "failed" \in Range(reports)
           \/ images.compiled["interframe"] = "failed"
           \/ \E op, f : SourceJob(op, f) /\ context'.source = Forgets(f) /\ f.eff.report = "failed"
           \/ Has(queue["processors"], Losing)
           \/ Has(queue["sink"], Refusal)
<1>1. reports \in Seq(Results)
  BY DEF TypeInv
<1>2. ASSUME NEW x, "failed" \in Range(Append(reports, x)) PROVE "failed" \in Range(reports) \/ x = "failed"
  <2>1. \A S : \A q \in Seq(S) : \A y, i : i \in DOMAIN Append(q, y) => Append(q, y)[i] = y \/ (i \in DOMAIN q /\ Append(q, y)[i] = q[i])
    OBVIOUS
  <2> QED BY <1>1, <1>2, <2>1 DEF Range
<1>3. ASSUME NEW N, ElseStep(N) PROVE "failed" \in Range(reports) \/ images.compiled["interframe"] = "failed"
  BY <1>3 DEF ElseStep, Elsewhere
<1>4. ASSUME NEW s, NEW op, NEW f, \E M : StageJob(s, op, f, M)
      PROVE  /\ "failed" \in Range(reports) \/ f.eff.report = "failed"
             /\ context'[s] = Forgets(f)
             /\ Job(s) \in AllCalls /\ Job(s).callee = s /\ Job(s).op = op
             /\ \A K : Job(s) \in K => Has(queue[ThreadOf(s)], K)
  <2>1. s \in Stage /\ Handled(s, f) /\ Calls(s, op) /\ f.eff.calls \in Queues(AllCalls)
    BY <1>4 DEF StageJob
  <2>2. reports' = reports \/ reports' = Append(reports, f.eff.report) \/ reports' = Append(reports, "none")
    BY <2>1 DEF Handled, Effects, Rtsp!Reported
  <2>3. "failed" \in Range(reports) \/ f.eff.report = "failed"
    BY <1>2, <2>2
  <2>4. context'[s] = Forgets(f)
    BY <2>1, HandledIs DEF Forgets
  <2>5. Job(s) \in AllCalls /\ Job(s).callee = s /\ Job(s).op = op
    BY <2>1, JobOfStage
  <2> DEFINE q == queue[ThreadOf(s)]
  <2>6. q \in Seq(CallType) /\ q # <<>> /\ Head(q) = Job(s)
    BY <2>1, StageQueue
  <2> HIDE DEF q
  <2>7. \A K : Job(s) \in K => Has(q, K)
    BY <2>6, HasTail
  <2> QED BY <2>3, <2>4, <2>5, <2>7 DEF q
<1>5. ThreadOf("frame") = "processors" /\ ThreadOf("interframe") = "processors" /\ ThreadOf("sink") = "sink"
  BY DEF ThreadOf
<1>6. ASSUME NEW op, NEW f, SourceJob(op, f)
      PROVE  "failed" \in Range(reports) \/ (SourceJob(op, f) /\ context'.source = Forgets(f) /\ f.eff.report = "failed")
  <2>1. \E M : StageJob("source", op, f, M)
    BY <1>6, StageJobs
  <2>2. "failed" \in Range(reports) \/ f.eff.report = "failed"
    BY <1>4, <2>1
  <2>3. context'["source"] = Forgets(f)
    BY <1>4, <2>1
  <2> QED BY <1>6, <2>2, <2>3
<1>7. ASSUME NEW op, NEW f, FrameJob(op, f) PROVE "failed" \in Range(reports) \/ Has(queue["processors"], Losing)
  <2>1. \E M : StageJob("frame", op, f, M)
    BY <1>7, StageJobs
  <2>2. f.eff.report = "failed" => op = "failed"
    BY <1>7 DEF FrameJob
  <2>3. op = "failed" => Job("frame") \in Losing
    BY <1>4, <2>1 DEF Losing
  <2>4. "failed" \in Range(reports) \/ f.eff.report = "failed"
    BY <1>4, <2>1
  <2>5. \A K : Job("frame") \in K => Has(queue[ThreadOf("frame")], K)
    BY <1>4, <2>1
  <2> QED BY <1>5, <2>2, <2>3, <2>4, <2>5
<1>8. ASSUME NEW op, NEW f, InterJob(op, f) PROVE "failed" \in Range(reports) \/ Has(queue["processors"], Losing)
  <2>1. \E M : StageJob("interframe", op, f, M)
    BY <1>8, StageJobs
  <2>2. f.eff.report = "failed" => op = "failed"
    BY <1>8 DEF InterJob
  <2>3. op = "failed" => Job("interframe") \in Losing
    BY <1>4, <2>1 DEF Losing
  <2>4. "failed" \in Range(reports) \/ f.eff.report = "failed"
    BY <1>4, <2>1
  <2>5. \A K : Job("interframe") \in K => Has(queue[ThreadOf("interframe")], K)
    BY <1>4, <2>1
  <2> QED BY <1>5, <2>2, <2>3, <2>4, <2>5
<1>9. ASSUME NEW op, NEW f, SinkJob(op, f) PROVE "failed" \in Range(reports) \/ Has(queue["sink"], Refusal)
  <2>1. \E M : StageJob("sink", op, f, M)
    BY <1>9, StageJobs
  <2>2. f.eff.report = "failed" => op = "writeFailed"
    BY <1>9 DEF SinkJob
  <2>3. op = "writeFailed" => Job("sink") \in Refusal
    BY <1>4, <2>1 DEF Refusal
  <2>4. "failed" \in Range(reports) \/ f.eff.report = "failed"
    BY <1>4, <2>1
  <2>5. \A K : Job("sink") \in K => Has(queue[ThreadOf("sink")], K)
    BY <1>4, <2>1
  <2> QED BY <1>5, <2>2, <2>3, <2>4, <2>5
<1> QED BY <1>3, <1>6, <1>7, <1>8, <1>9 DEF SomeJob
-----------------------------------------------------------------------------
(* Part 9: the outcome.                                                    *)

(* The first launch finds neither the source nor its init.                 *)
LEMMA LaunchFindsNothing ==
    ASSUME TypeInv, StartInv, pipeline.launched = 0
    PROVE  ~context.source.exists /\ ~Has(queue["source"], Inits)
<1>1. Known(There, queue) = Launched(0)
  BY DEF StartInv, QueuesInv
<1>2. Launched(0) = {}
  BY DEF Launched
<1>3. "source" \in Stage /\ ThreadOf("source") = "source"
  BY DEF Stage, ThreadOf
<1>4. "source" \notin There /\ ~HasInit(queue["source"], "source")
  BY <1>1, <1>2, <1>3 DEF Known
<1> QED BY <1>3, <1>4 DEF There, HasInit, Has, Inits

LEMMA BegunStays ==
    ASSUME TypeInv, StartInv, Begun, SomeJob \/ \E N : ElseStep(N)
    PROVE  Begun'
<1> DEFINE q == queue["source"]
           r == queue'["source"]
           c == context.source
           d == context'.source
<1>1. Alone(q, Inits) /\ (Has(q, Inits) => ~c.exists) /\ (c.opened => c.exists)
  BY DEF Begun
<1>2. "source" \in Thread /\ "source" \in Stage /\ ThreadOf("source") = "source"
  BY DEF Thread, Stage, ThreadOf
<1>3. PICK N : StepAdds(N)
  BY StepsAdd
<1>4. ASSUME N \intersect Inits = {} PROVE Alone(r, Inits) /\ (Has(r, Inits) => Has(q, Inits))
  <2>1. NoMore(q, r, Inits)
    BY <1>2, <1>3, <1>4 DEF StepAdds, Adds, AddsTo
  <2> QED BY <1>1, <2>1 DEF NoMore
<1>5. ASSUME d = c PROVE d.opened => d.exists
  BY <1>1, <1>5
<1>6. CASE N \intersect Inits # {}
  <2>1. Launch /\ pipeline.launched = 0
    BY <1>3, <1>6 DEF StepAdds
  <2>2. ~c.exists /\ ~Has(q, Inits)
    BY <2>1, LaunchFindsNothing
  <2>3. d = c
    BY <2>1 DEF Launch
  <2>4. queue' = Posted(queue, Call("source", "init")) /\ queue \in Queues(AllCalls)
    BY <2>1 DEF Launch, StageOrder, TypeInv
  <2>5. Call("source", "init") \in CallType /\ Call("source", "init").callee = "source"
    BY <1>2, PipelineCalls, CallsTyped
  <2>6. r = Append(q, Call("source", "init")) /\ q \in Seq(CallType)
    BY <1>2, <2>4, <2>5 DEF Posted, Queues
  <2>7. Alone(r, Inits)
    BY <2>2, <2>5, <2>6, HasConcat
  <2> QED BY <1>5, <2>2, <2>3, <2>7 DEF Begun
<1>7. CASE N \intersect Inits = {} /\ d = c
  BY <1>1, <1>4, <1>5, <1>7 DEF Begun
<1>8. CASE N \intersect Inits = {} /\ d # c
  <2>1. PICK op, f : SourceJob(op, f) /\ d = Forgets(f)
    BY <1>8, StepsChange
  <2>2. f \in SourceContext(video, BOOLEAN, TRUE) /\ d.exists = f.exists /\ d.opened = f.opened
    BY <2>1 DEF SourceJob, SourceContext, Forgets
  <2>3. CASE op # "init"
    <3>1. f.exists = c.exists /\ f.opened = c.opened
      BY <2>1, <2>3 DEF SourceJob, SourceSays
    <3> QED BY <1>1, <1>4, <1>8, <2>2, <3>1 DEF Begun
  <2>4. CASE op = "init"
    <3>1. d.exists
      BY <2>1, <2>2, <2>4 DEF SourceJob, SourceBegins
    <3>2. q \in Seq(CallType) /\ q # <<>> /\ Head(q) \in Inits
      BY <2>1, <2>4, InitFindsNothing DEF SourceJob
    <3>3. ~Has(Tail(q), Inits)
      BY <1>1, <3>2, HasTail
    <3> DEFINE e == f.eff.calls["source"]
    <3>4. StageJob("source", op, f, SourceCalls(TRUE))
      BY <2>1, StageJobs
    <3>5. e \in Seq(CallType) /\ r = Tail(q) \o e
      <4>1. f.eff.calls \in Queues(AllCalls) /\ Calls("source", op) /\ Handled("source", f)
        BY <3>4 DEF StageJob
      <4> QED BY <1>2, <4>1, HandledQueues
    <3>6. \A i \in DOMAIN e : e[i] \notin Inits
      <4>1. \A i \in DOMAIN e : e[i] \in SourceCalls(TRUE)
        BY <1>2, <3>4 DEF StageJob
      <4> QED BY <4>1, StagesAdd
    <3> DEFINE p == Tail(q)
    <3>7. p \in Seq(CallType)
      BY <3>2
    <3> HIDE DEF e, p
    <3>8. NoMore(p, p \o e, Inits)
      BY <3>5, <3>6, <3>7, NoMoreOn
    <3>9. ~Has(r, Inits)
      BY <3>3, <3>5, <3>8 DEF NoMore, p
    <3> QED BY <1>4, <1>8, <3>1, <3>9 DEF Begun
  <2> QED BY <2>3, <2>4
<1> QED BY <1>6, <1>7, <1>8

(* A source that has read its file to the end could open it.               *)
EofRead == context.source.eofReached => context.source.opened /\ video.end = "eof"

LEMMA EofStays ==
    ASSUME TypeInv, EofRead, SomeJob \/ \E N : ElseStep(N)
    PROVE  EofRead'
<1> DEFINE c == context.source
           d == context'.source
<1>1. video' = video
  BY StepsChange
<1>2. CASE d = c
  BY <1>1, <1>2 DEF EofRead
<1>3. CASE d # c
  <2>1. PICK op, f : SourceJob(op, f) /\ d = Forgets(f)
    BY <1>3, StepsChange
  <2>2. d.eofReached = f.eofReached /\ d.opened = f.opened
    BY <2>1 DEF SourceJob, SourceContext, Forgets
  <2>3. CASE op = "init"
    BY <1>1, <2>1, <2>2, <2>3 DEF SourceJob, SourceBegins, EofRead
  <2>4. CASE op # "init"
    BY <1>1, <2>1, <2>2, <2>4 DEF SourceJob, SourceSays, EofRead
  <2> QED BY <2>3, <2>4
<1> QED BY <1>2, <1>3

(* The writer has calls only when the sink has handed frames to it.        *)
WriterFed == Has(queue["writer"], Writing) => Handed(context.sink.sdh) # 0

(* The sink hands on no fewer frames than before.                          *)
LEMMA SinkHandsMore ==
    ASSUME TypeInv, FlowInv, NEW op, NEW f, SinkJob(op, f), context'.sink = Forgets(f)
    PROVE  /\ Handed(context.sink.sdh) # 0 => Handed(context'.sink.sdh) # 0
           /\ Handed(context'.sink.sdh) # 0 \/ queue'["writer"] = queue["writer"]
<1> DEFINE c == context.sink
           A == Pairs(End(context.source))
<1>1. c.eff.calls["writer"] = <<>> /\ Handed(c.sdh) \in Nat /\ "writer" \in Thread
  <2>1. c.eff = NoEffects /\ Handed(context["sink"].sdh) \in Nat
    BY ContextsTyped, HandedNumbers DEF Stage
  <2> QED BY <2>1, ThreadsAre DEF NoEffects
<1>2. context'.sink.sdh = f.sdh
  BY DEF SinkJob, SinkContext, Forgets
<1>3. SinkHands(c, f, A)
  BY DEF SinkJob
<1>4. CASE f.eff.calls["writer"] = c.eff.calls["writer"] /\ Handed(f.sdh) = Handed(c.sdh)
  <2>1. StageJob("sink", op, f, SinkCalls)
    BY StageJobs
  <2>2. f.eff.calls \in Queues(AllCalls) /\ Calls("sink", op) /\ Handled("sink", f) /\ "sink" \in Stage
    BY <2>1 DEF StageJob
  <2>3. Dequeued("sink")["writer"] \in Seq(CallType) /\ queue'["writer"] = Dequeued("sink")["writer"] \o f.eff.calls["writer"]
    BY <1>1, <2>2, HandledQueues
  <2>4. Dequeued("sink")["writer"] = queue["writer"]
    BY <1>1, ThreadsAre DEF Dequeued, TypeInv, Queues
  <2>5. \A q \in Seq(CallType) : q \o <<>> = q
    OBVIOUS
  <2> QED BY <1>1, <1>2, <1>4, <2>3, <2>4, <2>5
<1>5. CASE \E load \in Seq(A) : load # <<>> /\ Batch(load, Handed(c.sdh), Handed(f.sdh), A)
  <2>1. PICK load \in Seq(A) : load # <<>> /\ Batch(load, Handed(c.sdh), Handed(f.sdh), A)
    BY <1>5
  <2>2. Range(load) # {}
    <3>1. 1 \in DOMAIN load
      BY <2>1
    <3> QED BY <3>1 DEF Range
  <2>3. NumbersOf(Range(load)) = Handed(c.sdh) .. Handed(f.sdh) - 1 /\ Handed(f.sdh) \in Nat
    BY <2>1 DEF Batch
  <2>4. NumbersOf(Range(load)) # {}
    BY <2>2 DEF NumbersOf
  <2>5. Handed(f.sdh) # 0
    BY <1>1, <2>3, <2>4
  <2> QED BY <1>2, <2>5
<1> QED BY <1>3, <1>4, <1>5 DEF SinkHands

LEMMA WriterFedStays ==
    ASSUME TypeInv, FlowInv, WriterFed, SomeJob \/ \E N : ElseStep(N)
    PROVE  WriterFed'
<1>1. PICK N : StepAdds(N)
  BY StepsAdd
<1>2. ASSUME N \intersect Writing = {} PROVE Has(queue'["writer"], Writing) => Has(queue["writer"], Writing)
  BY <1>1, <1>2, ThreadsAre DEF StepAdds, Adds, AddsTo, NoMore
<1>3. CASE context'.sink = context.sink /\ N \intersect Writing = {}
  BY <1>2, <1>3 DEF WriterFed
<1>4. CASE context'.sink # context.sink
  <2>1. PICK op, f : SinkJob(op, f) /\ context'.sink = Forgets(f)
    BY <1>4, StepsChange
  <2> QED BY <2>1, SinkHandsMore DEF WriterFed
<1>5. CASE N \intersect Writing # {}
  <2>1. PICK op, f : SinkJob(op, f)
    BY <1>1, <1>5 DEF StepAdds
  <2>2. StageJob("sink", op, f, SinkCalls)
    BY <2>1, StageJobs
  <2>3. context'["sink"] = Forgets(f)
    BY <2>2, HandledIs DEF StageJob, Forgets
  <2> QED BY <2>1, <2>3, SinkHandsMore DEF WriterFed
<1> QED BY <1>3, <1>4, <1>5
-----------------------------------------------------------------------------
(* The encoder was not opened before the first frames were written: it is  *)
(* not opened any more.                                                    *)
Refused == ~context.sink.codecOpen /\ Handed(context.sink.sdh) # 0

LEMMA RefusedStays ==
    ASSUME TypeInv, FlowInv, SizesFirst, Refused, SomeJob \/ \E N : ElseStep(N)
    PROVE  Refused'
<1>1. CASE context'.sink = context.sink
  BY <1>1 DEF Refused
<1>2. CASE context'.sink # context.sink
  <2>1. PICK op, f : SinkJob(op, f) /\ context'.sink = Forgets(f)
    BY <1>2, StepsChange
  <2>2. Handed(context'.sink.sdh) # 0
    BY <2>1, SinkHandsMore DEF Refused
  <2>3. op # "params"
    <3> SUFFICES ASSUME op = "params" PROVE FALSE
      OBVIOUS
    <3>1. Seen(context["sink"].sdh) = {}
      BY <2>1, SizeFindsNothing DEF SinkJob
    <3>2. Handed(context["sink"].sdh) \in Nat
      BY HandedNumbers DEF Stage
    <3>3. context["sink"].sdh.next \in Nat /\ context["sink"].sdh.out \in Seq(FrameType)
      BY ContextsTyped DEF SinkContext, Handler
    <3>4. Handed(context["sink"].sdh) = 0
      BY <3>1, <3>2, <3>3, NothingSeen
    <3> QED BY <3>4 DEF Refused
  <2>4. ~f.codecOpen
    BY <2>1, <2>3 DEF SinkJob, Refused
  <2>5. context'.sink.codecOpen = f.codecOpen
    BY <2>1 DEF SinkJob, SinkContext, Forgets
  <2> QED BY <2>2, <2>4, <2>5 DEF Refused
<1> QED BY <1>1, <1>2

(* The writer has told the sink so, an evaluation has told its stage.      *)
Refusals == Has(queue["sink"], Refusal) => Refused

Losses == Has(queue["processors"], Losing) => Lossy

LEMMA RefusalsStay ==
    ASSUME TypeInv, FlowInv, SizesFirst, WriterFed, Refusals, SomeJob \/ \E N : ElseStep(N)
    PROVE  Refusals'
<1>1. PICK N : StepAdds(N)
  BY StepsAdd
<1>2. CASE N \intersect Refusal = {}
  <2>1. Has(queue'["sink"], Refusal) => Has(queue["sink"], Refusal)
    BY <1>1, <1>2, ThreadsAre DEF StepAdds, Adds, AddsTo, NoMore
  <2>2. Refused => Refused'
    BY RefusedStays
  <2> QED BY <2>1, <2>2 DEF Refusals
<1>3. CASE N \intersect Refusal # {}
  BY <1>1, <1>3 DEF StepAdds, WriterFed, Refused, Refusals
<1> QED BY <1>2, <1>3

LEMMA LossesStay ==
    ASSUME TypeInv, StartInv, FlowInv, ScriptsInv, Losses, SomeJob \/ \E N : ElseStep(N), [Next]_vars
    PROVE  Losses'
<1>1. PICK N : StepAdds(N)
  BY StepsAdd
<1>2. CASE N \intersect Losing = {}
  <2>1. Has(queue'["processors"], Losing) => Has(queue["processors"], Losing)
    BY <1>1, <1>2, ThreadsAre DEF StepAdds, Adds, AddsTo, NoMore
  <2>2. Lossy => Lossy'
    BY LossyStays
  <2> QED BY <2>1, <2>2 DEF Losses
<1>3. CASE N \intersect Losing # {}
  <2>1. PICK job \in images.evaluating : EvaluationDone(job) /\ Fails(job)
    BY <1>1, <1>3 DEF StepAdds
  <2>2. Lossy'
    BY <2>1, LossyFails
  <2> QED BY <2>2 DEF Losses
<1> QED BY <1>2, <1>3

(* Why the video may have failed. None of the reasons goes away.           *)
Cause ==
    \/ \E s \in {"frame", "interframe"} : images.compiled[s] = "failed"
    \/ context.source.exists /\ ~context.source.opened
    \/ video.end = "error"
    \/ Lossy
    \/ Refused

FailInv ==
    /\ SizesFirst /\ Begun /\ EofRead /\ WriterFed /\ Refusals /\ Losses
    /\ "failed" \in Range(reports) => Cause

LEMMA CauseStays ==
    ASSUME TypeInv, StartInv, FlowInv, ScriptsInv, SizesFirst, Begun, Cause,
           SomeJob \/ \E N : ElseStep(N), [Next]_vars
    PROVE  Cause'
<1>1. CASE \E s \in {"frame", "interframe"} : images.compiled[s] = "failed"
  BY <1>1, StepsChange DEF Cause
<1>2. CASE context.source.exists /\ ~context.source.opened
  <2>1. CASE context'.source = context.source
    BY <1>2, <2>1 DEF Cause
  <2>2. CASE context'.source # context.source
    <3>1. PICK op, f : SourceJob(op, f) /\ context'.source = Forgets(f)
      BY <2>2, StepsChange
    <3>2. op # "init"
      BY <1>2, <3>1, InitFindsNothing DEF SourceJob
    <3>3. f.exists = context.source.exists /\ f.opened = context.source.opened
      BY <3>1, <3>2 DEF SourceJob, SourceSays
    <3>4. context'.source.exists = f.exists /\ context'.source.opened = f.opened
      BY <3>1 DEF SourceJob, SourceContext, Forgets
    <3> QED BY <1>2, <3>3, <3>4 DEF Cause
  <2> QED BY <2>1, <2>2
<1>3. CASE video.end = "error"
  BY <1>3, StepsChange DEF Cause
<1>4. CASE Lossy
  BY <1>4, LossyStays DEF Cause
<1>5. CASE Refused
  BY <1>5, RefusedStays DEF Cause
<1> QED BY <1>1, <1>2, <1>3, <1>4, <1>5 DEF Cause

(* Every report of a failure has a reason.                                 *)
LEMMA FailureCaused ==
    ASSUME TypeInv, StartInv, FlowInv, ScriptsInv, FailInv,
           SomeJob \/ \E N : ElseStep(N), [Next]_vars, "failed" \in Range(reports')
    PROVE  Cause'
<1>1. CASE Cause
  BY <1>1, CauseStays DEF FailInv
<1>2. CASE ~Cause
  <2>1. images.compiled["interframe"] # "failed" /\ "failed" \notin Range(reports)
    BY <1>2 DEF Cause, FailInv
  <2>2. ~Has(queue["processors"], Losing) /\ ~Has(queue["sink"], Refusal)
    BY <1>2 DEF Cause, FailInv, Losses, Refusals
  <2>3. PICK op, f : SourceJob(op, f) /\ context'.source = Forgets(f) /\ f.eff.report = "failed"
    BY <2>1, <2>2, StepsReport
  <2>4. CASE op = "init"
    <3>1. ~context.source.exists
      BY <2>3, <2>4, InitFindsNothing DEF SourceJob, FailInv
    <3>2. PICK opened \in BOOLEAN : SourceBegins(context.source, opened, f)
      BY <2>3, <2>4 DEF SourceJob
    <3>3. ~opened
      BY <2>3, <3>2 DEF SourceBegins
    <3>4. f.exists /\ f.opened = context.source.opened
      <4>1. context.source.opened \in BOOLEAN
        BY ContextsTyped DEF SourceContext
      <4> QED BY <3>2, <3>3, <4>1 DEF SourceBegins
    <3>5. ~context.source.opened
      BY <3>1 DEF FailInv, Begun
    <3>6. context'.source.exists /\ ~context'.source.opened
      BY <2>3, <3>4, <3>5 DEF SourceJob, SourceContext, Forgets
    <3> QED BY <3>6 DEF Cause
  <2>5. CASE op # "init"
    <3>1. video.end = "error"
      BY <2>3, <2>5 DEF SourceJob, SourceSays
    <3> QED BY <1>2, <3>1 DEF Cause
  <2> QED BY <2>4, <2>5
<1> QED BY <1>1, <1>2

LEMMA FailStep ==
    ASSUME TypeInv, StartInv, FlowInv, ScriptsInv, EndInv, FailInv, [Next]_vars
    PROVE  FailInv'
<1>1. SomeJob \/ \E N : ElseStep(N)
  BY Steps
<1>2. SizesFirst'
  BY <1>1, SizesStay, SizesRest DEF FailInv
<1>3. Begun' /\ EofRead' /\ WriterFed'
  BY <1>1, BegunStays, EofStays, WriterFedStays DEF FailInv
<1>4. Refusals'
  BY <1>1, RefusalsStay DEF FailInv
<1>5. Losses'
  BY <1>1, LossesStay DEF FailInv
<1>6. "failed" \in Range(reports') => Cause'
  BY <1>1, FailureCaused
<1> QED BY <1>2, <1>3, <1>4, <1>5, <1>6 DEF FailInv

(* Nothing is on its way at first.                                         *)
LEMMA FailInit ==
    ASSUME Init
    PROVE  FailInv
<1>1. /\ ~context.source.opened /\ ~context.source.eofReached /\ reports = <<>>
      /\ \A s \in Stage : Handed(context[s].sdh) = 0
      /\ \A t \in Thread : queue[t] = <<>>
  <2> DEFINE h == EmptyHandler
  <2>1. /\ Source!EmptyHandler = h /\ FrameStage!EmptyHandler = h
        /\ InterStage!EmptyHandler = h /\ Sink!EmptyHandler = h
    BY DEF Source!EmptyHandler, EmptyHandler, FrameStage!EmptyHandler, InterStage!EmptyHandler, Sink!EmptyHandler
  <2>2. h.next = 0 /\ h.out = <<>>
    BY DEF EmptyHandler
  <2> HIDE DEF h
  <2>3. Handed(h) = 0
    <3>1. Len(<<>>) = 0 /\ 0 - 0 = 0
      OBVIOUS
    <3> QED BY <2>2, <3>1 DEF Handed
  <2>4. /\ context.source.sdh = h /\ context.frame.sdh = h /\ context.interframe.sdh = h /\ context.sink.sdh = h
        /\ ~context.source.opened /\ ~context.source.eofReached /\ reports = <<>>
        /\ \A t \in Thread : queue[t] = <<>>
    BY <2>1 DEF Init, Source!NoContext, FrameStage!NoContext, InterStage!NoContext, Sink!NoContext
  <2> QED BY <2>3, <2>4 DEF Stage
<1>2. \A M : ~Has(<<>>, M) /\ Alone(<<>>, M)
  BY DEF Has, Alone
<1>3. SizesFirst
  BY <1>1, LinksAre, SizeAheadNone DEF SizesFirst
<1>4. Begun /\ EofRead /\ WriterFed /\ Refusals /\ Losses
  BY <1>1, <1>2, ThreadsAre DEF Begun, EofRead, WriterFed, Refusals, Losses
<1>5. "failed" \notin Range(reports)
  BY <1>1 DEF Range
<1> QED BY <1>3, <1>4, <1>5 DEF FailInv

(* A video that is finished did not fail.                                  *)
LEMMA OutcomesExclude ==
    ASSUME TypeInv, FlowInv, EndInv, FailInv, "finished" \in Range(reports),
           \A s \in DOMAIN images.compiled : images.compiled[s] # "failed"
    PROVE  "failed" \notin Range(reports)
<1> SUFFICES ASSUME Cause PROVE FALSE
  BY DEF FailInv
<1>1. context.sink.finished
  <2>1. PICK i \in DOMAIN reports : reports[i] = "finished"
    BY DEF Range
  <2> QED BY <2>1 DEF EndInv, Told
<1>2. /\ context.source.eofFlushed
      /\ Handed(context.sink.sdh) = context.source.processed - 1 /\ Handed(context.sink.sdh) # 0
  BY <1>1 DEF EndInv, AllHanded, LastSent
<1>3. context.sink.codecOpen
  BY <1>1 DEF EndInv, LastIsLast
<1>4. context.source.opened /\ video.end = "eof"
  <2>1. SourceFlow(video, context.source)
    BY HandlersSettled DEF FlowInv
  <2> QED BY <1>2, <2>1 DEF SourceFlow, FailInv, EofRead
<1>5. ~\E s \in {"frame", "interframe"} : images.compiled[s] = "failed"
  BY DEF TypeInv, ImagesType
<1>6. ~Lossy
  <2> SUFFICES ASSUME NEW p \in Ghosts, FlowWith({p}) PROVE FALSE
    BY DEF Lossy
  <2>1. EndBounds(context.source, context.sink.sdh, Pending({p}, "frame") \union Pending({p}, "interframe"))
    BY EndBoundedWith
  <2>2. Pending({p}, "frame") \union Pending({p}, "interframe") = {}
    BY <1>2, <2>1 DEF EndBounds
  <2>3. p.stage \in {"frame", "interframe"}
    BY DEF Ghosts
  <2> QED BY <2>2, <2>3 DEF Pending
<1> QED BY <1>3, <1>4, <1>5, <1>6 DEF Cause, Refused

LEMMA OneEnd ==
    ASSUME TypeInv, FlowInv, EndInv, FailInv
    PROVE  OneOutcome
<1> SUFFICES ASSUME \A s \in DOMAIN images.compiled : images.compiled[s] # "failed"
             PROVE  /\ ~({"finished", "failed"} \subseteq Range(reports))
                    /\ Cardinality({i \in DOMAIN reports : reports[i] = "finished"}) <= 1
  BY DEF OneOutcome
<1>1. ~({"finished", "failed"} \subseteq Range(reports))
  BY OutcomesExclude
<1> DEFINE E == {i \in DOMAIN reports : reports[i] = "finished"}
<1>2. \A i, j \in E : i = j
  BY DEF EndInv, Told
<1> HIDE DEF E
<1>3. Cardinality(E) <= 1
  <2>1. CASE E = {}
    <3>1. Cardinality(E) = 0
      BY <2>1, FS_EmptySet
    <3> QED BY <3>1
  <2>2. CASE E # {}
    <3>1. PICK i : E = {i}
      BY <1>2, <2>2
    <3>2. Cardinality(E) = 1
      BY <3>1, FS_Singleton
    <3> QED BY <3>2
  <2> QED BY <2>1, <2>2
<1> QED BY <1>1, <1>3 DEF E

(* The user of the pipeline gets one outcome: a video is not reported as   *)
(* finished twice, nor as finished and as failed, unless a script could    *)
(* not be compiled. When it is finished the source was opened and read to  *)
(* the end, the encoder was open, and no frame was lost to an evaluation;  *)
(* and a failure is reported only because of one of these, which then      *)
(* stays so.                                                               *)
THEOREM OutcomeIsOne == Spec => []OneOutcome
<1>1. Init => TypeInv /\ StartInv /\ FlowInv /\ ScriptsInv /\ EndInv /\ FailInv
  BY TypeInit, StartInit, FlowInit, EndInit, FailInit
<1>2. TypeInv /\ StartInv /\ FlowInv /\ ScriptsInv /\ EndInv /\ FailInv /\ [Next]_vars
          => (TypeInv /\ StartInv /\ FlowInv /\ ScriptsInv /\ EndInv /\ FailInv)'
  BY TypeStep, StartStep, FlowStep, EndStep, FailStep
<1>3. TypeInv /\ FlowInv /\ EndInv /\ FailInv => OneOutcome
  BY OneEnd
<1> QED BY <1>1, <1>2, <1>3, PTL DEF Spec
-----------------------------------------------------------------------------
(* Part 10: the file. The images that the k-th entry of the file may have  *)
(* are those of VideoTransfer; a sequence goes on with those from place n  *)
(* on.                                                                     *)
Follow(n, s) == \A i \in DOMAIN s : s[i] \in Transfer!Entries(n + i)

(* They are the images of the pairs.                                       *)
LEMMA PairsShow ==
    ASSUME NEW f \in FrameType, NEW k, k = f.number + 1
    PROVE  f \in Pairs(-1) <=> f.image \in Transfer!Entries(k)
<1>1. f.number \in Nat
  BY DEF FrameType
<1>2. k - 1 = f.number /\ k = f.number + 1 /\ f.number # (-1) - 1
  BY <1>1
<1>3. f \in Pairs(-1) <=> f.image \in {<<f.number>>, <<f.number, f.number + 1>>}
  BY <1>2 DEF Pairs
<1>4. Transfer!Entries(k) = {<<f.number>>, <<f.number, f.number + 1>>}
  BY <1>2 DEF Transfer!Entries
<1> QED BY <1>3, <1>4

(* Such sequences one behind the other, and the rest of one.               *)
LEMMA FollowConcat ==
    ASSUME NEW S, NEW a \in Seq(S), NEW b \in Seq(S), NEW n \in Nat, Follow(n, a), Follow(n + Len(a), b)
    PROVE  Follow(n, a \o b)
<1> DEFINE y == a \o b
<1>1. /\ Len(a) \in Nat /\ DOMAIN a = 1 .. Len(a)
      /\ \A i \in DOMAIN y : \/ i \in DOMAIN a /\ y[i] = a[i]
                             \/ i - Len(a) \in DOMAIN b /\ y[i] = b[i - Len(a)]
      /\ DOMAIN y \subseteq Nat
  BY ConcatPlaces
<1> HIDE DEF y
<1>2. ASSUME NEW i \in DOMAIN y PROVE y[i] \in Transfer!Entries(n + i)
  <2>1. CASE i \in DOMAIN a /\ y[i] = a[i]
    BY <2>1 DEF Follow
  <2>2. CASE i - Len(a) \in DOMAIN b /\ y[i] = b[i - Len(a)]
    <3>1. y[i] \in Transfer!Entries((n + Len(a)) + (i - Len(a)))
      BY <2>2 DEF Follow
    <3>2. (n + Len(a)) + (i - Len(a)) = n + i
      BY <1>1
    <3> QED BY <3>1, <3>2
  <2> QED BY <1>1, <2>1, <2>2
<1> QED BY <1>2 DEF Follow, y

LEMMA FollowRest ==
    ASSUME NEW S, NEW a \in Seq(S), NEW n \in Nat, Follow(n, a), NEW k \in 0 .. Len(a)
    PROVE  Follow(n + k, SubSeq(a, k + 1, Len(a))) /\ Len(SubSeq(a, k + 1, Len(a))) = Len(a) - k
<1> DEFINE y == SubSeq(a, k + 1, Len(a))
<1>1. Len(a) \in Nat /\ DOMAIN a = 1 .. Len(a) /\ k \in Nat
  OBVIOUS
<1>2. /\ Len(y) = Len(a) - k /\ DOMAIN y = 1 .. Len(a) - k
      /\ \A i \in 1 .. Len(a) - k : y[i] = a[k + i]
  <2>1. k + 1 \in 1 .. Len(a) + 1 /\ Len(a) \in (k + 1) - 1 .. Len(a)
    BY <1>1
  <2>2. /\ y \in Seq(S) /\ Len(y) = Len(a) - (k + 1) + 1
        /\ \A i \in 1 .. Len(a) - (k + 1) + 1 : y[i] = a[(k + 1) + i - 1]
    BY <2>1, SubSeqProperties
  <2>3. Len(a) - (k + 1) + 1 = Len(a) - k /\ \A i \in 1 .. Len(a) - k : (k + 1) + i - 1 = k + i
    BY <1>1
  <2> HIDE DEF y
  <2> QED BY <2>2, <2>3
<1> HIDE DEF y
<1>3. ASSUME NEW i \in DOMAIN y PROVE y[i] \in Transfer!Entries((n + k) + i)
  <2>1. i \in 1 .. Len(a) - k /\ k + i \in DOMAIN a /\ n + (k + i) = (n + k) + i
    BY <1>1, <1>2
  <2>2. a[k + i] \in Transfer!Entries(n + (k + i))
    BY <2>1 DEF Follow
  <2> QED BY <1>2, <2>1, <2>2
<1> QED BY <1>2, <1>3 DEF Follow, y

(* The numbers of a part of a stream follow each other without gaps.       *)
LEMMA BatchPlaces ==
    ASSUME NEW load \in Seq(FrameType), NEW x, NEW y, NEW A, Batch(load, x, y, A)
    PROVE  Len(load) = y - x /\ \A k \in DOMAIN load : load[k].number = x + k - 1
<1> DEFINE l == Len(load)
           n(k) == load[k].number
           D == {k \in 1 .. l : n(k) # x + k - 1}
<1>1. x \in Nat /\ y \in Nat /\ x <= y /\ l \in Nat /\ DOMAIN load = 1 .. l
  BY LoadTyped DEF Batch
<1>2. \A k \in 1 .. l : n(k) \in x .. y - 1
  <2>1. NumbersOf(Range(load)) = x .. y - 1
    BY DEF Batch
  <2>2. \A k \in 1 .. l : n(k) \in NumbersOf(Range(load))
    BY <1>1 DEF NumbersOf, Range
  <2> QED BY <2>1, <2>2
<1>3. \A i \in x .. y - 1 : \E k \in 1 .. l : n(k) = i
  <2>1. ASSUME NEW i \in x .. y - 1 PROVE \E k \in 1 .. l : n(k) = i
    <3>1. i \in NumbersOf(Range(load))
      BY <2>1 DEF Batch
    <3> QED BY <1>1, <3>1 DEF NumbersOf, Range
  <2> QED BY <2>1
<1>4. \A j, k \in 1 .. l : j < k => n(j) < n(k)
  BY <1>1 DEF Batch
<1> HIDE DEF l, n
<1>5. D = {}
  <2> SUFFICES ASSUME D # {} PROVE FALSE
    OBVIOUS
  <2>1. D \in SUBSET Nat
    BY <1>1
  <2>2. PICK k \in D : \A j \in D : k <= j
    <3> HIDE DEF D
    <3> QED BY <2>1, MinOfNumbers
  <2>3. k \in 1 .. l /\ n(k) # x + k - 1 /\ n(k) \in x .. y - 1
    BY <1>2
  <2>4. \A j \in 1 .. l : j < k => n(j) = x + j - 1
    BY <2>2, <2>3
  <2>5. n(k) >= x + k - 1
    <3>1. CASE k = 1
      BY <1>1, <2>3, <3>1
    <3>2. CASE k # 1
      <4>1. k - 1 \in 1 .. l /\ k - 1 < k
        BY <1>1, <2>3, <3>2
      <4>2. n(k - 1) = x + (k - 1) - 1 /\ n(k - 1) < n(k)
        BY <1>4, <2>3, <2>4, <4>1
      <4> QED BY <1>1, <2>3, <4>2
    <3> QED BY <3>1, <3>2
  <2>6. x + k - 1 \in x .. y - 1 /\ x + k - 1 < n(k)
    BY <1>1, <2>3, <2>5
  <2>7. PICK j \in 1 .. l : n(j) = x + k - 1
    BY <1>3, <2>6
  <2>8. j < k \/ j = k \/ k < j
    BY <2>3
  <2>9. CASE j < k
    <3>1. x + j - 1 = x + k - 1
      BY <2>4, <2>7, <2>9
    <3> QED BY <1>1, <2>3, <2>9, <3>1
  <2>10. CASE k < j
    <3>1. n(k) < n(j) /\ n(k) \in Int /\ n(j) \in Int
      BY <1>2, <1>4, <2>3, <2>10
    <3> QED BY <1>1, <2>3, <2>6, <2>7, <3>1
  <2> QED BY <2>3, <2>7, <2>8, <2>9, <2>10
<1>6. \A k \in 1 .. l : n(k) = x + k - 1
  BY <1>5
<1>7. l = y - x
  <2>1. l <= y - x
    <3>1. CASE l = 0
      BY <1>1, <3>1
    <3>2. CASE l # 0
      <4>1. l \in 1 .. l
        BY <1>1, <3>2
      <4>2. n(l) = x + l - 1 /\ n(l) \in x .. y - 1
        BY <1>2, <1>6, <4>1
      <4> QED BY <1>1, <4>2
    <3> QED BY <3>1, <3>2
  <2>2. y - x <= l
    <3>1. CASE x = y
      BY <1>1, <3>1
    <3>2. CASE x # y
      <4>1. y - 1 \in x .. y - 1
        BY <1>1, <3>2
      <4>2. PICK k \in 1 .. l : n(k) = y - 1
        BY <1>3, <4>1
      <4>3. x + k - 1 = y - 1
        BY <1>6, <4>2
      <4> QED BY <1>1, <4>2, <4>3
    <3> QED BY <3>1, <3>2
  <2> QED BY <1>1, <2>1, <2>2
<1> QED BY <1>1, <1>6, <1>7 DEF l, n

(* What is written of a load of pairs follows, and the images that the     *)
(* encoder takes in of one.                                                *)
LEMMA ShownFollows ==
    ASSUME NEW load, Range(load) \subseteq Pairs(-1), NEW x \in Nat, NEW y \in Nat, NEW w, Shows(w, load, x, y)
    PROVE  w \in Seq(Seq(Nat)) /\ Len(w) = y - x /\ Follow(x, w)
<1>1. /\ w \in Seq(Seq(Nat)) /\ Len(w) = y - x
      /\ \A i \in 1 .. y - x : \E f \in Range(load) : f.number = x + i - 1 /\ w[i] = f.image
  BY DEF Shows
<1>2. DOMAIN w = 1 .. y - x
  BY <1>1
<1>3. ASSUME NEW i \in DOMAIN w PROVE w[i] \in Transfer!Entries(x + i)
  <2>1. PICK f \in Range(load) : f.number = x + i - 1 /\ w[i] = f.image
    BY <1>1, <1>2
  <2>2. f \in Pairs(-1) /\ f \in FrameType /\ i \in Int /\ x + i = f.number + 1
    BY <1>2, <2>1, FrameSets
  <2> QED BY <2>1, <2>2, PairsShow
<1> QED BY <1>1, <1>3 DEF Follow

LEMMA TakenFollow ==
    ASSUME NEW load \in Seq(FrameType), NEW x, NEW y, Batch(load, x, y, Pairs(-1)), NEW w,
           w = [k \in 1 .. Len(load) |-> load[k].image]
    PROVE  w \in Seq(Seq(Nat)) /\ Len(w) = y - x /\ Follow(x, w)
<1>1. /\ Len(load) = y - x /\ Len(load) \in Nat /\ DOMAIN load = 1 .. Len(load)
      /\ \A k \in DOMAIN load : load[k].number = x + k - 1
      /\ x \in Nat /\ y \in Nat /\ Range(load) \subseteq Pairs(-1)
  BY BatchPlaces, LoadTyped DEF Batch
<1>2. w \in [1 .. Len(load) -> Seq(Nat)]
  <2>1. \A k \in 1 .. Len(load) : load[k].image \in Seq(Nat)
    <3>1. \A k \in DOMAIN load : load[k] \in FrameType
      OBVIOUS
    <3>2. \A f \in FrameType : f.image \in Seq(Nat)
      BY DEF FrameType
    <3> QED BY <1>1, <3>1, <3>2
  <2> QED BY <2>1
<1>3. w \in Seq(Seq(Nat)) /\ Len(w) = y - x
  BY <1>1, <1>2
<1>4. ASSUME NEW i \in DOMAIN w PROVE w[i] \in Transfer!Entries(x + i)
  <2>1. i \in DOMAIN load /\ i \in Int /\ w[i] = load[i].image /\ x + i = load[i].number + 1
    BY <1>1, <1>2
  <2>2. load[i] \in Pairs(-1) /\ load[i] \in FrameType
    BY <1>1, <2>1, FrameSets DEF Range
  <2> QED BY <2>1, <2>2, PairsShow
<1> QED BY <1>3, <1>4 DEF Follow

(* The entries that come out of the encoder are pairs.                     *)
LEMMA EntriesShow ==
    ASSUME NEW e \in Encoder, Follow(e.received, e.held), NEW n \in 0 .. Len(e.held)
    PROVE  Batch(Sink!EntriesOut(e, n), e.received, e.received + n, Pairs(-1))
<1> DEFINE load == Sink!EntriesOut(e, n)
           r == e.received
<1>1. load \in Seq(FrameType) /\ Batch(load, r, r + n, FrameType) /\ r \in Nat
  BY EntriesOutTyped, EntriesFollow DEF Encoder
<1>2. load = [i \in 1 .. n |-> Sink!Frame(r + i - 1, e.held[i])]
  BY DEF Sink!EntriesOut
<1>3. DOMAIN load = 1 .. n /\ \A i \in 1 .. n : load[i].number = r + i - 1 /\ load[i].image = e.held[i]
  BY <1>2 DEF Sink!Frame
<1>4. n \in Nat /\ 1 .. n \subseteq DOMAIN e.held
  BY DEF Encoder
<1> HIDE DEF load, r
<1>5. ASSUME NEW i \in DOMAIN load PROVE load[i] \in Pairs(-1)
  <2>1. load[i] \in FrameType /\ i \in 1 .. n /\ i \in Int
    BY <1>1, <1>3
  <2>2. load[i].image \in Transfer!Entries(r + i) /\ r + i = load[i].number + 1
    <3>1. e.held[i] \in Transfer!Entries(r + i)
      BY <1>4, <2>1 DEF Follow, r
    <3>2. load[i].number = r + i - 1 /\ load[i].image = e.held[i]
      BY <1>3, <2>1 DEF r
    <3>3. r + i = (r + i - 1) + 1
      BY <1>1, <2>1 DEF r
    <3> QED BY <3>1, <3>2, <3>3
  <2> QED BY <2>1, <2>2, PairsShow
<1>6. Range(load) \subseteq Pairs(-1)
  BY <1>5 DEF Range
<1>7. Batch(load, r, r + n, Pairs(-1))
  BY <1>1, <1>6 DEF Batch
<1> QED BY <1>7 DEF load, r
-----------------------------------------------------------------------------
(* The file has the entries of the video, in their order, and so have the  *)
(* calls that bring entries to the sink, up to those the encoder gave out. *)
Grows(c) == Len(c.written) = c.nextEntry /\ Follow(0, c.written)

EntriesPair(Q, c, e) ==
    /\ Stream(Q, Entries, c.nextEntry, e.received, Pairs(-1))
    /\ Closes(Q)
    /\ c.finished => ~Has(Q, Entries)

(* The images that the encoder keeps back are the next ones, and those that *)
(* are on the way to the writer follow them, up to t: these are all that    *)
(* the sink handed on, until the last ones are announced, with a batch that *)
(* is left out.                                                             *)
GivenTo(W, Q, c, e, t) ==
    /\ t \in Nat /\ Stream(W, Given, e.received + Len(e.held), t, Pairs(-1))
    /\ LastSent(W, Q, c) \/ t = Handed(c.sdh)
    /\ Handed(c.sdh) <= t + MaxWrite

EncoderFed(W, Q, c, e) ==
    /\ Follow(e.received, e.held)
    /\ ~c.codecOpen => e.received = 0 /\ e.held = <<>>
    /\ c.codecOpen => \E t : GivenTo(W, Q, c, e, t)

FileInv ==
    /\ Grows(context.sink)
    /\ EntriesPair(queue["sink"], context.sink, encoder)
    /\ EncoderFed(queue["writer"], queue["sink"], context.sink, encoder)

(* Calls that bring no entries change nothing.                             *)
LEMMA FileKept ==
    ASSUME NEW W, NEW Q, NEW c, NEW e, NEW P, Rests(Q, P),
           NEW d, d.nextEntry = c.nextEntry, d.finished = c.finished, d.codecOpen = c.codecOpen,
           Handed(d.sdh) = Handed(c.sdh), EntriesPair(Q, c, e), EncoderFed(W, Q, c, e)
    PROVE  EntriesPair(P, d, e) /\ EncoderFed(W, P, d, e)
<1>1. /\ Has(P, LastEntries) <=> Has(Q, LastEntries)
      /\ Has(P, Entries) => Has(Q, Entries)
      /\ Closes(Q) => Closes(P)
      /\ \A x, y, A : Stream(Q, Entries, x, y, A) => Stream(P, Entries, x, y, A)
  BY SameStream DEF Rests
<1>2. EntriesPair(P, d, e)
  BY <1>1 DEF EntriesPair
<1>3. LastSent(W, Q, c) <=> LastSent(W, P, d)
  BY <1>1 DEF LastSent
<1>4. ASSUME NEW t, GivenTo(W, Q, c, e, t) PROVE GivenTo(W, P, d, e, t)
  BY <1>3, <1>4 DEF GivenTo
<1>5. EncoderFed(W, P, d, e)
  BY <1>4 DEF EncoderFed
<1> QED BY <1>2, <1>5

LEMMA FileBeforeTheEnd ==
    ASSUME FileInv, BeforeTheEnd
    PROVE  FileInv'
<1>1. /\ queue'["writer"] = queue["writer"] /\ Rests(queue["sink"], queue'["sink"])
      /\ context'.sink = context.sink /\ encoder' = encoder
  BY DEF BeforeTheEnd
<1>2. /\ Grows(context.sink) /\ EntriesPair(queue["sink"], context.sink, encoder)
      /\ EncoderFed(queue["writer"], queue["sink"], context.sink, encoder)
  BY DEF FileInv
<1>3. /\ EntriesPair(queue'["sink"], context.sink, encoder)
      /\ EncoderFed(queue["writer"], queue'["sink"], context.sink, encoder)
  BY <1>1, <1>2, FileKept
<1> QED BY <1>1, <1>2, <1>3 DEF FileInv

-----------------------------------------------------------------------------
(* When the codec is opened, nothing has been handed to the writer yet.    *)
LEMMA NothingGiven ==
    ASSUME TypeInv, FlowInv, SizesFirst, WriterFed, Calls("sink", "params")
    PROVE  /\ Handed(context.sink.sdh) = 0
           /\ \A n \in Nat : \A A : Stream(queue["writer"], Given, n, n, A)
<1>1. Seen(context["sink"].sdh) = {}
  BY SizeFindsNothing
<1>2. Handed(context["sink"].sdh) \in Nat
  BY HandedNumbers DEF Stage
<1>3. context["sink"].sdh.next \in Nat /\ context["sink"].sdh.out \in Seq(FrameType)
  BY ContextsTyped DEF SinkContext, Handler
<1>4. Handed(context["sink"].sdh) = 0
  BY <1>1, <1>2, <1>3, NothingSeen
<1>5. ~Has(queue["writer"], Writing)
  BY <1>4 DEF WriterFed
<1>6. \A i \in DOMAIN queue["writer"] : queue["writer"][i] \notin Given
  BY <1>5 DEF Has, Given, Writing
<1> QED BY <1>4, <1>6, SilentStream

(* The sink passes on what it has.                                         *)
LEMMA MoreIsGiven ==
    ASSUME NEW W \in Seq(CallType), NEW Q, NEW c, NEW e, NEW s, AllHanded(W, Q, c, s), NEW t, GivenTo(W, Q, c, e, t),
           NEW P, Rests(Q, P), NEW d, d.finished = c.finished, NEW V, WriterFeeds(W, V, c, d, s)
    PROVE  \E u : GivenTo(V, P, d, e, u)
<1> DEFINE n == e.received + Len(e.held)
<1>1. /\ t \in Nat /\ Stream(W, Given, n, t, Pairs(-1))
      /\ LastSent(W, Q, c) \/ t = Handed(c.sdh)
      /\ Handed(c.sdh) <= t + MaxWrite
      /\ MaxWrite \in Nat
  BY FileToFileAssumption DEF GivenTo
<1>2. Has(P, LastEntries) <=> Has(Q, LastEntries)
  BY DEF Rests
<1> HIDE DEF n
<1>3. CASE V = W /\ Handed(d.sdh) = Handed(c.sdh)
  <2>1. LastSent(W, Q, c) => LastSent(V, P, d)
    BY <1>2, <1>3 DEF LastSent
  <2>2. GivenTo(V, P, d, e, t)
    BY <1>1, <1>3, <2>1 DEF GivenTo, n
  <2> QED BY <2>2
<1>4. CASE ~(V = W /\ Handed(d.sdh) = Handed(c.sdh))
  <2>1. /\ s.processed \in Nat /\ Handed(c.sdh) \in Nat /\ Handed(d.sdh) \in Nat
        /\ Handed(c.sdh) < Handed(d.sdh) /\ Handed(d.sdh) <= s.processed - 1
        /\ Handed(d.sdh) <= Handed(c.sdh) + MaxWrite
    BY <1>4 DEF WriterFeeds
  <2>2. PICK m \in CallType :
             /\ V = Append(W, m)
             /\ \/ m \in LastFrames
                \/ m \in Given /\ Batch(m.load, Handed(c.sdh), Handed(d.sdh), Pairs(-1))
    BY <1>4 DEF WriterFeeds
  <2>3. t = Handed(c.sdh)
    <3>1. ~LastSent(W, Q, c)
      BY <2>1 DEF AllHanded
    <3> QED BY <1>1, <3>1
  <2>4. \A f \in Pairs(-1) : f.number \in Nat
    BY FrameSets
  <2>5. /\ m \notin Given => Stream(V, Given, n, t, Pairs(-1))
        /\ m \in Given => \A z : Batch(m.load, t, z, Pairs(-1)) => Stream(V, Given, n, z, Pairs(-1))
    BY <1>1, <2>2, <2>4, StreamAppend
  <2>6. CASE m \in LastFrames
    <3>1. m \notin Given
      BY <2>6 DEF Given, LastFrames
    <3>2. LastSent(V, P, d)
      BY <2>2, <2>6, HasConcat DEF LastSent
    <3>3. GivenTo(V, P, d, e, t)
      BY <1>1, <2>1, <2>3, <2>5, <3>1, <3>2 DEF GivenTo, n
    <3> QED BY <3>3
  <2>7. CASE m \in Given /\ Batch(m.load, Handed(c.sdh), Handed(d.sdh), Pairs(-1))
    <3>1. Stream(V, Given, n, Handed(d.sdh), Pairs(-1))
      BY <2>3, <2>5, <2>7
    <3>2. GivenTo(V, P, d, e, Handed(d.sdh))
      BY <1>1, <2>1, <3>1 DEF GivenTo, n
    <3> QED BY <3>2
  <2> QED BY <2>2, <2>6, <2>7
<1> QED BY <1>3, <1>4

LEMMA FilePassed ==
    ASSUME TypeInv, FlowInv, EndInv, SizesFirst, WriterFed, FileInv, SinkPassed
    PROVE  FileInv'
<1> DEFINE c == context.sink
           d == context'.sink
           s == context.source
           e == encoder
           W == queue["writer"]
           V == queue'["writer"]
           Q == queue["sink"]
           P == queue'["sink"]
<1>1. /\ Rests(Q, P) /\ W \in Seq(CallType) /\ encoder' = e /\ WriterFeeds(W, V, c, d, s)
      /\ d.nextEntry = c.nextEntry /\ d.finished = c.finished /\ d.written = c.written
      /\ c.codecOpen => d.codecOpen
      /\ d.codecOpen => c.codecOpen \/ Calls("sink", "params")
  BY DEF SinkPassed, SinkKeeps
<1>2. Grows(c) /\ EntriesPair(Q, c, e) /\ EncoderFed(W, Q, c, e) /\ AllHanded(W, Q, c, s)
  BY DEF FileInv, EndInv
<1>3. ~c.codecOpen /\ Calls("sink", "params") => Handed(c.sdh) = 0 /\ Stream(W, Given, 0, 0, Pairs(-1))
  BY NothingGiven
<1>4. MaxWrite \in Nat
  BY FileToFileAssumption
<1> HIDE DEF c, d, s, e, W, V, Q, P
<1>5. EntriesPair(P, d, e)
  <2>1. /\ Has(P, Entries) => Has(Q, Entries)
        /\ Closes(Q) => Closes(P)
        /\ \A x, y, A : Stream(Q, Entries, x, y, A) => Stream(P, Entries, x, y, A)
    BY <1>1, SameStream DEF Rests
  <2> QED BY <1>1, <1>2, <2>1 DEF EntriesPair
<1>6. ASSUME d.codecOpen PROVE \E t : GivenTo(W, Q, c, e, t)
  <2>1. CASE c.codecOpen
    BY <1>2, <2>1 DEF EncoderFed
  <2>2. CASE ~c.codecOpen
    <3>1. e.received = 0 /\ e.held = <<>> /\ Handed(c.sdh) = 0 /\ Stream(W, Given, 0, 0, Pairs(-1))
      BY <1>1, <1>2, <1>3, <1>6, <2>2 DEF EncoderFed
    <3>2. e.received + Len(e.held) = 0
      <4>1. Len(<<>>) = 0 /\ 0 + 0 = 0
        OBVIOUS
      <4> QED BY <3>1, <4>1
    <3>3. 0 <= 0 + MaxWrite /\ 0 \in Nat
      BY <1>4
    <3>4. GivenTo(W, Q, c, e, 0)
      BY <3>1, <3>2, <3>3 DEF GivenTo
    <3> QED BY <3>4
  <2> QED BY <2>1, <2>2
<1>7. EncoderFed(V, P, d, e)
  <2>1. d.codecOpen => \E t : GivenTo(V, P, d, e, t)
    BY <1>1, <1>2, <1>6, MoreIsGiven
  <2> QED BY <1>1, <1>2, <2>1 DEF EncoderFed
<1>8. Grows(d)
  BY <1>1, <1>2 DEF Grows
<1> QED BY <1>1, <1>5, <1>7, <1>8 DEF FileInv, d, e, V, P

(* The first call leaves the queue.                                        *)
LEMMA ClosesTail ==
    ASSUME NEW q \in Seq(CallType), q # <<>>, Closes(q)
    PROVE  Closes(Tail(q)) /\ (Head(q) \in LastEntries => ~Has(Tail(q), Entries))
<1> DEFINE y == Tail(q)
<1>1. /\ Len(q) \in Nat \ {0} /\ DOMAIN q = 1 .. Len(q) /\ 1 \in DOMAIN q /\ q[1] = Head(q)
      /\ DOMAIN y = 1 .. Len(q) - 1
      /\ \A i \in DOMAIN y : i + 1 \in DOMAIN q /\ y[i] = q[i + 1]
  BY TailPlaces
<1> HIDE DEF y
<1>2. \A i \in DOMAIN y : i \in Int /\ i >= 1
  BY <1>1
<1>3. ASSUME NEW i \in DOMAIN y, NEW j \in DOMAIN y, y[i] \in LastEntries, y[j] \in Entries PROVE j <= i
  <2>1. i + 1 \in DOMAIN q /\ j + 1 \in DOMAIN q /\ q[i + 1] \in LastEntries /\ q[j + 1] \in Entries
    BY <1>1, <1>3
  <2>2. j + 1 <= i + 1
    BY <2>1 DEF Closes
  <2> QED BY <1>2, <2>2
<1>4. ASSUME Head(q) \in LastEntries, NEW j \in DOMAIN y, y[j] \in Entries PROVE FALSE
  <2>1. 1 \in DOMAIN q /\ j + 1 \in DOMAIN q /\ q[1] \in LastEntries /\ q[j + 1] \in Entries
    BY <1>1, <1>4
  <2>2. j + 1 <= 1
    BY <2>1 DEF Closes
  <2> QED BY <1>2, <2>2
<1> QED BY <1>3, <1>4 DEF Closes, Has, y

(* A callback writes the next entries to the file.                         *)
FileGrows(y) ==
    \E w : /\ context'.sink.written = context.sink.written \o w
           /\ w \in Seq(Seq(Nat)) /\ Len(w) = y - context.sink.nextEntry
           /\ Follow(Len(context.sink.written), w)

LEMMA StoredGrows ==
    ASSUME TypeInv, FileInv, NEW y, Stored(Pairs(-1), y)
    PROVE  FileGrows(y) /\ Grows(context'.sink) /\ context.sink.written \in Seq(Seq(Nat))
<1> DEFINE c == context.sink
           d == context'.sink
           load == Head(queue["sink"]).load
<1>1. c.nextEntry \in Nat /\ c.written \in Seq(Seq(Nat))
  BY ContextsTyped DEF SinkContext
<1>2. /\ Batch(load, c.nextEntry, y, Pairs(-1)) /\ d.nextEntry = y
      /\ \E w : d.written = c.written \o w /\ Shows(w, load, c.nextEntry, y)
  BY DEF Stored
<1>3. Grows(c)
  BY DEF FileInv
<1> HIDE DEF c, d, load
<1>4. PICK w : d.written = c.written \o w /\ Shows(w, load, c.nextEntry, y)
  BY <1>2
<1>5. y \in Nat /\ Range(load) \subseteq Pairs(-1)
  BY <1>2 DEF Batch
<1>6. w \in Seq(Seq(Nat)) /\ Len(w) = y - c.nextEntry /\ Follow(c.nextEntry, w)
  BY <1>1, <1>4, <1>5, ShownFollows
<1>7. Len(c.written) = c.nextEntry /\ Follow(0, c.written)
  BY <1>3 DEF Grows
<1>8. Follow(0, c.written \o w)
  <2>1. 0 + Len(c.written) = c.nextEntry /\ 0 \in Nat
    BY <1>1, <1>7
  <2> QED BY <1>1, <1>6, <1>7, <2>1, FollowConcat
<1>9. Len(c.written \o w) = y
  <2>0. \A a, b \in Seq(Seq(Nat)) : Len(a \o b) = Len(a) + Len(b)
    OBVIOUS
  <2>1. Len(c.written \o w) = Len(c.written) + Len(w)
    BY <1>1, <1>6, <2>0
  <2> QED BY <1>1, <1>5, <1>6, <1>7, <2>1
<1>10. Grows(d)
  BY <1>2, <1>4, <1>8, <1>9 DEF Grows
<1> QED BY <1>1, <1>4, <1>6, <1>7, <1>10 DEF FileGrows, c, d

LEMMA FileStored ==
    ASSUME TypeInv, FileInv, NEW y, Stored(Pairs(-1), y),
           context.sink.finished => context'.sink.finished,
           Head(queue["sink"]) \in LastEntries <=> context'.sink.finished
    PROVE  FileInv'
<1> DEFINE c == context.sink
           d == context'.sink
           W == queue["writer"]
           Q == queue["sink"]
           P == queue'["sink"]
           T == Tail(Q)
<1>1. /\ Q \in Seq(CallType) /\ Q # <<>> /\ Head(Q) \in Entries
      /\ queue'["writer"] = W /\ Rests(T, P) /\ encoder' = encoder
      /\ d.nextEntry = y /\ d.codecOpen = c.codecOpen /\ d.sdh = c.sdh
      /\ Stream(T, Entries, y, encoder.received, Pairs(-1))
  BY DEF Stored
<1>2. EntriesPair(Q, c, encoder) /\ EncoderFed(W, Q, c, encoder)
  BY DEF FileInv
<1>3. Grows(d)
  BY StoredGrows
<1>4. /\ c.finished => d.finished
      /\ Head(Q) \in LastEntries <=> d.finished
  OBVIOUS
<1> HIDE DEF c, d, W, Q, P
<1>5. Closes(T) /\ (Head(Q) \in LastEntries => ~Has(T, Entries))
  BY <1>1, <1>2, ClosesTail DEF EntriesPair
<1>6. EntriesPair(T, d, encoder)
  BY <1>1, <1>4, <1>5 DEF EntriesPair
<1>7. LastSent(W, Q, c) => LastSent(W, T, d)
  <2>1. Has(Q, LastEntries) => Has(T, LastEntries) \/ Head(Q) \in LastEntries
    <3> SUFFICES ASSUME NEW i \in DOMAIN Q, Q[i] \in LastEntries, i # 1
                 PROVE  Has(T, LastEntries)
      <4>1. Q[1] = Head(Q)
        BY <1>1, TailPlaces
      <4> QED BY <4>1 DEF Has
    <3>1. i - 1 \in DOMAIN T /\ T[i - 1] = Q[i]
      BY <1>1, TailPlaces
    <3> QED BY <3>1 DEF Has
  <2> QED BY <1>4, <2>1 DEF LastSent
<1> HIDE DEF T
<1>8. ASSUME NEW t, GivenTo(W, Q, c, encoder, t) PROVE GivenTo(W, T, d, encoder, t)
  BY <1>1, <1>7, <1>8 DEF GivenTo
<1>9. EncoderFed(W, T, d, encoder)
  BY <1>1, <1>2, <1>8 DEF EncoderFed
<1>10. EntriesPair(P, d, encoder) /\ EncoderFed(W, P, d, encoder)
  BY <1>1, <1>6, <1>9, FileKept
<1> QED BY <1>1, <1>3, <1>10 DEF FileInv, d, W, P

(* The two callbacks of the sink.                                          *)
LEMMA PairsWait ==
    ASSUME EndInv, FileInv
    PROVE  /\ context.sink.buffer = {} /\ Pairs(-1) \in SUBSET FrameType
           /\ Stream(queue["sink"], Entries, context.sink.nextEntry, encoder.received, Pairs(-1))
BY FrameSets DEF EndInv, NoneWaits, FileInv, EntriesPair

LEMMA FileFramesWritten ==
    ASSUME TypeInv, EndInv, FileInv, SinkFramesWritten
    PROVE  /\ FileInv' /\ reports' = reports /\ ~context.sink.finished
           /\ \E y : Stored(Pairs(-1), y)
<1>1. /\ \E y : Stored(Pairs(-1), y)
      /\ context'.sink.finished = context.sink.finished /\ reports' = reports
  BY PairsWait, FramesWrittenStores
<1>2. PICK y : Stored(Pairs(-1), y)
  BY <1>1
<1>3. Head(queue["sink"]) \notin LastEntries
  <2>1. Head(queue["sink"]).op = "framesWritten"
    BY ThreadsAre DEF SinkFramesWritten, Calls
  <2> QED BY <2>1 DEF LastEntries
<1>4. ~context.sink.finished
  <2>1. Has(queue["sink"], Entries)
    BY <1>2, HasTail DEF Stored
  <2> QED BY <2>1 DEF FileInv, EntriesPair
<1>5. FileInv'
  BY <1>1, <1>2, <1>3, <1>4, FileStored
<1> QED BY <1>1, <1>4, <1>5

LEMMA FileLastWritten ==
    ASSUME TypeInv, EndInv, FileInv, SinkLastWritten
    PROVE  /\ FileInv' /\ (reports' = reports \/ reports' = Append(reports, "finished"))
           /\ context'.sink.finished /\ ~context.sink.finished
           /\ \E y : Stored(Pairs(-1), y)
<1>1. /\ \E y : Stored(Pairs(-1), y)
      /\ Head(queue["sink"]) \in LastEntries /\ context'.sink.finished
      /\ reports' = reports \/ reports' = Append(reports, "finished")
  BY PairsWait, LastWrittenStores
<1>2. PICK y : Stored(Pairs(-1), y)
  BY <1>1
<1>4. ~context.sink.finished
  <2>1. Has(queue["sink"], Entries)
    BY <1>2, HasTail DEF Stored
  <2> QED BY <2>1 DEF FileInv, EntriesPair
<1>5. FileInv'
  BY <1>1, <1>2, <1>4, FileStored
<1> QED BY <1>1, <1>4, <1>5

(* The images with which the encoder begins a job of the writer are those  *)
(* it kept back and those of the call; the calls behind bring the next.    *)
JobImages(W, Q, c, e, f, job) ==
    /\ Follow(f.received, f.held)
    /\ f.received = e.received
    /\ ~c.codecOpen => f.received = 0 /\ f.held = <<>>
    /\ c.codecOpen => \E t : /\ GivenTo(W, Q, c, e, t)
                             /\ Stream(Tail(W), Given, f.received + Len(f.held), t, Pairs(-1))

LEMMA FramesJobImages ==
    ASSUME NEW W \in Seq(CallType), W # <<>>, NEW Q, NEW c, c.codecOpen, NEW e \in Encoder, EncoderFed(W, Q, c, e),
           NEW f \in Encoder, f.received = e.received, Head(W) \in Given, Head(W).load \in Seq(FrameType),
           f.held = e.held \o [k \in 1 .. Len(Head(W).load) |-> Head(W).load[k].image]
    PROVE  JobImages(W, Q, c, e, f, "frames")
<1> DEFINE load == Head(W).load
           w == [k \in 1 .. Len(load) |-> load[k].image]
           r == e.received
           n == r + Len(e.held)
<1>1. PICK t : GivenTo(W, Q, c, e, t)
  BY DEF EncoderFed
<1>2. Stream(W, Given, n, t, Pairs(-1))
  BY <1>1 DEF GivenTo
<1>3. r \in Nat /\ e.held \in Seq(Seq(Nat)) /\ Len(e.held) \in Nat /\ f.held = e.held \o w
  BY DEF Encoder
<1>4. \A a \in Pairs(-1) : a.number \in Nat
  BY FrameSets
<1>5. Follow(r, e.held) /\ f.received = r
  BY DEF EncoderFed
<1> HIDE DEF r, n
<1>6. PICK y \in n .. t : Batch(load, n, y, Pairs(-1)) /\ Stream(Tail(W), Given, y, t, Pairs(-1))
  BY <1>2, <1>4, StreamTaken
<1> HIDE DEF load
<1>7. load \in Seq(FrameType)
  BY DEF load
<1> HIDE DEF w
<1>8. w = [k \in 1 .. Len(load) |-> load[k].image]
  BY DEF w
<1>9. w \in Seq(Seq(Nat)) /\ Len(w) = y - n /\ Follow(n, w)
  BY <1>6, <1>7, <1>8, TakenFollow
<1>10. Follow(r, f.held)
  BY <1>3, <1>5, <1>9, FollowConcat DEF n
<1>11. f.received + Len(f.held) = y
  <2>1. \A a, b \in Seq(Seq(Nat)) : Len(a \o b) = Len(a) + Len(b)
    OBVIOUS
  <2>2. Len(f.held) = Len(e.held) + Len(w) /\ Len(w) = y - n
    BY <1>3, <1>9, <2>1
  <2>3. y \in Int
    BY <1>6 DEF Batch
  <2> DEFINE k == Len(e.held)
             l == Len(w)
  <2>4. r \in Nat /\ k \in Nat /\ l = y - (r + k)
    BY <1>3, <2>2 DEF n
  <2>5. f.received + Len(f.held) = r + (k + l)
    BY <1>5, <2>2
  <2> HIDE DEF k, l
  <2> QED BY <2>3, <2>4, <2>5
<1> QED BY <1>1, <1>5, <1>6, <1>10, <1>11 DEF JobImages

LEMMA LastJobImages ==
    ASSUME NEW W \in Seq(CallType), W # <<>>, NEW Q, NEW c, NEW e \in Encoder, EncoderFed(W, Q, c, e),
           c.codecOpen => Head(W) \notin Given, NEW job
    PROVE  JobImages(W, Q, c, e, e, job)
<1>1. c.codecOpen => \A x, z, A : Stream(W, Given, x, z, A) => Stream(Tail(W), Given, x, z, A)
  BY StreamPassed
<1>2. ASSUME c.codecOpen, NEW t, GivenTo(W, Q, c, e, t)
      PROVE  Stream(Tail(W), Given, e.received + Len(e.held), t, Pairs(-1))
  BY <1>1, <1>2 DEF GivenTo
<1> QED BY <1>2 DEF JobImages, EncoderFed

(* The answer: the first images have become entries.                       *)
LEMMA FileAnswered ==
    ASSUME NEW op \in {"framesWritten", "lastWritten", "writeFailed"}, NEW W, NEW Q \in Seq(CallType),
           NEW c, NEW e \in Encoder, NEW s, W \in Seq(CallType), W # <<>>,
           LastIsLast(W, Q, c, e), EntriesPair(Q, c, e),
           NEW f \in Encoder, NEW job, JobImages(W, Q, c, e, f, job), NEW n \in 0 .. Len(f.held),
           NEW m \in CallType, m \in Are("sink", op), m.load = Sink!EntriesOut(f, n),
           op = "writeFailed" => n = 0,
           c.codecOpen /\ Head(W) \in LastFrames => m \in LastEntries,
           NEW g, g.received = f.received + n, g.held = SubSeq(f.held, n + 1, Len(f.held))
    PROVE  EntriesPair(Append(Q, m), c, g) /\ EncoderFed(Tail(W), Append(Q, m), c, g)
<1>1. Follow(f.received, f.held) /\ f.received = e.received
  BY DEF JobImages
<1>2. /\ f.received \in Nat /\ f.held \in Seq(Seq(Nat)) /\ Len(f.held) \in Nat /\ n \in Nat
  BY DEF Encoder
<1>3. ~Has(Q, LastEntries) /\ ~c.finished
  BY DEF LastIsLast
<1>4. Closes(Append(Q, m))
  <2> DEFINE y == Append(Q, m)
  <2>1. \A i \in DOMAIN y : y[i] \in LastEntries => i = Len(y)
    BY <1>3, HasConcat
  <2>2. DOMAIN y = 1 .. Len(y) /\ Len(y) \in Nat
    OBVIOUS
  <2> HIDE DEF y
  <2>3. Closes(y)
    BY <2>1, <2>2 DEF Closes
  <2> QED BY <2>3 DEF y
<1>5. Stream(Append(Q, m), Entries, c.nextEntry, g.received, Pairs(-1))
  <2>1. Batch(m.load, f.received, f.received + n, Pairs(-1))
    BY <1>1, EntriesShow
  <2>2. Stream(Q, Entries, c.nextEntry, f.received, Pairs(-1)) /\ \A a \in Pairs(-1) : a.number \in Nat
    BY <1>1, FrameSets DEF EntriesPair
  <2>3. /\ m \notin Entries => Stream(Append(Q, m), Entries, c.nextEntry, f.received, Pairs(-1))
        /\ Stream(Append(Q, m), Entries, c.nextEntry, f.received + n, Pairs(-1)) \/ m \notin Entries
    BY <2>1, <2>2, StreamAppend
  <2>4. m \notin Entries => n = 0
    BY DEF Entries, Are
  <2>5. f.received + 0 = f.received
    BY <1>2
  <2> QED BY <2>3, <2>4, <2>5
<1>6. EntriesPair(Append(Q, m), c, g)
  BY <1>3, <1>4, <1>5 DEF EntriesPair
<1>7. Follow(g.received, g.held) /\ Len(g.held) = Len(f.held) - n
  BY <1>1, <1>2, FollowRest
<1>8. ~c.codecOpen => g.received = 0 /\ g.held = <<>>
  <2> SUFFICES ASSUME ~c.codecOpen PROVE g.received = 0 /\ g.held = <<>>
    OBVIOUS
  <2>1. f.received = 0 /\ f.held = <<>>
    BY DEF JobImages
  <2>2. Len(<<>>) = 0
    OBVIOUS
  <2>3. Len(f.held) = 0
    BY <2>1, <2>2
  <2>4. n = 0
    BY <2>3
  <2>5. SubSeq(f.held, 1, 0) = <<>>
    BY <2>1
  <2>6. 0 + 1 = 1 /\ 0 + 0 = 0
    OBVIOUS
  <2> QED BY <2>1, <2>3, <2>4, <2>5, <2>6
<1>9. ASSUME c.codecOpen PROVE \E t : GivenTo(Tail(W), Append(Q, m), c, g, t)
  <2>1. PICK t : GivenTo(W, Q, c, e, t) /\ Stream(Tail(W), Given, f.received + Len(f.held), t, Pairs(-1))
    BY <1>9 DEF JobImages
  <2>2. g.received + Len(g.held) = f.received + Len(f.held)
    BY <1>2, <1>7
  <2>3. LastSent(W, Q, c) => LastSent(Tail(W), Append(Q, m), c)
    <3> SUFFICES ASSUME Has(W, LastFrames), Head(W) \notin LastFrames PROVE Has(Tail(W), LastFrames)
      <4>1. m \in LastEntries => Has(Append(Q, m), LastEntries)
        BY HasConcat
      <4> QED BY <1>3, <1>9, <4>1 DEF LastSent
    <3>1. PICK i \in DOMAIN W : W[i] \in LastFrames
      BY DEF Has
    <3>2. i # 1
      BY <3>1, TailPlaces
    <3>3. i - 1 \in DOMAIN Tail(W) /\ Tail(W)[i - 1] = W[i]
      BY <3>2, TailPlaces
    <3> QED BY <3>1, <3>3 DEF Has
  <2>4. /\ t \in Nat /\ Handed(c.sdh) <= t + MaxWrite
        /\ LastSent(W, Q, c) \/ t = Handed(c.sdh)
    BY <2>1 DEF GivenTo
  <2>5. GivenTo(Tail(W), Append(Q, m), c, g, t)
    BY <2>1, <2>2, <2>3, <2>4 DEF GivenTo
  <2> QED BY <2>5
<1>10. EncoderFed(Tail(W), Append(Q, m), c, g)
  BY <1>7, <1>8, <1>9 DEF EncoderFed
<1> QED BY <1>6, <1>10

LEMMA FileWriter ==
    ASSUME TypeInv, EndInv, FileInv, WriterThread
    PROVE  FileInv'
<1>1. PICK e, n, job, op : WriterJob(e, n, job, op)
  BY WriterJobs
<1>2. /\ e \in Encoder /\ n \in 0 .. Len(e.held) /\ e.received = encoder.received
      /\ op \in {"framesWritten", "lastWritten", "writeFailed"} /\ Calls("writer", job) /\ Wrote(e, n, op)
  BY <1>1 DEF WriterJob
<1>3. PICK w \in Are("writer", job), m \in Are("sink", op) : Answered(e, n, w, m)
  BY <1>2, WroteAnswers
<1> DEFINE c == context.sink
           W == queue["writer"]
           Q == queue["sink"]
<1>4. /\ W \in Seq(CallType) /\ W # <<>> /\ Head(W) = w /\ Q \in Seq(CallType)
      /\ m \in CallType /\ m.load = Sink!EntriesOut(e, n)
      /\ queue'["writer"] = Tail(W) /\ queue'["sink"] = Append(Q, m)
      /\ encoder'.received = e.received + n /\ encoder'.held = SubSeq(e.held, n + 1, Len(e.held))
      /\ context' = context
  BY <1>3 DEF Answered
<1>5. Job("writer") = Head(W)
  BY ThreadsAre DEF Job
<1>6. m.op = op /\ w.op = job /\ w.callee = "writer" /\ m.callee = "sink" /\ w \in AllCalls /\ m \in AllCalls
  BY DEF Are
<1>7. /\ Grows(c) /\ EntriesPair(Q, c, encoder) /\ EncoderFed(W, Q, c, encoder)
      /\ LastIsLast(W, Q, c, encoder) /\ encoder \in Encoder
  BY DEF FileInv, EndInv, TypeInv
<1>8. \/ /\ job = "frames" /\ op = "framesWritten" /\ c.codecOpen
         /\ Head(W).load \in Seq(FrameType)
         /\ e.held = encoder.held \o [k \in 1 .. Len(Head(W).load) |-> Head(W).load[k].image]
      \/ job = "last" /\ op = "lastWritten" /\ c.codecOpen /\ e = encoder /\ n = Len(e.held)
      \/ op = "writeFailed" /\ ~c.codecOpen /\ e = encoder /\ n = 0
  BY <1>1, <1>5 DEF WriterJob
<1> HIDE DEF c, W, Q
<1>9. JobImages(W, Q, c, encoder, e, job)
  <2>1. CASE /\ job = "frames" /\ c.codecOpen /\ Head(W).load \in Seq(FrameType)
             /\ e.held = encoder.held \o [k \in 1 .. Len(Head(W).load) |-> Head(W).load[k].image]
    <3>1. Head(W) \in Given
      BY <1>4, <1>6, <2>1 DEF Given
    <3> QED BY <1>2, <1>4, <1>7, <2>1, <3>1, FramesJobImages
  <2>2. CASE job = "last" /\ e = encoder
    <3>1. Head(W) \notin Given
      BY <1>4, <1>6, <2>2 DEF Given
    <3> QED BY <1>4, <1>7, <2>2, <3>1, LastJobImages
  <2>3. CASE ~c.codecOpen /\ e = encoder
    BY <1>4, <1>7, <2>3, LastJobImages
  <2> QED BY <1>8, <2>1, <2>2, <2>3
<1>10. c.codecOpen /\ Head(W) \in LastFrames => m \in LastEntries
  <2> SUFFICES ASSUME c.codecOpen, Head(W) \in LastFrames PROVE m \in LastEntries
    OBVIOUS
  <2>1. job = "last"
    BY <1>4, <1>6 DEF LastFrames
  <2>2. op = "lastWritten"
    BY <1>8, <2>1
  <2> QED BY <1>6, <2>2 DEF LastEntries
<1>11. op = "writeFailed" => n = 0
  BY <1>8
<1>12. EntriesPair(Append(Q, m), c, encoder') /\ EncoderFed(Tail(W), Append(Q, m), c, encoder')
  BY <1>2, <1>3, <1>4, <1>7, <1>9, <1>10, <1>11, FileAnswered
<1> QED BY <1>4, <1>7, <1>12 DEF FileInv, c

(* Every step keeps the invariant.                                         *)
LEMMA FileStep ==
    ASSUME TypeInv, StartInv, FlowInv, ScriptsInv, EndInv, FailInv, FileInv, [Next]_vars
    PROVE  FileInv'
<1>1. TypeInv' /\ FlowInv'
  BY TypeStep, FlowStep
<1>2. BeforeTheEnd \/ SinkThread \/ WriterThread
  BY StepsOfTheEnd
<1>3. CASE BeforeTheEnd
  BY <1>3, FileBeforeTheEnd
<1>4. CASE SinkThread
  <2>1. CASE SinkInit \/ SinkParams \/ SinkStart \/ SinkProcess \/ SinkWriteFailed
    BY <1>1, <2>1, SinkPassingJobsPass, FilePassed DEF FailInv
  <2> QED BY <1>4, <2>1, FileFramesWritten, FileLastWritten DEF SinkThread
<1>5. CASE WriterThread
  BY <1>5, FileWriter
<1> QED BY <1>2, <1>3, <1>4, <1>5

(* The file is empty at first.                                             *)
LEMMA FileInit ==
    ASSUME Init
    PROVE  FileInv
<1>1. /\ context.sink.nextEntry = 0 /\ context.sink.written = <<>> /\ ~context.sink.finished
      /\ ~context.sink.codecOpen
      /\ encoder.received = 0 /\ encoder.held = <<>>
      /\ queue["writer"] = <<>> /\ queue["sink"] = <<>>
  BY DEF Init, Sink!NoContext, Sink!NewEncoder, Thread
<1>2. Len(<<>>) = 0 /\ \A n : Follow(n, <<>>)
  BY DEF Follow
<1>3. Stream(<<>>, Entries, 0, 0, Pairs(-1))
  <2>1. \A M, i : i \in DOMAIN <<>> => <<>>[i] \notin M
    OBVIOUS
  <2> QED BY <2>1, SilentStream
<1>4. Grows(context.sink)
  BY <1>1, <1>2 DEF Grows
<1>5. EntriesPair(<<>>, context.sink, encoder)
  <2>1. Closes(<<>>)
    BY DEF Closes
  <2> QED BY <1>1, <1>3, <2>1 DEF EntriesPair
<1>6. EncoderFed(<<>>, <<>>, context.sink, encoder)
  BY <1>1, <1>2 DEF EncoderFed
<1> QED BY <1>1, <1>4, <1>5, <1>6 DEF FileInv

-----------------------------------------------------------------------------
(* Part 11: the file is complete. The frames of the source are counted up  *)
(* to the last image.                                                      *)
CountsInv == SourceCounts(video, context.source)

LEMMA CountsInit ==
    ASSUME Init
    PROVE  CountsInv
<1>1. context.source.loaded = 0 /\ context.source.processed = 0 /\ ~context.source.eofReached
  BY DEF Init, Source!NoContext
<1>2. video.decoded[0] = 0
  BY FileToFileAssumption DEF Init
<1> QED BY <1>1, <1>2 DEF CountsInv, SourceCounts

LEMMA CountsStay ==
    ASSUME TypeInv, CountsInv, SomeJob \/ \E N : ElseStep(N)
    PROVE  CountsInv'
<1> DEFINE c == context.source
           d == context'.source
<1>1. video' = video
  BY StepsChange
<1>2. CASE d = c
  BY <1>1, <1>2 DEF CountsInv
<1>3. CASE d # c
  <2>1. PICK op, f : SourceJob(op, f) /\ d = Forgets(f)
    BY <1>3, StepsChange
  <2>2. /\ d.eofReached = f.eofReached /\ d.eofFlushed = f.eofFlushed /\ d.sdh = f.sdh
        /\ d.loaded = f.loaded /\ d.processed = f.processed
    BY <2>1 DEF SourceJob, SourceContext, Forgets
  <2>3. CASE op = "init"
    <3>1. PICK opened \in BOOLEAN : SourceBegins(c, opened, f)
      BY <2>1, <2>3 DEF SourceJob
    <3>2. /\ d.eofReached = c.eofReached /\ d.eofFlushed = c.eofFlushed /\ d.sdh = c.sdh
          /\ d.loaded = c.loaded /\ d.processed = c.processed
      BY <2>2, <3>1 DEF SourceBegins
    <3> HIDE DEF c, d
    <3>3. SourceCounts(video, c) => SourceCounts(video, d)
      BY <3>2 DEF SourceCounts
    <3> QED BY <1>1, <3>3 DEF CountsInv, c, d
  <2>4. CASE op # "init"
    <3>1. SourceCounts(video, c) => SourceCounts(video, f)
      BY <2>1, <2>4 DEF SourceJob, SourceSays
    <3> HIDE DEF c, d
    <3>2. SourceCounts(video, f) => SourceCounts(video, d)
      BY <2>2 DEF SourceCounts
    <3> QED BY <1>1, <3>1, <3>2 DEF CountsInv, c, d
  <2> QED BY <2>3, <2>4
<1> QED BY <1>2, <1>3

(* A stream without frames has not gone on.                                *)
LEMMA NoStream ==
    ASSUME NEW q, NEW M, ~Has(q, M), NEW x, NEW y, NEW A, Stream(q, M, x, y, A)
    PROVE  x = y
<1>1. Carried(q, M) = {}
  BY SilentStream DEF Has
<1>2. x .. y - 1 = {} /\ x \in Nat /\ y \in Nat /\ x <= y
  BY <1>1 DEF Stream
<1>3. x # y => x \in x .. y - 1
  BY <1>2
<1> QED BY <1>2, <1>3

(* When the sink has finished, the file has all entries but those of the   *)
(* last batch.                                                             *)
ImageCount == video.decoded[video.packets]

LEMMA ImageCountTyped ==
    ASSUME video \in Videos
    PROVE  ImageCount \in Nat
BY FileToFileAssumption DEF ImageCount

LEMMA FileComplete ==
    TypeInv /\ FlowInv /\ EndInv /\ FailInv /\ FileInv /\ CountsInv /\ context.sink.finished
        => Len(context.sink.written) \in Nat /\ Len(context.sink.written) >= ImageCount - MaxWrite
<1> SUFFICES ASSUME TypeInv, FlowInv, EndInv, FailInv, FileInv, CountsInv, context.sink.finished
             PROVE  Len(context.sink.written) \in Nat /\ Len(context.sink.written) >= ImageCount - MaxWrite
  OBVIOUS
<1> DEFINE c == context.sink
           s == context.source
           e == encoder
           W == queue["writer"]
           Q == queue["sink"]
<1>1. LastIsLast(W, Q, c, e) /\ AllHanded(W, Q, c, s) /\ EntriesPair(Q, c, e) /\ EncoderFed(W, Q, c, e) /\ Grows(c)
  BY DEF EndInv, FileInv
<1>2. c.finished /\ e.received \in Nat /\ ImageCount \in Nat /\ MaxWrite \in Nat
  BY ImageCountTyped, FileToFileAssumption DEF TypeInv, Encoder
<1>3. EofRead /\ SourceCounts(video, s) /\ SourceFlow(video, s)
  BY HandlersSettled DEF FailInv, CountsInv, FlowInv
<1>4. s.eofFlushed => s.eofReached
  BY <1>3 DEF SourceFlow
<1>5. s.eofReached => video.end = "eof"
  BY DEF FailInv, EofRead
<1> HIDE DEF c, s, e, W, Q
<1>6. W = <<>> /\ e.held = <<>> /\ c.codecOpen
  BY <1>1, <1>2 DEF LastIsLast
<1>7. s.eofFlushed /\ s.processed \in Nat /\ Handed(c.sdh) = s.processed - 1
  BY <1>1, <1>2 DEF AllHanded, LastSent
<1>8. PICK t : GivenTo(W, Q, c, e, t)
  BY <1>1, <1>6 DEF EncoderFed
<1>9. e.received + Len(e.held) = t
  <2>1. ~Has(W, Given)
    BY <1>6 DEF Has
  <2> QED BY <1>8, <2>1, NoStream DEF GivenTo
<1>10. e.received = t
  <2>1. Len(<<>>) = 0
    OBVIOUS
  <2> QED BY <1>2, <1>6, <1>9, <2>1
<1>11. c.nextEntry = e.received
  BY <1>1, <1>2, NoStream DEF EntriesPair
<1>12. s.processed = ImageCount + 1
  BY <1>3, <1>4, <1>5, <1>7 DEF SourceCounts, ImageCount
<1>13. Len(c.written) = t /\ t \in Nat /\ Handed(c.sdh) <= t + MaxWrite
  BY <1>1, <1>8, <1>10, <1>11 DEF Grows, GivenTo
<1>14. Len(c.written) \in Nat /\ Len(c.written) >= ImageCount - MaxWrite
  BY <1>2, <1>7, <1>12, <1>13
<1> QED BY <1>14 DEF c

-----------------------------------------------------------------------------
(* The file extended, as VideoTransfer says.                               *)
LEMMA FileExtends ==
    ASSUME NEW old \in Seq(Seq(Nat)), NEW w \in Seq(Seq(Nat)), Follow(Len(old), w)
    PROVE  Transfer!Extends(old, old \o w)
<1> DEFINE new == old \o w
           n == Len(old)
<1>1. /\ n \in Nat /\ Len(w) \in Nat /\ DOMAIN w = 1 .. Len(w) /\ DOMAIN old = 1 .. n
      /\ Len(new) = n + Len(w) /\ new \in Seq(Seq(Nat))
      /\ \A i \in 1 .. n : new[i] = old[i]
      /\ \A i \in 1 .. Len(w) : new[n + i] = w[i]
  OBVIOUS
<1> HIDE DEF new
<1>2. SubSeq(new, 1, n) = old
  <2> DEFINE x == SubSeq(new, 1, n)
  <2>1. /\ x \in Seq(Seq(Nat)) /\ Len(x) = n - 1 + 1
        /\ \A i \in 1 .. n - 1 + 1 : x[i] = new[1 + i - 1]
    <3>1. 1 \in 1 .. Len(new) + 1 /\ n \in 1 - 1 .. Len(new)
      BY <1>1
    <3> QED BY <1>1, <3>1, SubSeqProperties
  <2> HIDE DEF x
  <2>2. Len(x) = n /\ \A i \in 1 .. n : x[i] = old[i]
    <3>1. n - 1 + 1 = n /\ \A i \in 1 .. n : 1 + i - 1 = i
      BY <1>1
    <3> QED BY <1>1, <2>1, <3>1
  <2>3. x = old
    BY <1>1, <2>1, <2>2
  <2> QED BY <2>3 DEF x
<1>3. ASSUME NEW k \in n + 1 .. Len(new) PROVE new[k] \in Transfer!Entries(k)
  <2>1. k - n \in 1 .. Len(w) /\ n + (k - n) = k
    BY <1>1
  <2>2. w[k - n] \in Transfer!Entries(n + (k - n))
    BY <1>1, <2>1 DEF Follow
  <2>3. new[n + (k - n)] = w[k - n]
    BY <1>1, <2>1
  <2> QED BY <2>1, <2>2, <2>3
<1>4. n <= Len(new)
  BY <1>1
<1> QED BY <1>2, <1>3, <1>4 DEF Transfer!Extends, new

(* What the user is told, by what is reported.                             *)
Tells(R) == IF R = <<>> \/ R[1] = "crashed" THEN "none" ELSE R[1]

LEMMA TellsKept ==
    ASSUME NEW R \in Seq(Results)
    PROVE  /\ \A r \in Results : R # <<>> => Tells(Append(R, r)) = Tells(R)
           /\ \A r \in Results : R = <<>> => Tells(Append(R, r)) = IF r = "crashed" THEN "none" ELSE r
           /\ R = <<>> => Tells(R) = "none"
           /\ Tells(R) = "finished" => \E i \in DOMAIN R : R[i] = "finished"
<1>1. ASSUME NEW r \in Results, R # <<>> PROVE Tells(Append(R, r)) = Tells(R)
  <2>1. Append(R, r)[1] = R[1] /\ Append(R, r) # <<>>
    BY <1>1
  <2> QED BY <1>1, <2>1 DEF Tells
<1>2. ASSUME NEW r \in Results, R = <<>>
      PROVE  Tells(Append(R, r)) = IF r = "crashed" THEN "none" ELSE r
  <2>1. Append(R, r)[1] = r /\ Append(R, r) # <<>>
    BY <1>2
  <2> QED BY <2>1 DEF Tells
<1>3. ASSUME Tells(R) = "finished" PROVE \E i \in DOMAIN R : R[i] = "finished"
  <2>1. R # <<>> /\ R[1] = "finished"
    BY <1>3 DEF Tells
  <2>2. 1 \in DOMAIN R
    BY <2>1
  <2> QED BY <2>1, <2>2
<1>4. R = <<>> => Tells(R) = "none"
  BY DEF Tells
<1> QED BY <1>1, <1>2, <1>3, <1>4

LEMMA FirstResultTells == FirstResult = Tells(reports) /\ FirstResult' = Tells(reports')
BY DEF FirstResult, Tells

(* The steps of VideoTransfer, the video being the same.                   *)
LEMMA TransferFails ==
    ASSUME TypeInv, ImageCount' = ImageCount, context'.sink.written = context.sink.written,
           Unfinished(reports, reports')
    PROVE  [Transfer!Next]_<<ImageCount, context.sink.written, FirstResult>>
<1>1. reports \in Seq(Results) /\ FirstResult = Tells(reports) /\ FirstResult' = Tells(reports')
  BY FirstResultTells DEF TypeInv
<1>2. CASE FirstResult' = FirstResult
  BY <1>2
<1>3. CASE FirstResult' # FirstResult
  <2>1. PICK r \in Results : r # "finished" /\ reports' = Append(reports, r)
    BY <1>1, <1>3 DEF Unfinished
  <2>2. reports = <<>>
    BY <1>1, <1>3, <2>1, TellsKept
  <2>3. FirstResult = "none" /\ FirstResult' = IF r = "crashed" THEN "none" ELSE r
    BY <1>1, <2>1, <2>2, TellsKept
  <2>4. FirstResult' = "failed"
    BY <1>3, <2>1, <2>3 DEF Results
  <2>5. Transfer!Fail
    BY <2>3, <2>4 DEF Transfer!Fail, ImageCount
  <2> QED BY <2>5 DEF Transfer!Next
<1> QED BY <1>2, <1>3

LEMMA TransferWrites ==
    ASSUME TypeInv, EndInv, FileInv, ~context.sink.finished,
           ImageCount' = ImageCount, NEW y, Stored(Pairs(-1), y),
           \/ reports' = reports
           \/ /\ reports' = Append(reports, "finished")
              /\ Len(context'.sink.written) \in Nat /\ Len(context'.sink.written) >= ImageCount' - MaxWrite
    PROVE  [Transfer!Next]_<<ImageCount, context.sink.written, FirstResult>>
<1>1. reports \in Seq(Results) /\ FirstResult = Tells(reports) /\ FirstResult' = Tells(reports')
  BY FirstResultTells DEF TypeInv
<1>2. FirstResult # "finished"
  BY <1>1, TellsKept DEF EndInv, Told
<1>3. Transfer!Extends(context.sink.written, context'.sink.written)
  <2>1. PICK w : /\ context'.sink.written = context.sink.written \o w
                 /\ w \in Seq(Seq(Nat)) /\ Follow(Len(context.sink.written), w)
    BY StoredGrows DEF FileGrows
  <2>2. context.sink.written \in Seq(Seq(Nat))
    BY StoredGrows
  <2> QED BY <2>1, <2>2, FileExtends
<1>4. CASE FirstResult' = FirstResult
  <2>1. Transfer!WriteEntries
    BY <1>2, <1>3, <1>4 DEF Transfer!WriteEntries, ImageCount
  <2> QED BY <2>1 DEF Transfer!Next
<1>5. CASE FirstResult' # FirstResult
  <2>1. reports' = Append(reports, "finished") /\ "finished" \in Results
    BY <1>1, <1>5 DEF Results
  <2>2. reports = <<>>
    BY <1>1, <1>5, <2>1, TellsKept
  <2>3. FirstResult = "none" /\ FirstResult' = "finished"
    BY <1>1, <2>1, <2>2, TellsKept
  <2>4. Len(context'.sink.written) >= ImageCount - 1 - (MaxWrite - 1)
    <3>1. MaxWrite \in Nat /\ ImageCount \in Nat
      BY ImageCountTyped, FileToFileAssumption DEF TypeInv
    <3>2. Len(context'.sink.written) >= ImageCount - MaxWrite
      BY <1>1, <1>5
    <3>3. ImageCount - 1 - (MaxWrite - 1) = ImageCount - MaxWrite
      BY <3>1
    <3> QED BY <3>2, <3>3
  <2>5. Transfer!Finish
    BY <1>3, <2>3, <2>4 DEF Transfer!Finish, ImageCount
  <2> QED BY <2>5 DEF Transfer!Next
<1> QED BY <1>4, <1>5

(* A step of the pipeline is a step of VideoTransfer or changes nothing    *)
(* there.                                                                  *)
LEMMA TransferStep ==
    ASSUME TypeInv, StartInv, FlowInv, ScriptsInv, EndInv, FailInv, FileInv, CountsInv,
           TypeInv', FlowInv', EndInv', FailInv', FileInv', CountsInv', [Next]_vars
    PROVE  [Transfer!Next]_<<ImageCount, context.sink.written, FirstResult>>
<1>1. ImageCount' = ImageCount
  <2>1. SomeJob \/ \E N : ElseStep(N)
    BY Steps
  <2>2. video' = video
    BY <2>1, StepsChange
  <2> QED BY <2>2 DEF ImageCount
<1>2. BeforeTheEnd \/ SinkThread \/ WriterThread
  BY StepsOfTheEnd
<1>3. CASE BeforeTheEnd
  BY <1>1, <1>3, TransferFails DEF BeforeTheEnd
<1>4. CASE SinkInit \/ SinkParams \/ SinkStart \/ SinkProcess \/ SinkWriteFailed
  <2>1. SinkPassed
    BY <1>4, SinkPassingJobsPass
  <2>2. context'.sink.written = context.sink.written /\ Unfinished(reports, reports')
    BY <2>1 DEF SinkPassed, SinkKeeps
  <2> QED BY <1>1, <2>2, TransferFails
<1>5. CASE SinkFramesWritten
  <2>1. reports' = reports /\ ~context.sink.finished /\ \E y : Stored(Pairs(-1), y)
    BY <1>5, FileFramesWritten
  <2> QED BY <1>1, <2>1, TransferWrites
<1>6. CASE SinkLastWritten
  <2>1. /\ ~context.sink.finished /\ context'.sink.finished /\ \E y : Stored(Pairs(-1), y)
        /\ reports' = reports \/ reports' = Append(reports, "finished")
    BY <1>6, FileLastWritten
  <2>2. (TypeInv /\ FlowInv /\ EndInv /\ FailInv /\ FileInv /\ CountsInv /\ context.sink.finished
            => Len(context.sink.written) \in Nat /\ Len(context.sink.written) >= ImageCount - MaxWrite)'
    BY FileComplete, PTL
  <2>3. Len(context'.sink.written) \in Nat /\ Len(context'.sink.written) >= ImageCount' - MaxWrite
    BY <2>1, <2>2
  <2> QED BY <1>1, <2>1, <2>3, TransferWrites
<1>7. CASE WriterThread
  <2>1. PICK e, n, job, op : WriterJob(e, n, job, op)
    BY <1>7, WriterJobs
  <2>2. UNCHANGED <<context, reports>>
    BY <2>1 DEF WriterJob, Wrote
  <2>3. context'.sink.written = context.sink.written /\ Unfinished(reports, reports')
    BY <2>2, AtRest
  <2> QED BY <1>1, <2>3, TransferFails
<1> QED BY <1>2, <1>3, <1>4, <1>5, <1>6, <1>7 DEF SinkThread

(* The pipeline makes the file that VideoTransfer promises: it grows by    *)
(* pairs of successive images, in their order and without gaps, over every *)
(* order in which evaluations end and batches of any size pass the four    *)
(* stages and the worker thread; nothing in it is written twice or changed *)
(* later; the user is given one first result; and a file that is reported  *)
(* as finished lacks at most the entries of the batch that the sink drops  *)
(* with the flush frame, fewer than fit in its buffer.                     *)
THEOREM VideoIsTransferred == Spec => TransfersVideo
<1>1. Init => TypeInv /\ StartInv /\ FlowInv /\ ScriptsInv /\ EndInv /\ FailInv /\ FileInv /\ CountsInv
  BY TypeInit, StartInit, FlowInit, EndInit, FailInit, FileInit, CountsInit
<1>2. TypeInv /\ StartInv /\ FlowInv /\ ScriptsInv /\ EndInv /\ FailInv /\ FileInv /\ CountsInv /\ [Next]_vars
          => (TypeInv /\ StartInv /\ FlowInv /\ ScriptsInv /\ EndInv /\ FailInv /\ FileInv /\ CountsInv)'
  <2>1. TypeInv /\ StartInv /\ FlowInv /\ ScriptsInv /\ EndInv /\ [Next]_vars => SomeJob \/ \E N : ElseStep(N)
    BY Steps
  <2> QED BY <2>1, TypeStep, StartStep, FlowStep, EndStep, FailStep, FileStep, CountsStay
<1>3. Init => Transfer!Init
  <2> SUFFICES ASSUME Init PROVE Transfer!Init
    OBVIOUS
  <2>1. video.decoded[video.packets] \in Nat
    BY ImageCountTyped DEF Init, ImageCount
  <2>2. context.sink.written = <<>> /\ reports = <<>>
    BY DEF Init, Sink!NoContext
  <2>3. FirstResult = "none"
    BY <2>2 DEF FirstResult
  <2> QED BY <2>1, <2>2, <2>3 DEF Transfer!Init
<1>4. TypeInv /\ StartInv /\ FlowInv /\ ScriptsInv /\ EndInv /\ FailInv /\ FileInv /\ CountsInv
      /\ (TypeInv /\ StartInv /\ FlowInv /\ ScriptsInv /\ EndInv /\ FailInv /\ FileInv /\ CountsInv)'
      /\ [Next]_vars
          => [Transfer!Next]_<<video.decoded[video.packets], context.sink.written, FirstResult>>
  <2> SUFFICES ASSUME TypeInv, StartInv, FlowInv, ScriptsInv, EndInv, FailInv, FileInv, CountsInv,
                      TypeInv', FlowInv', EndInv', FailInv', FileInv', CountsInv', [Next]_vars
               PROVE  [Transfer!Next]_<<video.decoded[video.packets], context.sink.written, FirstResult>>
    OBVIOUS
  <2>1. [Transfer!Next]_<<ImageCount, context.sink.written, FirstResult>>
    BY TransferStep
  <2> QED BY <2>1 DEF ImageCount
<1> QED BY <1>1, <1>2, <1>3, <1>4, PTL DEF Spec, TransfersVideo, Transfer!Spec
=============================================================================
