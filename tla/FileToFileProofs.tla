--------------------------- MODULE FileToFileProofs ---------------------------
(***************************************************************************)
(* The state of the pipeline keeps its types, for every video, every size  *)
(* of the buffers and every set of failures.                               *)
(*                                                                         *)
(* The invariant TypeInv says more than TypeOK: which calls there are and  *)
(* what they carry (Made: a delivery is not empty, the writer gets no      *)
(* flush frame, a demand is not more than the buffer of the stage holds),  *)
(* which of them each stage makes, that a call is in the queue of the      *)
(* thread of its callee, that every queue of frames is finite, and that    *)
(* nothing is left to be sent between two jobs. The lemmas follow the      *)
(* code: first the handler, then the handlers of each stage from the leaf  *)
(* of its calls to the root, then the jobs of each thread. The types of    *)
(* the contexts have parameters, whether the context exists and whether    *)
(* the next stage is ready to be called: the last part, which shows that   *)
(* nobody calls a stage too early, uses the same lemmas with other values. *)
(***************************************************************************)
EXTENDS FileToFileProperties, DataHandlerProofs

(* The source uses the operations of the handler as they are defined.      *)
LEMMA SourceHandlerIs ==
    ASSUME NEW h
    PROVE  /\ Source!TryProcessInput(h) = TryProcessInput(h)
           /\ \A n : Source!Free(h, n) = Free(h, n)
           /\ \A n : Source!Kept(h, n) = Kept(h, n) /\ Source!Taken(h, n) = Taken(h, n)
           /\ \A max, n : Source!DeliverAmount(h, max, n) = DeliverAmount(h, max, n)
<1>1. Source!RunEnd(h) = RunEnd(h)
  BY DEF Source!RunEnd, RunEnd, Source!NumbersOf, NumbersOf, Source!Min, Min, Source!Cardinality, Cardinality, Source!IsFiniteSet, IsFiniteSet
<1>2. Source!TryProcessInput(h) = TryProcessInput(h)
  BY <1>1 DEF Source!TryProcessInput, TryProcessInput, Source!RunOf, RunOf, Source!Numbered, Numbered
<1>3. ASSUME NEW n PROVE Source!Free(h, n) = Free(h, n)
  BY DEF Source!Free, Free, Source!Min, Min, Source!Cardinality, Cardinality, Source!IsFiniteSet, IsFiniteSet
<1>4. ASSUME NEW n PROVE Source!Kept(h, n) = Kept(h, n) /\ Source!Taken(h, n) = Taken(h, n)
  BY DEF Source!Kept, Kept, Source!Taken, Taken
<1>5. ASSUME NEW max, NEW n PROVE Source!DeliverAmount(h, max, n) = DeliverAmount(h, max, n)
  BY DEF Source!DeliverAmount, DeliverAmount, Source!Min, Min, Source!Cardinality, Cardinality, Source!IsFiniteSet, IsFiniteSet
<1> QED BY <1>2, <1>3, <1>4, <1>5

(* What a flush of the source does: the three ways out of try_flush.       *)
LEMMA SourceFlushIs ==
    ASSUME NEW c, NEW d, d = [c EXCEPT !.sdh = TryProcessInput(c.sdh)],
           NEW n, n = DeliverAmount(d.sdh, MaxRead, d.waiting)
    PROVE  Source!Flush(c) =
               IF d.sdh.out = <<>> THEN Source!Trigger(d)
               ELSE IF n = 0       THEN d
               ELSE Source!Deliver([d EXCEPT !.sdh = Kept(d.sdh, n)], Taken(d.sdh, n))
<1> DEFINE dd == [c EXCEPT !.sdh = Source!TryProcessInput(c.sdh)]
           nn == Source!DeliverAmount(dd.sdh, MaxRead, Source!Accepts(dd))
<1>1. Source!Flush(c) =
          IF dd.sdh.out = <<>> THEN Source!Trigger(dd)
          ELSE IF nn = 0       THEN dd
          ELSE Source!Deliver([dd EXCEPT !.sdh = Source!Kept(dd.sdh, nn)], Source!Taken(dd.sdh, nn))
  BY DEF Source!Flush, Source!TryFlush
<1>2. dd = d
  BY SourceHandlerIs
<1>3. Source!Accepts(d) = d.waiting
  BY SourceHandlerIs DEF Source!Accepts
<1> HIDE DEF dd
<1>4. nn = n
  BY <1>2, <1>3, SourceHandlerIs
<1> QED BY <1>1, <1>2, <1>4, SourceHandlerIs

(* Adding entries is a change of the queue and a flush.                    *)
LEMMA SourceAddIs ==
    ASSUME NEW c, NEW E
    PROVE  Source!AddAll(c, E) = Source!Flush([c EXCEPT !.sdh.in = @ \union E])
BY DEF Source!AddAll, Source!AddEntries, Source!Flush

(* The same for the source of a stream.                                    *)
LEMMA RtspHandlerIs ==
    ASSUME NEW h
    PROVE  /\ Rtsp!File!TryProcessInput(h) = TryProcessInput(h)
           /\ \A n : Rtsp!File!Free(h, n) = Free(h, n)
           /\ \A n : Rtsp!File!Kept(h, n) = Kept(h, n) /\ Rtsp!File!Taken(h, n) = Taken(h, n)
           /\ \A max, n : Rtsp!File!DeliverAmount(h, max, n) = DeliverAmount(h, max, n)
<1>1. Rtsp!File!RunEnd(h) = RunEnd(h)
  BY DEF Rtsp!File!RunEnd, RunEnd, Rtsp!File!NumbersOf, NumbersOf, Rtsp!File!Min, Min, Rtsp!File!Cardinality, Cardinality, Rtsp!File!IsFiniteSet, IsFiniteSet
<1>2. Rtsp!File!TryProcessInput(h) = TryProcessInput(h)
  BY <1>1 DEF Rtsp!File!TryProcessInput, TryProcessInput, Rtsp!File!RunOf, RunOf, Rtsp!File!Numbered, Numbered
<1>3. ASSUME NEW n PROVE Rtsp!File!Free(h, n) = Free(h, n)
  BY DEF Rtsp!File!Free, Free, Rtsp!File!Min, Min, Rtsp!File!Cardinality, Cardinality, Rtsp!File!IsFiniteSet, IsFiniteSet
<1>4. ASSUME NEW n PROVE Rtsp!File!Kept(h, n) = Kept(h, n) /\ Rtsp!File!Taken(h, n) = Taken(h, n)
  BY DEF Rtsp!File!Kept, Kept, Rtsp!File!Taken, Taken
<1>5. ASSUME NEW max, NEW n PROVE Rtsp!File!DeliverAmount(h, max, n) = DeliverAmount(h, max, n)
  BY DEF Rtsp!File!DeliverAmount, DeliverAmount, Rtsp!File!Min, Min, Rtsp!File!Cardinality, Cardinality, Rtsp!File!IsFiniteSet, IsFiniteSet
<1> QED BY <1>2, <1>3, <1>4, <1>5

LEMMA RtspFlushIs ==
    ASSUME NEW c, NEW d, d = [c EXCEPT !.sdh = TryProcessInput(c.sdh)],
           NEW n, n = DeliverAmount(d.sdh, MaxRead, d.waiting)
    PROVE  Rtsp!File!Flush(c) =
               IF d.sdh.out = <<>> THEN Rtsp!File!Trigger(d)
               ELSE IF n = 0       THEN d
               ELSE Rtsp!File!Deliver([d EXCEPT !.sdh = Kept(d.sdh, n)], Taken(d.sdh, n))
<1> DEFINE dd == [c EXCEPT !.sdh = Rtsp!File!TryProcessInput(c.sdh)]
           nn == Rtsp!File!DeliverAmount(dd.sdh, MaxRead, Rtsp!File!Accepts(dd))
<1>1. Rtsp!File!Flush(c) =
          IF dd.sdh.out = <<>> THEN Rtsp!File!Trigger(dd)
          ELSE IF nn = 0       THEN dd
          ELSE Rtsp!File!Deliver([dd EXCEPT !.sdh = Rtsp!File!Kept(dd.sdh, nn)], Rtsp!File!Taken(dd.sdh, nn))
  BY DEF Rtsp!File!Flush, Rtsp!File!TryFlush
<1>2. dd = d
  BY RtspHandlerIs
<1>3. Rtsp!File!Accepts(d) = d.waiting
  BY RtspHandlerIs DEF Rtsp!File!Accepts
<1> HIDE DEF dd
<1>4. nn = n
  BY <1>2, <1>3, RtspHandlerIs
<1> QED BY <1>1, <1>2, <1>4, RtspHandlerIs

LEMMA RtspAddIs ==
    ASSUME NEW c, NEW E
    PROVE  Rtsp!File!AddAll(c, E) = Rtsp!File!Flush([c EXCEPT !.sdh.in = @ \union E])
BY DEF Rtsp!File!AddAll, Rtsp!File!AddEntries, Rtsp!File!Flush

(* The same for the frame stage.                                           *)
LEMMA FrameHandlerIs ==
    ASSUME NEW h
    PROVE  /\ FrameStage!TryProcessInput(h) = TryProcessInput(h)
           /\ \A n : FrameStage!Free(h, n) = Free(h, n)
           /\ \A n : FrameStage!Kept(h, n) = Kept(h, n) /\ FrameStage!Taken(h, n) = Taken(h, n)
           /\ \A max, n : FrameStage!DeliverAmount(h, max, n) = DeliverAmount(h, max, n)
<1>1. FrameStage!RunEnd(h) = RunEnd(h)
  BY DEF FrameStage!RunEnd, RunEnd, FrameStage!NumbersOf, NumbersOf, FrameStage!Min, Min, FrameStage!Cardinality, Cardinality, FrameStage!IsFiniteSet, IsFiniteSet
<1>2. FrameStage!TryProcessInput(h) = TryProcessInput(h)
  BY <1>1 DEF FrameStage!TryProcessInput, TryProcessInput, FrameStage!RunOf, RunOf, FrameStage!Numbered, Numbered
<1>3. ASSUME NEW n PROVE FrameStage!Free(h, n) = Free(h, n)
  BY DEF FrameStage!Free, Free, FrameStage!Min, Min, FrameStage!Cardinality, Cardinality, FrameStage!IsFiniteSet, IsFiniteSet
<1>4. ASSUME NEW n PROVE FrameStage!Kept(h, n) = Kept(h, n) /\ FrameStage!Taken(h, n) = Taken(h, n)
  BY DEF FrameStage!Kept, Kept, FrameStage!Taken, Taken
<1>5. ASSUME NEW max, NEW n PROVE FrameStage!DeliverAmount(h, max, n) = DeliverAmount(h, max, n)
  BY DEF FrameStage!DeliverAmount, DeliverAmount, FrameStage!Min, Min, FrameStage!Cardinality, Cardinality, FrameStage!IsFiniteSet, IsFiniteSet
<1> QED BY <1>2, <1>3, <1>4, <1>5

LEMMA FrameFlushIs ==
    ASSUME NEW c, NEW d, d = [c EXCEPT !.sdh = TryProcessInput(c.sdh)],
           NEW n, n = DeliverAmount(d.sdh, MaxOut, d.waiting)
    PROVE  FrameStage!Flush(c) =
               IF d.sdh.out = <<>> THEN FrameStage!Trigger(d)
               ELSE IF n = 0       THEN d
               ELSE FrameStage!Deliver([d EXCEPT !.sdh = Kept(d.sdh, n)], Taken(d.sdh, n))
<1> DEFINE dd == [c EXCEPT !.sdh = FrameStage!TryProcessInput(c.sdh)]
           nn == FrameStage!DeliverAmount(dd.sdh, MaxOut, FrameStage!Accepts(dd))
<1>1. FrameStage!Flush(c) =
          IF dd.sdh.out = <<>> THEN FrameStage!Trigger(dd)
          ELSE IF nn = 0       THEN dd
          ELSE FrameStage!Deliver([dd EXCEPT !.sdh = FrameStage!Kept(dd.sdh, nn)], FrameStage!Taken(dd.sdh, nn))
  BY DEF FrameStage!Flush, FrameStage!TryFlush
<1>2. dd = d
  BY FrameHandlerIs
<1>3. FrameStage!Accepts(d) = d.waiting
  BY FrameHandlerIs DEF FrameStage!Accepts
<1> HIDE DEF dd
<1>4. nn = n
  BY <1>2, <1>3, FrameHandlerIs
<1> QED BY <1>1, <1>2, <1>4, FrameHandlerIs

LEMMA FrameAddIs ==
    ASSUME NEW c, NEW E
    PROVE  FrameStage!AddAll(c, E) = FrameStage!Flush([c EXCEPT !.sdh.in = @ \union E])
BY DEF FrameStage!AddAll, FrameStage!AddEntries, FrameStage!Flush

(* The same for the inter-frame stage.                                     *)
LEMMA InterHandlerIs ==
    ASSUME NEW h
    PROVE  /\ InterStage!Common!TryProcessInput(h) = TryProcessInput(h)
           /\ \A n : InterStage!Common!Free(h, n) = Free(h, n)
           /\ \A n : InterStage!Common!Kept(h, n) = Kept(h, n) /\ InterStage!Common!Taken(h, n) = Taken(h, n)
           /\ \A max, n : InterStage!Common!DeliverAmount(h, max, n) = DeliverAmount(h, max, n)
<1>1. InterStage!Common!RunEnd(h) = RunEnd(h)
  BY DEF InterStage!Common!RunEnd, RunEnd, InterStage!Common!NumbersOf, NumbersOf, InterStage!Common!Min, Min, InterStage!Common!Cardinality, Cardinality, InterStage!Common!IsFiniteSet, IsFiniteSet
<1>2. InterStage!Common!TryProcessInput(h) = TryProcessInput(h)
  BY <1>1 DEF InterStage!Common!TryProcessInput, TryProcessInput, InterStage!Common!RunOf, RunOf, InterStage!Common!Numbered, Numbered
<1>3. ASSUME NEW n PROVE InterStage!Common!Free(h, n) = Free(h, n)
  BY DEF InterStage!Common!Free, Free, InterStage!Common!Min, Min, InterStage!Common!Cardinality, Cardinality, InterStage!Common!IsFiniteSet, IsFiniteSet
<1>4. ASSUME NEW n PROVE InterStage!Common!Kept(h, n) = Kept(h, n) /\ InterStage!Common!Taken(h, n) = Taken(h, n)
  BY DEF InterStage!Common!Kept, Kept, InterStage!Common!Taken, Taken
<1>5. ASSUME NEW max, NEW n PROVE InterStage!Common!DeliverAmount(h, max, n) = DeliverAmount(h, max, n)
  BY DEF InterStage!Common!DeliverAmount, DeliverAmount, InterStage!Common!Min, Min, InterStage!Common!Cardinality, Cardinality, InterStage!Common!IsFiniteSet, IsFiniteSet
<1> QED BY <1>2, <1>3, <1>4, <1>5

LEMMA InterFlushIs ==
    ASSUME NEW c, NEW d, d = [c EXCEPT !.sdh = TryProcessInput(c.sdh)],
           NEW n, n = DeliverAmount(d.sdh, MaxOut, d.waiting)
    PROVE  InterStage!Common!Flush(c) =
               IF d.sdh.out = <<>> THEN InterStage!Common!Trigger(d)
               ELSE IF n = 0       THEN d
               ELSE InterStage!Common!Deliver([d EXCEPT !.sdh = Kept(d.sdh, n)], Taken(d.sdh, n))
<1> DEFINE dd == [c EXCEPT !.sdh = InterStage!Common!TryProcessInput(c.sdh)]
           nn == InterStage!Common!DeliverAmount(dd.sdh, MaxOut, InterStage!Common!Accepts(dd))
<1>1. InterStage!Common!Flush(c) =
          IF dd.sdh.out = <<>> THEN InterStage!Common!Trigger(dd)
          ELSE IF nn = 0       THEN dd
          ELSE InterStage!Common!Deliver([dd EXCEPT !.sdh = InterStage!Common!Kept(dd.sdh, nn)], InterStage!Common!Taken(dd.sdh, nn))
  BY DEF InterStage!Common!Flush, InterStage!Common!TryFlush
<1>2. dd = d
  BY InterHandlerIs
<1>3. InterStage!Common!Accepts(d) = d.waiting
  BY InterHandlerIs DEF InterStage!Common!Accepts
<1> HIDE DEF dd
<1>4. nn = n
  BY <1>2, <1>3, InterHandlerIs
<1> QED BY <1>1, <1>2, <1>4, InterHandlerIs

LEMMA InterAddIs ==
    ASSUME NEW c, NEW E
    PROVE  InterStage!Common!AddAll(c, E) = InterStage!Common!Flush([c EXCEPT !.sdh.in = @ \union E])
BY DEF InterStage!Common!AddAll, InterStage!Common!AddEntries, InterStage!Common!Flush

(* The same for the sink.                                                  *)
LEMMA SinkHandlerIs ==
    ASSUME NEW h
    PROVE  /\ Sink!TryProcessInput(h) = TryProcessInput(h)
           /\ \A n : Sink!Free(h, n) = Free(h, n)
           /\ \A n : Sink!Kept(h, n) = Kept(h, n) /\ Sink!Taken(h, n) = Taken(h, n)
           /\ \A max, n : Sink!DeliverAmount(h, max, n) = DeliverAmount(h, max, n)
<1>1. Sink!RunEnd(h) = RunEnd(h)
  BY DEF Sink!RunEnd, RunEnd, Sink!NumbersOf, NumbersOf, Sink!Min, Min, Sink!Cardinality, Cardinality, Sink!IsFiniteSet, IsFiniteSet
<1>2. Sink!TryProcessInput(h) = TryProcessInput(h)
  BY <1>1 DEF Sink!TryProcessInput, TryProcessInput, Sink!RunOf, RunOf, Sink!Numbered, Numbered
<1>3. ASSUME NEW n PROVE Sink!Free(h, n) = Free(h, n)
  BY DEF Sink!Free, Free, Sink!Min, Min, Sink!Cardinality, Cardinality, Sink!IsFiniteSet, IsFiniteSet
<1>4. ASSUME NEW n PROVE Sink!Kept(h, n) = Kept(h, n) /\ Sink!Taken(h, n) = Taken(h, n)
  BY DEF Sink!Kept, Kept, Sink!Taken, Taken
<1>5. ASSUME NEW max, NEW n PROVE Sink!DeliverAmount(h, max, n) = DeliverAmount(h, max, n)
  BY DEF Sink!DeliverAmount, DeliverAmount, Sink!Min, Min, Sink!Cardinality, Cardinality, Sink!IsFiniteSet, IsFiniteSet
<1> QED BY <1>2, <1>3, <1>4, <1>5

LEMMA SinkFlushIs ==
    ASSUME NEW c, NEW d, d = [c EXCEPT !.sdh = TryProcessInput(c.sdh)],
           NEW n, n = DeliverAmount(d.sdh, MaxWrite, Free(d.sdh, MaxWrite))
    PROVE  Sink!Flush(c) =
               IF d.sdh.out = <<>> THEN Sink!Trigger(d)
               ELSE IF n = 0       THEN d
               ELSE Sink!Deliver([d EXCEPT !.sdh = Kept(d.sdh, n)], Taken(d.sdh, n))
<1> DEFINE dd == [c EXCEPT !.sdh = Sink!TryProcessInput(c.sdh)]
           nn == Sink!DeliverAmount(dd.sdh, MaxWrite, Sink!Accepts(dd))
<1>1. Sink!Flush(c) =
          IF dd.sdh.out = <<>> THEN Sink!Trigger(dd)
          ELSE IF nn = 0       THEN dd
          ELSE Sink!Deliver([dd EXCEPT !.sdh = Sink!Kept(dd.sdh, nn)], Sink!Taken(dd.sdh, nn))
  BY DEF Sink!Flush, Sink!TryFlush
<1>2. dd = d
  BY SinkHandlerIs
<1>3. Sink!Accepts(d) = Free(d.sdh, MaxWrite)
  BY SinkHandlerIs DEF Sink!Accepts
<1> HIDE DEF dd
<1>4. nn = n
  BY <1>2, <1>3, SinkHandlerIs
<1> QED BY <1>1, <1>2, <1>4, SinkHandlerIs

LEMMA SinkAddIs ==
    ASSUME NEW c, NEW E
    PROVE  Sink!AddAll(c, E) = Sink!Flush([c EXCEPT !.sdh.in = @ \union E])
BY DEF Sink!AddAll, Sink!AddEntries, Sink!Flush

-----------------------------------------------------------------------------
(* The types. The calls that there are, with what they carry.              *)
Callee == Stage \union {"pipeline", "writer"}

Made(callee, op, amount, load) ==
    \/ callee = "pipeline" /\ op = "initialized"
    \/ callee \in Stage /\ op \in {"init", "start"}
    \/ callee = "frame" /\ op = "finish"
    \/ callee \in {"frame", "interframe", "sink"} /\ op = "params"
    \/ callee \in {"source", "frame"} /\ op = "next" /\ amount <= MaxOut
    \/ callee = "interframe" /\ op = "next" /\ amount <= MaxWrite
    \/ callee \in {"frame", "interframe", "sink"} /\ op = "process" /\ load # <<>>
    \/ callee \in {"frame", "interframe"} /\ op = "evaluated" /\ Len(load) = 1
    \/ callee \in {"frame", "interframe"} /\ op = "failed"
    \/ callee = "writer" /\ op = "frames" /\ ~HasFlush(load)
    \/ callee = "writer" /\ op = "last"
    \/ callee = "sink" /\ op \in {"framesWritten", "lastWritten", "writeFailed"}

AllCalls == {m \in CallType : Made(m.callee, m.op, m.amount, m.load)}

On(t, M) == {m \in M : ThreadOf(m.callee) = t}

Queues(M) == {q \in [Thread -> Seq(CallType)] : \A t \in Thread : q[t] \in Seq(On(t, M))}

(* The calls that each of the stages makes. It hands frames over only when *)
(* the stage behind it is Ready, that is, may have asked for them.         *)
SourceCalls(Ready) ==
    {m \in AllCalls :
        \/ m.callee = "source" /\ m.op = "start"
        \/ m.callee = "frame" /\ m.op = "params"
        \/ m.callee = "frame" /\ m.op \in {"process", "finish"} /\ Ready
        \/ m.callee = "pipeline"}

FrameCalls(Ready) ==
    {m \in AllCalls :
        \/ m.callee = "source" /\ m.op = "next"
        \/ m.callee = "interframe" /\ m.op = "params"
        \/ m.callee = "interframe" /\ m.op = "process" /\ Ready
        \/ m.callee = "pipeline"}

InterCalls(Ready) ==
    {m \in AllCalls :
        \/ m.callee = "frame" /\ m.op = "next"
        \/ m.callee = "sink" /\ m.op = "params"
        \/ m.callee = "sink" /\ m.op = "process" /\ Ready
        \/ m.callee = "pipeline"}

SinkCalls ==
    {m \in AllCalls :
        \/ m.callee = "interframe" /\ m.op = "next"
        \/ m.callee = "writer"
        \/ m.callee = "pipeline"}

Jobs(s) == {j \in JobType : j.stage = s /\ j.images # <<>>}

Effect(M, J) ==
    [calls : Queues(M), jobs : SUBSET J, report : {"none", "finished", "failed", "crashed"}]

Frames == {F \in SUBSET FrameType : IsFiniteSet(F)}

Handler == {h \in [in : SUBSET FrameType, out : Seq(FrameType), next : Nat] : IsFiniteSet(h.in)}

(* The contexts of the stages. Here says whether the context exists: it is *)
(* a subset of BOOLEAN. A stage that is not Ready has not asked.           *)
Demand(Ready, max) == IF Ready THEN 0 .. max ELSE {0}

SourceContext(v, Here, Ready) ==
    [exists : Here, opened : BOOLEAN, sdh : Handler, waiting : Demand(Ready, MaxOut),
     loaded : 0 .. v.packets, processed : Nat, eofReached : BOOLEAN, eofFlushed : BOOLEAN,
     eff : Effect(SourceCalls(Ready), {})]

Scripting == {"none", "compiling", "ready", "failed"}

FrameContext(Here, Ready) ==
    [exists : Here, sdh : Handler, waiting : Demand(Ready, MaxOut), prevFinished : BOOLEAN,
     script : Scripting, framesId : Nat, eff : Effect(FrameCalls(Ready), Jobs("frame"))]

InterContext(Here, Ready) ==
    [exists : Here, sdh : Handler, waiting : Demand(Ready, MaxWrite), prevFinished : BOOLEAN,
     script : Scripting, framesId : Nat, eff : Effect(InterCalls(Ready), Jobs("interframe")),
     buffer : Frames, nextFrame : Nat, created : Nat]

SinkContext(Here) ==
    [exists : Here, sdh : Handler, prevFinished : BOOLEAN, codecOpen : BOOLEAN,
     buffer : Frames, started : BOOLEAN, nextEntry : Nat,
     written : Seq(Seq(Nat)), finished : BOOLEAN, eff : Effect(SinkCalls, {})]


(* Sending a call, for any stage.                                          *)
LEMMA SendKeepsQueues ==
    ASSUME NEW M \in SUBSET CallType, NEW q \in Queues(M), NEW m \in M,
           ThreadOf(m.callee) \in Thread
    PROVE  [q EXCEPT ![ThreadOf(m.callee)] = Append(@, m)] \in Queues(M)
<1> DEFINE u == ThreadOf(m.callee)
           r == [q EXCEPT ![u] = Append(@, m)]
<1>1. r \in [Thread -> Seq(CallType)]
  BY DEF Queues
<1>2. ASSUME NEW t \in Thread PROVE r[t] \in Seq(On(t, M))
  <2>1. q[t] \in Seq(On(t, M))
    BY DEF Queues
  <2>2. CASE t = u
    <3>1. r[t] = Append(q[t], m)
      BY <2>2 DEF Queues
    <3>2. m \in On(t, M)
      BY <2>2 DEF On
    <3> QED BY <2>1, <3>1, <3>2
  <2>3. CASE t # u
    BY <2>1, <2>3 DEF Queues
  <2> QED BY <2>2, <2>3
<1> QED BY <1>1, <1>2 DEF Queues

(* The calls that the stages make are calls that there are.                *)
LEMMA CallsTyped ==
    /\ AllCalls \subseteq CallType
    /\ \A Ready : /\ SourceCalls(Ready) \subseteq AllCalls
                  /\ FrameCalls(Ready) \subseteq AllCalls
                  /\ InterCalls(Ready) \subseteq AllCalls
    /\ SinkCalls \subseteq AllCalls
    /\ \A m \in AllCalls : ThreadOf(m.callee) \in Thread
<1>1. ASSUME NEW m \in AllCalls PROVE ThreadOf(m.callee) \in Thread
  BY DEF AllCalls, CallType, ThreadOf, Thread, Stage
<1> QED BY <1>1 DEF AllCalls, SourceCalls, FrameCalls, InterCalls, SinkCalls

(* The effects of a stage keep their type when a call is added.            *)
LEMMA SendKeepsEffect ==
    ASSUME NEW M \in SUBSET AllCalls, NEW J, NEW e \in Effect(M, J), NEW m \in M
    PROVE  [e EXCEPT !.calls[ThreadOf(m.callee)] = Append(@, m)] \in Effect(M, J)
<1>1. M \in SUBSET CallType /\ ThreadOf(m.callee) \in Thread
  BY CallsTyped
<1>2. [e.calls EXCEPT ![ThreadOf(m.callee)] = Append(@, m)] \in Queues(M)
  BY <1>1, SendKeepsQueues DEF Effect
<1> QED BY <1>2 DEF Effect

-----------------------------------------------------------------------------
(* The handlers of the stages keep the types.                              *)
LEMMA HandlerTyped ==
    /\ \A h : h \in Handler <=> Typed(h, FrameType)
    /\ \A f \in FrameType : f.number \in Nat
BY DEF Handler, Typed, FrameType

(* A flush hands over some of the entries, or none.                        *)
LEMMA FlushTyped ==
    ASSUME NEW h \in Handler, NEW max \in Nat
    PROVE  /\ TryProcessInput(h) \in Handler
           /\ \A amount \in Nat :
                 LET n == DeliverAmount(TryProcessInput(h), max, amount)
                 IN  /\ Kept(TryProcessInput(h), n) \in Handler
                     /\ Taken(TryProcessInput(h), n) \in Seq(FrameType)
                     /\ n # 0 => Taken(TryProcessInput(h), n) # <<>>
                     /\ amount = 0 => n = 0
<1> DEFINE p == TryProcessInput(h)
<1>1. Typed(p, FrameType)
  BY HandlerTyped, ProcessInputTyped
<1> HIDE DEF p
<1>2. ASSUME NEW amount \in Nat, NEW n, n = DeliverAmount(p, max, amount)
      PROVE  /\ Kept(p, n) \in Handler
             /\ Taken(p, n) \in Seq(FrameType)
             /\ n # 0 => Taken(p, n) # <<>>
             /\ amount = 0 => n = 0
  <2>1. Len(p.out) \in Nat
    BY <1>1 DEF Typed
  <2>2. n \in 0 .. Len(p.out) /\ n <= amount
    BY <1>2, <2>1, DeliverAmountFits
  <2>3. /\ Typed(Kept(p, n), FrameType) /\ Taken(p, n) \in Seq(FrameType)
        /\ Len(Taken(p, n)) = n
    BY <1>1, <2>2, KeptTyped
  <2>4. n # 0 => Taken(p, n) # <<>>
    BY <2>3
  <2> QED BY <2>2, <2>3, <2>4, HandlerTyped
<1>3. p \in Handler
  BY <1>1, HandlerTyped
<1> QED BY <1>2, <1>3 DEF p

(* A handler with more entries in its queue is a handler.                  *)
LEMMA AddTyped ==
    ASSUME NEW h \in Handler, NEW E \in SUBSET FrameType, IsFiniteSet(E)
    PROVE  [h EXCEPT !.in = @ \union E] \in Handler
BY FS_Union DEF Handler

(* What a handler has room for is a number, no more than its size.         *)
LEMMA FreeTyped ==
    ASSUME NEW h \in Handler, NEW max \in Nat
    PROVE  Free(h, max) \in 0 .. max
<1>1. SizeModulus \in Nat \ {0} /\ IsFiniteSet(h.in) /\ Len(h.out) \in Nat
  BY FileToFileAssumption DEF Handler
<1> QED BY <1>1, FreeFits

(* The frames of a call, as a set.                                         *)
LEMMA LoadTyped ==
    ASSUME NEW load \in Seq(FrameType)
    PROVE  /\ Range(load) \in SUBSET FrameType /\ IsFiniteSet(Range(load))
           /\ DOMAIN load = 1 .. Len(load) /\ Len(load) \in Nat
           /\ load # <<>> => load[1] \in FrameType /\ load[1] \in Range(load)
<1>1. DOMAIN load = 1 .. Len(load) /\ Len(load) \in Nat
  OBVIOUS
<1>2. load \in Surjection(1 .. Len(load), Range(load))
  BY <1>1 DEF Surjection, Range
<1>3. IsFiniteSet(1 .. Len(load))
  BY <1>1, FS_Interval
<1>4. load # <<>> => 1 \in DOMAIN load
  BY <1>1
<1> QED BY <1>1, <1>2, <1>3, <1>4, FS_Surjection DEF Range

-----------------------------------------------------------------------------
(* The source.                                                             *)
LEMMA SourceSends ==
    ASSUME NEW v, NEW Here, NEW Ready \in BOOLEAN, NEW c \in SourceContext(v, Here, Ready), NEW m \in SourceCalls(Ready)
    PROVE  Source!Send(c, m) \in SourceContext(v, Here, Ready)
<1>1. Source!Send(c, m) = [c EXCEPT !.eff = [c.eff EXCEPT !.calls[ThreadOf(m.callee)] = Append(@, m)]]
  BY DEF Source!Send, Source!ThreadOf, ThreadOf, SourceContext
<1>2. [c.eff EXCEPT !.calls[ThreadOf(m.callee)] = Append(@, m)] \in Effect(SourceCalls(Ready), {})
  BY SendKeepsEffect, CallsTyped DEF SourceContext
<1> QED BY <1>1, <1>2 DEF SourceContext

(* The calls have their fields.                                            *)
LEMMA CallMade ==
    ASSUME NEW s \in Callee, NEW op \in Operation, Made(s, op, 0, <<>>)
    PROVE  /\ Call(s, op) \in AllCalls /\ Call(s, op).callee = s /\ Call(s, op).op = op
           /\ Call(s, op).amount = 0 /\ Call(s, op).load = <<>>
<1>1. <<>> \in Seq(FrameType)
  OBVIOUS
<1>2. Call(s, op) \in CallType
  BY <1>1 DEF Call, CallType, Callee
<1>3. /\ Call(s, op).callee = s /\ Call(s, op).op = op
      /\ Call(s, op).amount = 0 /\ Call(s, op).load = <<>>
  BY DEF Call
<1> QED BY <1>2, <1>3 DEF AllCalls

(* The fields of a call with frames.                                       *)
LEMMA CallWithMade ==
    ASSUME NEW s \in Callee, NEW op \in Operation, NEW load \in Seq(FrameType),
           Made(s, op, 0, load)
    PROVE  /\ CallWith(s, op, load) \in AllCalls
           /\ CallWith(s, op, load).callee = s /\ CallWith(s, op, load).op = op
           /\ CallWith(s, op, load).amount = 0 /\ CallWith(s, op, load).load = load
<1>1. CallWith(s, op, load) = [callee |-> s, op |-> op, amount |-> 0, load |-> load]
  BY DEF CallWith, Call
<1>2. CallWith(s, op, load) \in CallType
  BY <1>1 DEF CallType, Callee
<1>3. /\ CallWith(s, op, load).callee = s /\ CallWith(s, op, load).op = op
      /\ CallWith(s, op, load).amount = 0 /\ CallWith(s, op, load).load = load
  BY <1>1
<1> QED BY <1>2, <1>3 DEF AllCalls

(* The fields of a demand.                                                 *)
LEMMA CallNextMade ==
    ASSUME NEW s \in Callee, NEW n \in Nat, Made(s, "next", n, <<>>)
    PROVE  /\ CallNext(s, n) \in AllCalls
           /\ CallNext(s, n).callee = s /\ CallNext(s, n).op = "next"
           /\ CallNext(s, n).amount = n /\ CallNext(s, n).load = <<>>
<1>1. <<>> \in Seq(FrameType) /\ "next" \in Operation
  BY DEF Operation
<1>2. CallNext(s, n) = [callee |-> s, op |-> "next", amount |-> n, load |-> <<>>]
  BY DEF CallNext, Call
<1>3. CallNext(s, n) \in CallType
  BY <1>1, <1>2 DEF CallType, Callee
<1>4. /\ CallNext(s, n).callee = s /\ CallNext(s, n).op = "next"
      /\ CallNext(s, n).amount = n /\ CallNext(s, n).load = <<>>
  BY <1>2
<1> QED BY <1>3, <1>4 DEF AllCalls

(* Which operations are called, and with what.                             *)
Is(m, s, op) == m \in AllCalls /\ m.callee = s /\ m.op = op

(* Every call that the code makes is one of AllCalls.                      *)
LEMMA CallsMade ==
    /\ \A s \in Stage : Is(Call(s, "init"), s, "init")
    /\ \A s \in Stage : Is(Call(s, "start"), s, "start")
    /\ \A s \in {"frame", "interframe", "sink"} : Is(Call(s, "params"), s, "params")
    /\ \A s \in {"frame", "interframe", "sink"}, load \in Seq(FrameType) : load # <<>> =>
          Is(CallWith(s, "process", load), s, "process")
    /\ \A s \in {"frame", "interframe"} : Is(Call(s, "failed"), s, "failed")
    /\ \A s \in {"frame", "interframe"}, load \in Seq(FrameType) : Len(load) = 1 =>
          Is(CallWith(s, "evaluated", load), s, "evaluated")
    /\ Is(Call("frame", "finish"), "frame", "finish")
    /\ Is(Call("pipeline", "initialized"), "pipeline", "initialized")
    /\ Is(Call("writer", "last"), "writer", "last")
    /\ \A load \in Seq(FrameType) : ~HasFlush(load) =>
          Is(CallWith("writer", "frames", load), "writer", "frames")
    /\ \A load \in Seq(FrameType) :
          Is(CallWith("sink", "framesWritten", load), "sink", "framesWritten")
    /\ \A load \in Seq(FrameType) :
          Is(CallWith("sink", "lastWritten", load), "sink", "lastWritten")
    /\ \A load \in Seq(FrameType) :
          Is(CallWith("sink", "writeFailed", load), "sink", "writeFailed")
    /\ \A s \in {"source", "frame"}, n \in 0 .. MaxOut : Is(CallNext(s, n), s, "next")
    /\ \A n \in 0 .. MaxWrite : Is(CallNext("interframe", n), "interframe", "next")
<1>1. ASSUME NEW s \in Stage
      PROVE  Is(Call(s, "init"), s, "init")
  BY CallMade DEF Is, Callee, Operation, Made, Stage
<1>2. ASSUME NEW s \in Stage
      PROVE  Is(Call(s, "start"), s, "start")
  BY CallMade DEF Is, Callee, Operation, Made, Stage
<1>3. ASSUME NEW s \in {"frame", "interframe", "sink"}
      PROVE  Is(Call(s, "params"), s, "params")
  BY CallMade DEF Is, Callee, Operation, Made, Stage
<1>4. ASSUME NEW s \in {"frame", "interframe", "sink"}, NEW load \in Seq(FrameType), load # <<>>
      PROVE  Is(CallWith(s, "process", load), s, "process")
  BY <1>4, CallWithMade DEF Is, Callee, Operation, Made, Stage
<1>5. ASSUME NEW s \in {"frame", "interframe"}
      PROVE  Is(Call(s, "failed"), s, "failed")
  BY CallMade DEF Is, Callee, Operation, Made, Stage
<1>6. ASSUME NEW s \in {"frame", "interframe"}, NEW load \in Seq(FrameType), Len(load) = 1
      PROVE  Is(CallWith(s, "evaluated", load), s, "evaluated")
  BY <1>6, CallWithMade DEF Is, Callee, Operation, Made, Stage
<1>7. Is(Call("frame", "finish"), "frame", "finish")
  BY CallMade DEF Is, Callee, Operation, Made, Stage
<1>8. Is(Call("pipeline", "initialized"), "pipeline", "initialized")
  BY CallMade DEF Is, Callee, Operation, Made, Stage
<1>9. Is(Call("writer", "last"), "writer", "last")
  BY CallMade DEF Is, Callee, Operation, Made, Stage
<1>10. ASSUME NEW load \in Seq(FrameType), ~HasFlush(load)
      PROVE  Is(CallWith("writer", "frames", load), "writer", "frames")
  BY <1>10, CallWithMade DEF Is, Callee, Operation, Made, Stage
<1>11. ASSUME NEW load \in Seq(FrameType)
      PROVE  Is(CallWith("sink", "framesWritten", load), "sink", "framesWritten")
  BY CallWithMade DEF Is, Callee, Operation, Made, Stage
<1>12. ASSUME NEW load \in Seq(FrameType)
      PROVE  Is(CallWith("sink", "lastWritten", load), "sink", "lastWritten")
  BY CallWithMade DEF Is, Callee, Operation, Made, Stage
<1>13. ASSUME NEW load \in Seq(FrameType)
      PROVE  Is(CallWith("sink", "writeFailed", load), "sink", "writeFailed")
  BY CallWithMade DEF Is, Callee, Operation, Made, Stage
<1>14. ASSUME NEW s \in {"source", "frame"}, NEW n \in 0 .. MaxOut
      PROVE  Is(CallNext(s, n), s, "next")
  BY FileToFileAssumption, CallNextMade DEF Is, Callee, Operation, Made, Stage
<1>15. ASSUME NEW n \in 0 .. MaxWrite
      PROVE  Is(CallNext("interframe", n), "interframe", "next")
  BY FileToFileAssumption, CallNextMade DEF Is, Callee, Operation, Made, Stage
<1> QED BY <1>1, <1>2, <1>3, <1>4, <1>5, <1>6, <1>7, <1>8, <1>9, <1>10, <1>11, <1>12, <1>13, <1>14, <1>15

(* The calls of the source.                                                *)
LEMMA SourceCallsMade ==
    ASSUME NEW Ready
    PROVE  /\ Call("source", "start") \in SourceCalls(Ready)
           /\ Call("frame", "params") \in SourceCalls(Ready)
           /\ Ready => Call("frame", "finish") \in SourceCalls(Ready)
           /\ Call("pipeline", "initialized") \in SourceCalls(Ready)
           /\ \A load \in Seq(FrameType) :
                 Ready /\ load # <<>> => CallWith("frame", "process", load) \in SourceCalls(Ready)
BY CallsMade DEF Is, SourceCalls, Stage

(* A flush keeps the type of the context of the source.                    *)
LEMMA SourceFlushTyped ==
    ASSUME NEW v, NEW Here, NEW Ready \in BOOLEAN, NEW c \in SourceContext(v, Here, Ready)
    PROVE  Source!Flush(c) \in SourceContext(v, Here, Ready)
<1>1. ASSUME NEW d \in SourceContext(v, Here, Ready) PROVE Source!Trigger(d) \in SourceContext(v, Here, Ready)
  BY SourceSends, SourceCallsMade DEF Source!Trigger, Source!Call, Call
<1>2. ASSUME NEW d \in SourceContext(v, Here, Ready), NEW load \in Seq(FrameType), load # <<>>, Ready
      PROVE  Source!Deliver(d, load) \in SourceContext(v, Here, Ready)
  <2> DEFINE w == [d EXCEPT !.waiting = 0]
             x == Source!Send(w, CallWith("frame", "process", load))
             y == [x EXCEPT !.eofFlushed = TRUE]
  <2>a. 0 \in Demand(Ready, MaxOut)
    BY FileToFileAssumption DEF Demand
  <2>1. w \in SourceContext(v, Here, Ready)
    BY <2>a DEF SourceContext
  <2> HIDE DEF w
  <2>2. x \in SourceContext(v, Here, Ready)
    BY <1>2, <2>1, SourceSends, SourceCallsMade
  <2> HIDE DEF x
  <2>3. y \in SourceContext(v, Here, Ready)
    BY <2>2 DEF SourceContext
  <2> HIDE DEF y
  <2>4. Source!Send(y, Call("frame", "finish")) \in SourceContext(v, Here, Ready)
    BY <1>2, <2>3, SourceSends, SourceCallsMade
  <2>5. Source!Trigger(x) \in SourceContext(v, Here, Ready)
    BY <2>2, <1>1
  <2>6. \/ Source!Deliver(d, load) = Source!Send(y, Call("frame", "finish"))
        \/ Source!Deliver(d, load) = Source!Trigger(x)
    BY DEF Source!Deliver, w, x, y, Source!CallWith, CallWith, Source!Call, Call
  <2> QED BY <2>4, <2>5, <2>6
<1> DEFINE d == [c EXCEPT !.sdh = TryProcessInput(c.sdh)]
           n == DeliverAmount(d.sdh, MaxRead, d.waiting)
           k == [d EXCEPT !.sdh = Kept(d.sdh, n)]
<1>3. /\ c.sdh \in Handler /\ c.waiting \in Nat /\ MaxRead \in Nat
      /\ c.waiting # 0 => Ready
      /\ d.sdh = TryProcessInput(c.sdh) /\ d.waiting = c.waiting
  BY FileToFileAssumption DEF SourceContext, Demand
<1>4. d \in SourceContext(v, Here, Ready)
  BY <1>3, FlushTyped DEF SourceContext
<1>5. /\ Kept(d.sdh, n) \in Handler /\ Taken(d.sdh, n) \in Seq(FrameType)
      /\ n # 0 => Taken(d.sdh, n) # <<>>
      /\ n # 0 => Ready
  BY <1>3, FlushTyped
<1>6. k \in SourceContext(v, Here, Ready)
  BY <1>4, <1>5 DEF SourceContext
<1>7. Source!Flush(c) =
          IF d.sdh.out = <<>> THEN Source!Trigger(d)
          ELSE IF n = 0       THEN d
          ELSE Source!Deliver(k, Taken(d.sdh, n))
  BY SourceFlushIs
<1> HIDE DEF d, n, k
<1> QED BY <1>1, <1>2, <1>4, <1>5, <1>6, <1>7

(* So does adding frames.                                                  *)
LEMMA SourceAddTyped ==
    ASSUME NEW v, NEW Here, NEW Ready \in BOOLEAN, NEW c \in SourceContext(v, Here, Ready), NEW E \in SUBSET FrameType, IsFiniteSet(E)
    PROVE  Source!AddAll(c, E) \in SourceContext(v, Here, Ready)
<1>1. [c EXCEPT !.sdh.in = @ \union E] \in SourceContext(v, Here, Ready)
  <2>1. [c.sdh EXCEPT !.in = @ \union E] \in Handler
    BY AddTyped DEF SourceContext
  <2> QED BY <2>1 DEF SourceContext
<1> QED BY <1>1, SourceFlushTyped, SourceAddIs

(* The smaller of two numbers.                                             *)
LEMMA MinOfTwo ==
    ASSUME NEW a \in Nat, NEW b \in Nat, NEW n, n = Min({a, b})
    PROVE  n \in Nat /\ n <= a /\ n <= b /\ n \in {a, b}
<1>1. {a, b} \in SUBSET Nat /\ {a, b} # {}
  OBVIOUS
<1>2. n \in {a, b} /\ \A y \in {a, b} : n <= y
  BY <1>1, MinOfNumbers
<1> QED BY <1>2

(* The images of a batch of packets, as frames.                            *)
LEMMA FramesTyped ==
    ASSUME NEW a \in Nat, NEW b \in Nat
    PROVE  /\ Source!FramesOf(a, b) \in SUBSET FrameType
           /\ IsFiniteSet(Source!FramesOf(a, b))
           /\ Source!FlushFrame(a) \in FrameType
<1>1. \A k \in a .. b - 1 : Source!Frame(k, <<k>>) \in FrameType
  BY DEF Source!Frame, FrameType
<1> DEFINE f == [k \in a .. b - 1 |-> Source!Frame(k, <<k>>)]
<1>2. f \in Surjection(a .. b - 1, Source!FramesOf(a, b))
  BY DEF Surjection, Source!FramesOf
<1>3. IsFiniteSet(a .. b - 1)
  BY FS_Interval
<1>4. Source!FlushFrame(a) \in FrameType
  BY DEF Source!FlushFrame, Source!Frame, FrameType
<1> HIDE DEF f
<1>5. IsFiniteSet(Source!FramesOf(a, b))
  BY <1>2, <1>3, FS_Surjection
<1>6. Source!FramesOf(a, b) \in SUBSET FrameType
  BY <1>1 DEF Source!FramesOf
<1> QED BY <1>4, <1>5, <1>6

(* What start reads.                                                       *)
LEMMA ReadTyped ==
    ASSUME NEW v \in Videos, NEW loaded \in 0 .. v.packets, NEW want \in Nat,
           NEW count, count = Min({want, v.packets - loaded})
    PROVE  /\ count \in Nat /\ count <= want /\ loaded + count \in 0 .. v.packets
           /\ v.decoded[loaded] \in Nat /\ v.decoded[loaded + count] \in Nat
           /\ v.decoded[loaded + count] - v.decoded[loaded] \in Nat
           /\ want > v.packets - loaded => loaded + count = v.packets
<1>1. /\ v.packets \in Nat /\ v.decoded \in [0 .. v.packets -> Nat]
      /\ \A j, k \in 0 .. v.packets : j <= k => v.decoded[j] <= v.decoded[k]
  BY FileToFileAssumption
<1>2. v.packets - loaded \in Nat /\ loaded \in Nat
  BY <1>1
<1>3. /\ count \in Nat /\ count <= want /\ count <= v.packets - loaded
      /\ count \in {want, v.packets - loaded}
  BY <1>2, MinOfTwo
<1>4. loaded + count \in 0 .. v.packets /\ loaded <= loaded + count
  BY <1>1, <1>2, <1>3
<1>5. v.decoded[loaded] \in Nat /\ v.decoded[loaded + count] \in Nat
      /\ v.decoded[loaded] <= v.decoded[loaded + count]
  BY <1>1, <1>4
<1>6. v.decoded[loaded + count] - v.decoded[loaded] \in Nat
  BY <1>5
<1>7. want > v.packets - loaded => loaded + count = v.packets
  BY <1>1, <1>2, <1>3
<1> QED BY <1>3, <1>4, <1>5, <1>6, <1>7

(* The parts of start: what is wanted and read, the images of it, and the  *)
(* contexts after reading, after the images and with the flush frame.      *)
Want(c) == Free(c.sdh, MaxRead)

Count(c, v) == Min({Want(c), v.packets - c.loaded})

Gain(c, v) == v.decoded[c.loaded + Count(c, v)] - v.decoded[c.loaded]

Read(c, v) ==
    [c EXCEPT !.loaded = c.loaded + Count(c, v),
              !.eofReached = Want(c) > v.packets - c.loaded /\ v.end = "eof"]

Numbering(c, v) == [Read(c, v) EXCEPT !.processed = Read(c, v).processed + Gain(c, v)]

Added(c, v) ==
    Source!AddAll(Numbering(c, v), Source!FramesOf(c.processed, c.processed + Gain(c, v)))

Ended(c, v) == [Added(c, v) EXCEPT !.processed = Added(c, v).processed + 1]

(* start of the source, put together from its parts.                       *)
LEMMA SourceStartIs ==
    ASSUME NEW c, NEW v
    PROVE  Source!Start(c, v) =
               IF ~c.exists \/ c.eofReached \/ Want(c) = 0
               THEN c
               ELSE IF ~c.opened
               THEN Source!Report(c, "crashed")
               ELSE IF Want(c) > v.packets - c.loaded /\ v.end = "error"
               THEN Source!Report(Read(c, v), "failed")
               ELSE IF Gain(c, v) = 0
               THEN Read(c, v)
               ELSE IF Added(c, v).eofReached /\ ~Added(c, v).eofFlushed
               THEN Source!AddAll(Ended(c, v), {Source!FlushFrame(Added(c, v).processed)})
               ELSE Added(c, v)
<1> DEFINE w == Source!Free(c.sdh, MaxRead)
           k == Source!Min({w, v.packets - c.loaded})
           g == Source!Decoded(v, c.loaded, k)
           r == [c EXCEPT !.loaded = @ + k,
                          !.eofReached = w > v.packets - c.loaded /\ v.end = "eof"]
           a == Source!AddAll([r EXCEPT !.processed = @ + g],
                              Source!FramesOf(c.processed, c.processed + g))
<1>1. Source!Start(c, v) =
          IF ~c.exists \/ c.eofReached \/ Source!Full(c.sdh, MaxRead)
          THEN c
          ELSE IF ~c.opened
          THEN Source!Report(c, "crashed")
          ELSE IF w > v.packets - c.loaded /\ v.end = "error"
          THEN Source!Report(r, "failed")
          ELSE IF g = 0
          THEN r
          ELSE IF a.eofReached /\ ~a.eofFlushed
          THEN Source!AddAll([a EXCEPT !.processed = @ + 1],
                             {Source!FlushFrame(a.processed)})
          ELSE a
  BY DEF Source!Start
<1>2. w = Want(c)
  BY SourceHandlerIs DEF Want
<1>3. Source!Full(c.sdh, MaxRead) <=> Want(c) = 0
  BY <1>2 DEF Source!Full
<1> HIDE DEF w
<1>4. k = Count(c, v)
  BY <1>2 DEF Source!Min, Min, Count
<1> HIDE DEF k
<1>5. g = Gain(c, v)
  BY <1>4 DEF Source!Decoded, Gain
<1> HIDE DEF g
<1>6. r = Read(c, v)
  BY <1>2, <1>4 DEF Read
<1> HIDE DEF r
<1>7. a = Added(c, v)
  BY <1>5, <1>6 DEF Added, Numbering
<1> HIDE DEF a
<1> QED BY <1>1, <1>2, <1>3, <1>5, <1>6, <1>7 DEF Ended

(* Reporting keeps the type.                                               *)
LEMMA SourceReports ==
    ASSUME NEW v, NEW Here, NEW Ready \in BOOLEAN, NEW c \in SourceContext(v, Here, Ready), NEW r \in {"finished", "failed", "crashed"}
    PROVE  Source!Report(c, r) \in SourceContext(v, Here, Ready)
<1>1. [c.eff EXCEPT !.report = r] \in Effect(SourceCalls(Ready), {})
  BY DEF SourceContext, Effect
<1> QED BY <1>1 DEF Source!Report, SourceContext

(* start keeps the type, whichever way it ends.                            *)
LEMMA SourceStartTyped ==
    ASSUME NEW v \in Videos, NEW Here, NEW Ready \in BOOLEAN, NEW c \in SourceContext(v, Here, Ready)
    PROVE  Source!Start(c, v) \in SourceContext(v, Here, Ready)
<1>1. /\ c.sdh \in Handler /\ c.loaded \in 0 .. v.packets /\ c.processed \in Nat
      /\ MaxRead \in Nat
  BY FileToFileAssumption DEF SourceContext
<1>2. Want(c) \in Nat
  BY <1>1, FreeTyped DEF Want
<1>3. c.loaded + Count(c, v) \in 0 .. v.packets /\ Gain(c, v) \in Nat
  BY <1>1, <1>2, ReadTyped DEF Count, Gain
<1>4. Read(c, v) \in SourceContext(v, Here, Ready)
  BY <1>3 DEF SourceContext, Read
<1>5. Read(c, v).processed \in Nat
  BY <1>4 DEF SourceContext
<1>6. Numbering(c, v) \in SourceContext(v, Here, Ready)
  BY <1>3, <1>4, <1>5 DEF SourceContext, Numbering
<1>7. Added(c, v) \in SourceContext(v, Here, Ready)
  BY <1>1, <1>3, <1>6, FramesTyped, SourceAddTyped DEF Added
<1>8. Ended(c, v) \in SourceContext(v, Here, Ready) /\ Added(c, v).processed \in Nat
  BY <1>7 DEF SourceContext, Ended
<1>9. Source!AddAll(Ended(c, v), {Source!FlushFrame(Added(c, v).processed)}) \in SourceContext(v, Here, Ready)
  <2>1. Source!FlushFrame(Added(c, v).processed) \in FrameType
    BY <1>8, FramesTyped
  <2> QED BY <2>1, <1>8, FS_Singleton, SourceAddTyped
<1>10. \/ Source!Start(c, v) \in {c, Read(c, v), Added(c, v)}
       \/ Source!Start(c, v) = Source!Report(c, "crashed")
       \/ Source!Start(c, v) = Source!Report(Read(c, v), "failed")
       \/ Source!Start(c, v) =
              Source!AddAll(Ended(c, v), {Source!FlushFrame(Added(c, v).processed)})
  BY SourceStartIs
<1> QED BY <1>4, <1>7, <1>9, <1>10, SourceReports

(* init makes a context, or reports that the file does not open.           *)
LEMMA SourceInitTyped ==
    ASSUME NEW v, NEW Here, NEW Ready \in BOOLEAN, NEW c \in SourceContext(v, Here, Ready), NEW opened \in BOOLEAN,
           TRUE \in Here
    PROVE  Source!Init(c, opened) \in SourceContext(v, Here, Ready)
<1> DEFINE o == [c EXCEPT !.exists = TRUE, !.opened = TRUE]
           x == [c EXCEPT !.exists = TRUE]
           p == Source!Send(o, Call("frame", "params"))
<1>1. o \in SourceContext(v, Here, Ready) /\ x \in SourceContext(v, Here, Ready)
  BY DEF SourceContext
<1> HIDE DEF o, x
<1>2. p \in SourceContext(v, Here, Ready)
  BY <1>1, SourceSends, SourceCallsMade
<1> HIDE DEF p
<1>3. Source!Send(p, Call("pipeline", "initialized")) \in SourceContext(v, Here, Ready)
  BY <1>2, SourceSends, SourceCallsMade
<1>4. Source!Report(x, "failed") \in SourceContext(v, Here, Ready)
  BY <1>1, SourceReports
<1>5. \/ Source!Init(c, opened) = Source!Send(p, Call("pipeline", "initialized"))
      \/ Source!Init(c, opened) = Source!Report(x, "failed")
  BY DEF Source!Init, Source!Call, Call, p, o, x
<1> QED BY <1>3, <1>4, <1>5

(* A demand replaces the earlier one, and what is ready goes out.          *)
LEMMA SourceNextTyped ==
    ASSUME NEW v, NEW Here, NEW Ready \in BOOLEAN, NEW c \in SourceContext(v, Here, Ready), NEW n \in 0 .. MaxOut,
           Ready
    PROVE  Source!Next(c, n) \in SourceContext(v, Here, Ready)
<1>1. [c EXCEPT !.waiting = n] \in SourceContext(v, Here, Ready)
  BY DEF SourceContext, Demand
<1> QED BY <1>1, SourceFlushTyped DEF Source!Next

-----------------------------------------------------------------------------
(* The frame stage.                                                        *)
LEMMA FrameSends ==
    ASSUME NEW Here, NEW Ready \in BOOLEAN, NEW c \in FrameContext(Here, Ready), NEW m \in FrameCalls(Ready)
    PROVE  FrameStage!Send(c, m) \in FrameContext(Here, Ready)
<1>1. FrameStage!Send(c, m) = [c EXCEPT !.eff = [c.eff EXCEPT !.calls[ThreadOf(m.callee)] = Append(@, m)]]
  BY DEF FrameStage!Send, FrameStage!ThreadOf, ThreadOf, FrameContext
<1>2. [c.eff EXCEPT !.calls[ThreadOf(m.callee)] = Append(@, m)] \in Effect(FrameCalls(Ready), Jobs("frame"))
  BY SendKeepsEffect, CallsTyped DEF FrameContext
<1> QED BY <1>1, <1>2 DEF FrameContext

(* Reporting keeps the type.                                               *)
LEMMA FrameReports ==
    ASSUME NEW Here, NEW Ready \in BOOLEAN, NEW c \in FrameContext(Here, Ready), NEW r \in {"finished", "failed", "crashed"}
    PROVE  FrameStage!Report(c, r) \in FrameContext(Here, Ready)
<1>1. [c.eff EXCEPT !.report = r] \in Effect(FrameCalls(Ready), Jobs("frame"))
  BY DEF FrameContext, Effect
<1> QED BY <1>1 DEF FrameStage!Report, FrameContext

(* The calls of the frame stage.                                           *)
LEMMA FrameCallsMade ==
    ASSUME NEW Ready
    PROVE  /\ \A n \in 0 .. MaxOut : CallNext("source", n) \in FrameCalls(Ready)
           /\ Call("interframe", "params") \in FrameCalls(Ready)
           /\ Call("pipeline", "initialized") \in FrameCalls(Ready)
           /\ \A load \in Seq(FrameType) :
                 Ready /\ load # <<>> => CallWith("interframe", "process", load) \in FrameCalls(Ready)
BY CallsMade DEF Is, FrameCalls, Stage

(* Asking the source for frames keeps the type.                            *)
LEMMA FrameTriggerTyped ==
    ASSUME NEW Here, NEW Ready \in BOOLEAN, NEW c \in FrameContext(Here, Ready)
    PROVE  FrameStage!Trigger(c) \in FrameContext(Here, Ready)
<1> DEFINE free == Free(c.sdh, MaxOut)
<1>1. free \in 0 .. MaxOut
  BY FileToFileAssumption, FreeTyped DEF FrameContext
<1>2. FrameStage!Trigger(c) = IF free # 0 THEN FrameStage!Send(c, CallNext("source", free)) ELSE c
  BY FrameHandlerIs DEF FrameStage!Trigger, FrameStage!CallNext, FrameStage!Call, CallNext, Call
<1> HIDE DEF free
<1> QED BY <1>1, <1>2, FrameSends, FrameCallsMade

(* A flush keeps the type.                                                 *)
LEMMA FrameFlushTyped ==
    ASSUME NEW Here, NEW Ready \in BOOLEAN, NEW c \in FrameContext(Here, Ready)
    PROVE  FrameStage!Flush(c) \in FrameContext(Here, Ready)
<1>1. ASSUME NEW d \in FrameContext(Here, Ready), NEW load \in Seq(FrameType), load # <<>>, Ready
      PROVE  FrameStage!Deliver(d, load) \in FrameContext(Here, Ready)
  <2> DEFINE w == [d EXCEPT !.waiting = 0]
             x == FrameStage!Send(w, CallWith("interframe", "process", load))
  <2>1. w \in FrameContext(Here, Ready)
    <3>1. 0 \in Demand(Ready, MaxOut)
      BY FileToFileAssumption DEF Demand
    <3> QED BY <3>1 DEF FrameContext
  <2> HIDE DEF w
  <2>2. x \in FrameContext(Here, Ready)
    BY <1>1, <2>1, FrameSends, FrameCallsMade
  <2> HIDE DEF x
  <2>3. FrameStage!Deliver(d, load) = FrameStage!Trigger(x)
    BY DEF FrameStage!Deliver, w, x, FrameStage!CallWith, CallWith, FrameStage!Call, Call
  <2> QED BY <2>2, <2>3, FrameTriggerTyped
<1> DEFINE d == [c EXCEPT !.sdh = TryProcessInput(c.sdh)]
           n == DeliverAmount(d.sdh, MaxOut, d.waiting)
           k == [d EXCEPT !.sdh = Kept(d.sdh, n)]
<1>2. /\ c.sdh \in Handler /\ c.waiting \in Nat /\ MaxOut \in Nat
      /\ c.waiting # 0 => Ready
      /\ d.sdh = TryProcessInput(c.sdh) /\ d.waiting = c.waiting
  BY FileToFileAssumption DEF FrameContext, Demand
<1>3. d \in FrameContext(Here, Ready)
  BY <1>2, FlushTyped DEF FrameContext
<1>4. /\ Kept(d.sdh, n) \in Handler /\ Taken(d.sdh, n) \in Seq(FrameType)
      /\ n # 0 => Taken(d.sdh, n) # <<>>
      /\ n # 0 => Ready
  BY <1>2, FlushTyped
<1>5. k \in FrameContext(Here, Ready)
  BY <1>3, <1>4 DEF FrameContext
<1>6. FrameStage!Flush(c) =
          IF d.sdh.out = <<>> THEN FrameStage!Trigger(d)
          ELSE IF n = 0       THEN d
          ELSE FrameStage!Deliver(k, Taken(d.sdh, n))
  BY FrameFlushIs
<1> HIDE DEF d, n, k
<1> QED BY <1>1, <1>3, <1>4, <1>5, <1>6, FrameTriggerTyped

(* Adding results keeps the type.                                          *)
LEMMA FrameAddTyped ==
    ASSUME NEW Here, NEW Ready \in BOOLEAN, NEW c \in FrameContext(Here, Ready), NEW E \in SUBSET FrameType, IsFiniteSet(E)
    PROVE  FrameStage!AddAll(c, E) \in FrameContext(Here, Ready)
<1>1. [c EXCEPT !.sdh.in = @ \union E] \in FrameContext(Here, Ready)
  <2>1. [c.sdh EXCEPT !.in = @ \union E] \in Handler
    BY AddTyped DEF FrameContext
  <2> QED BY <2>1 DEF FrameContext
<1> QED BY <1>1, FrameFlushTyped, FrameAddIs

(* Asking for evaluations keeps the type.                                  *)
LEMMA FrameEvaluateTyped ==
    ASSUME NEW Here, NEW Ready \in BOOLEAN, NEW c \in FrameContext(Here, Ready), NEW J \in SUBSET Jobs("frame")
    PROVE  FrameStage!Evaluate(c, J) \in FrameContext(Here, Ready)
<1>1. [c.eff EXCEPT !.jobs = @ \union J] \in Effect(FrameCalls(Ready), Jobs("frame"))
  BY DEF FrameContext, Effect
<1> QED BY <1>1 DEF FrameStage!Evaluate, FrameContext

(* The handlers that only keep something or send something.                *)
LEMMA FrameStepsTyped ==
    ASSUME NEW Here, NEW Ready \in BOOLEAN, NEW c \in FrameContext(Here, Ready), TRUE \in Here
    PROVE  /\ FrameStage!Init(c) \in FrameContext(Here, Ready)
           /\ \A ok \in BOOLEAN, id \in Nat : FrameStage!Compiled(c, ok, id) \in FrameContext(Here, Ready)
           /\ FrameStage!Params(c) \in FrameContext(Here, Ready)
           /\ FrameStage!Start(c) \in FrameContext(Here, Ready)
           /\ FrameStage!Finish(c) \in FrameContext(Here, Ready)
           /\ Ready => \A n \in 0 .. MaxOut : FrameStage!Next(c, n) \in FrameContext(Here, Ready)
           /\ \A f \in FrameType : FrameStage!Evaluated(c, f) \in FrameContext(Here, Ready)
           /\ FrameStage!EvaluationFailed(c) \in FrameContext(Here, Ready)
<1>1. FrameStage!Init(c) \in FrameContext(Here, Ready)
  <2>1. [c EXCEPT !.exists = TRUE, !.script = "compiling"] \in FrameContext(Here, Ready)
    BY DEF FrameContext, Scripting
  <2> QED BY <2>1, FrameFlushTyped DEF FrameStage!Init
<1>2. ASSUME NEW ok \in BOOLEAN, NEW id \in Nat PROVE FrameStage!Compiled(c, ok, id) \in FrameContext(Here, Ready)
  <2> DEFINE d == [c EXCEPT !.script = "ready", !.framesId = id]
             e == [c EXCEPT !.script = "failed", !.framesId = 0]
  <2>1. d \in FrameContext(Here, Ready) /\ e \in FrameContext(Here, Ready)
    BY DEF FrameContext, Scripting
  <2> HIDE DEF d, e
  <2>2. FrameStage!Send(d, Call("pipeline", "initialized")) \in FrameContext(Here, Ready)
    BY <2>1, FrameSends, FrameCallsMade
  <2>3. FrameStage!Compiled(c, ok, id) = IF ok THEN FrameStage!Send(d, Call("pipeline", "initialized")) ELSE e
    BY DEF FrameStage!Compiled, d, e, FrameStage!Call, Call
  <2> QED BY <2>1, <2>2, <2>3
<1>3. FrameStage!Params(c) \in FrameContext(Here, Ready)
  BY FrameSends, FrameCallsMade DEF FrameStage!Params, FrameStage!Call, Call
<1>4. FrameStage!Start(c) \in FrameContext(Here, Ready)
  <2> DEFINE free == Free(c.sdh, MaxOut)
  <2>1. free \in 0 .. MaxOut
    BY FileToFileAssumption, FreeTyped DEF FrameContext
  <2>2. FrameStage!Start(c) = IF c.exists /\ ~c.prevFinished
                       THEN FrameStage!Send(c, CallNext("source", free)) ELSE c
    BY FrameHandlerIs DEF FrameStage!Start, FrameStage!CallNext, FrameStage!Call, CallNext, Call
  <2> HIDE DEF free
  <2> QED BY <2>1, <2>2, FrameSends, FrameCallsMade
<1>5. FrameStage!Finish(c) \in FrameContext(Here, Ready)
  BY DEF FrameStage!Finish, FrameContext
<1>6. ASSUME Ready, NEW n \in 0 .. MaxOut PROVE FrameStage!Next(c, n) \in FrameContext(Here, Ready)
  <2>1. [c EXCEPT !.waiting = n] \in FrameContext(Here, Ready)
    BY <1>6 DEF FrameContext, Demand
  <2> QED BY <2>1, FrameFlushTyped DEF FrameStage!Next
<1>7. ASSUME NEW f \in FrameType PROVE FrameStage!Evaluated(c, f) \in FrameContext(Here, Ready)
  <2>1. IsFiniteSet({f})
    BY FS_Singleton
  <2> QED BY <2>1, FrameAddTyped DEF FrameStage!Evaluated
<1>8. FrameStage!EvaluationFailed(c) \in FrameContext(Here, Ready)
  BY FrameReports DEF FrameStage!EvaluationFailed
<1> QED BY <1>1, <1>2, <1>3, <1>4, <1>5, <1>6, <1>7, <1>8

(* The images of a batch are evaluated, a flush frame goes to the handler. *)
LEMMA FrameProcessTyped ==
    ASSUME NEW Here, NEW Ready \in BOOLEAN, NEW c \in FrameContext(Here, Ready), NEW load \in Seq(FrameType)
    PROVE  FrameStage!Process(c, load) \in FrameContext(Here, Ready)
<1> DEFINE I == {f \in Range(load) : ~IsFlush(f)}
           F == {f \in Range(load) : IsFlush(f)}
           J == {FrameStage!Job(c, f.number, f.image) : f \in I}
           d == FrameStage!Evaluate(c, J)
<1>1. Range(load) \in SUBSET FrameType /\ IsFiniteSet(Range(load))
  BY LoadTyped
<1>2. F \in SUBSET FrameType /\ IsFiniteSet(F)
  BY <1>1, FS_Subset
<1>3. J \in SUBSET Jobs("frame")
  <2> SUFFICES ASSUME NEW f \in I
               PROVE  FrameStage!Job(c, f.number, f.image) \in Jobs("frame")
    OBVIOUS
  <2>1. f \in FrameType /\ f.image # <<>> /\ c.framesId \in Nat
    BY <1>1 DEF IsFlush, FrameContext
  <2> QED BY <2>1 DEF FrameStage!Job, Jobs, JobType, FrameType
<1>4. FrameStage!Process(c, load) =
          IF ~c.exists THEN c ELSE IF F = {} THEN d ELSE FrameStage!AddAll(d, F)
  BY DEF FrameStage!Process, FrameStage!Range, Range, FrameStage!IsFlush, IsFlush
<1> HIDE DEF I, F, J
<1>5. d \in FrameContext(Here, Ready)
  BY <1>3, FrameEvaluateTyped
<1> QED BY <1>2, <1>4, <1>5, FrameAddTyped

-----------------------------------------------------------------------------
(* The inter-frame stage, where it repeats the frame stage.                *)
LEMMA InterSends ==
    ASSUME NEW Here, NEW Ready \in BOOLEAN, NEW c \in InterContext(Here, Ready), NEW m \in InterCalls(Ready)
    PROVE  InterStage!Common!Send(c, m) \in InterContext(Here, Ready)
<1>1. InterStage!Common!Send(c, m) = [c EXCEPT !.eff = [c.eff EXCEPT !.calls[ThreadOf(m.callee)] = Append(@, m)]]
  BY DEF InterStage!Common!Send, InterStage!Common!ThreadOf, ThreadOf, InterContext
<1>2. [c.eff EXCEPT !.calls[ThreadOf(m.callee)] = Append(@, m)] \in Effect(InterCalls(Ready), Jobs("interframe"))
  BY SendKeepsEffect, CallsTyped DEF InterContext
<1> QED BY <1>1, <1>2 DEF InterContext

(* Reporting keeps the type.                                               *)
LEMMA InterReports ==
    ASSUME NEW Here, NEW Ready \in BOOLEAN, NEW c \in InterContext(Here, Ready), NEW r \in {"finished", "failed", "crashed"}
    PROVE  InterStage!Common!Report(c, r) \in InterContext(Here, Ready)
<1>1. [c.eff EXCEPT !.report = r] \in Effect(InterCalls(Ready), Jobs("interframe"))
  BY DEF InterContext, Effect
<1> QED BY <1>1 DEF InterStage!Common!Report, InterContext

(* The calls of the inter-frame stage.                                     *)
LEMMA InterCallsMade ==
    ASSUME NEW Ready
    PROVE  /\ \A n \in 0 .. MaxOut : CallNext("frame", n) \in InterCalls(Ready)
           /\ Call("sink", "params") \in InterCalls(Ready)
           /\ Call("pipeline", "initialized") \in InterCalls(Ready)
           /\ \A load \in Seq(FrameType) :
                 Ready /\ load # <<>> => CallWith("sink", "process", load) \in InterCalls(Ready)
BY CallsMade DEF Is, InterCalls, Stage

(* Asking the frame stage for frames keeps the type.                       *)
LEMMA InterTriggerTyped ==
    ASSUME NEW Here, NEW Ready \in BOOLEAN, NEW c \in InterContext(Here, Ready)
    PROVE  InterStage!Common!Trigger(c) \in InterContext(Here, Ready)
<1> DEFINE free == Free(c.sdh, MaxOut)
<1>1. free \in 0 .. MaxOut
  BY FileToFileAssumption, FreeTyped DEF InterContext
<1>2. InterStage!Common!Trigger(c) = IF free # 0 THEN InterStage!Common!Send(c, CallNext("frame", free)) ELSE c
  BY InterHandlerIs DEF InterStage!Common!Trigger, InterStage!Common!CallNext, InterStage!Common!Call, CallNext, Call
<1> HIDE DEF free
<1> QED BY <1>1, <1>2, InterSends, InterCallsMade

(* A flush keeps the type.                                                 *)
LEMMA InterFlushTyped ==
    ASSUME NEW Here, NEW Ready \in BOOLEAN, NEW c \in InterContext(Here, Ready)
    PROVE  InterStage!Common!Flush(c) \in InterContext(Here, Ready)
<1>1. ASSUME NEW d \in InterContext(Here, Ready), NEW load \in Seq(FrameType), load # <<>>, Ready
      PROVE  InterStage!Common!Deliver(d, load) \in InterContext(Here, Ready)
  <2> DEFINE w == [d EXCEPT !.waiting = 0]
             x == InterStage!Common!Send(w, CallWith("sink", "process", load))
  <2>1. w \in InterContext(Here, Ready)
    <3>1. 0 \in Demand(Ready, MaxWrite)
      BY FileToFileAssumption DEF Demand
    <3> QED BY <3>1 DEF InterContext
  <2> HIDE DEF w
  <2>2. x \in InterContext(Here, Ready)
    BY <1>1, <2>1, InterSends, InterCallsMade
  <2> HIDE DEF x
  <2>3. InterStage!Common!Deliver(d, load) = InterStage!Common!Trigger(x)
    BY DEF InterStage!Common!Deliver, w, x, InterStage!Common!CallWith, CallWith, InterStage!Common!Call, Call
  <2> QED BY <2>2, <2>3, InterTriggerTyped
<1> DEFINE d == [c EXCEPT !.sdh = TryProcessInput(c.sdh)]
           n == DeliverAmount(d.sdh, MaxOut, d.waiting)
           k == [d EXCEPT !.sdh = Kept(d.sdh, n)]
<1>2. /\ c.sdh \in Handler /\ c.waiting \in Nat /\ MaxOut \in Nat
      /\ c.waiting # 0 => Ready
      /\ d.sdh = TryProcessInput(c.sdh) /\ d.waiting = c.waiting
  BY FileToFileAssumption DEF InterContext, Demand
<1>3. d \in InterContext(Here, Ready)
  BY <1>2, FlushTyped DEF InterContext
<1>4. /\ Kept(d.sdh, n) \in Handler /\ Taken(d.sdh, n) \in Seq(FrameType)
      /\ n # 0 => Taken(d.sdh, n) # <<>>
      /\ n # 0 => Ready
  BY <1>2, FlushTyped
<1>5. k \in InterContext(Here, Ready)
  BY <1>3, <1>4 DEF InterContext
<1>6. InterStage!Common!Flush(c) =
          IF d.sdh.out = <<>> THEN InterStage!Common!Trigger(d)
          ELSE IF n = 0       THEN d
          ELSE InterStage!Common!Deliver(k, Taken(d.sdh, n))
  BY InterFlushIs
<1> HIDE DEF d, n, k
<1> QED BY <1>1, <1>3, <1>4, <1>5, <1>6, InterTriggerTyped

(* Adding results keeps the type.                                          *)
LEMMA InterAddTyped ==
    ASSUME NEW Here, NEW Ready \in BOOLEAN, NEW c \in InterContext(Here, Ready), NEW E \in SUBSET FrameType, IsFiniteSet(E)
    PROVE  InterStage!Common!AddAll(c, E) \in InterContext(Here, Ready)
<1>1. [c EXCEPT !.sdh.in = @ \union E] \in InterContext(Here, Ready)
  <2>1. [c.sdh EXCEPT !.in = @ \union E] \in Handler
    BY AddTyped DEF InterContext
  <2> QED BY <2>1 DEF InterContext
<1> QED BY <1>1, InterFlushTyped, InterAddIs

(* Asking for evaluations keeps the type.                                  *)
LEMMA InterEvaluateTyped ==
    ASSUME NEW Here, NEW Ready \in BOOLEAN, NEW c \in InterContext(Here, Ready), NEW J \in SUBSET Jobs("interframe")
    PROVE  InterStage!Common!Evaluate(c, J) \in InterContext(Here, Ready)
<1>1. [c.eff EXCEPT !.jobs = @ \union J] \in Effect(InterCalls(Ready), Jobs("interframe"))
  BY DEF InterContext, Effect
<1> QED BY <1>1 DEF InterStage!Common!Evaluate, InterContext

(* The handlers that only keep something or send something.                *)
LEMMA InterStepsTyped ==
    ASSUME NEW Here, NEW Ready \in BOOLEAN, NEW c \in InterContext(Here, Ready), TRUE \in Here
    PROVE  /\ InterStage!Common!Init(c) \in InterContext(Here, Ready)
           /\ \A ok \in BOOLEAN, id \in Nat : InterStage!Common!Compiled(c, ok, id) \in InterContext(Here, Ready)
           /\ InterStage!Common!Params(c) \in InterContext(Here, Ready)
           /\ InterStage!Common!Start(c) \in InterContext(Here, Ready)
           /\ InterStage!Common!Finish(c) \in InterContext(Here, Ready)
           /\ Ready => \A n \in 0 .. MaxWrite : InterStage!Common!Next(c, n) \in InterContext(Here, Ready)
           /\ \A f \in FrameType : InterStage!Common!Evaluated(c, f) \in InterContext(Here, Ready)
           /\ InterStage!Common!EvaluationFailed(c) \in InterContext(Here, Ready)
<1>1. InterStage!Common!Init(c) \in InterContext(Here, Ready)
  <2>1. [c EXCEPT !.exists = TRUE, !.script = "compiling"] \in InterContext(Here, Ready)
    BY DEF InterContext, Scripting
  <2> QED BY <2>1, InterFlushTyped DEF InterStage!Common!Init
<1>2. ASSUME NEW ok \in BOOLEAN, NEW id \in Nat PROVE InterStage!Common!Compiled(c, ok, id) \in InterContext(Here, Ready)
  <2> DEFINE d == [c EXCEPT !.script = "ready", !.framesId = id]
             e == [c EXCEPT !.script = "failed", !.framesId = 0]
  <2>1. d \in InterContext(Here, Ready) /\ e \in InterContext(Here, Ready)
    BY DEF InterContext, Scripting
  <2> HIDE DEF d, e
  <2>2. InterStage!Common!Send(d, Call("pipeline", "initialized")) \in InterContext(Here, Ready)
    BY <2>1, InterSends, InterCallsMade
  <2>3. InterStage!Common!Compiled(c, ok, id) = IF ok THEN InterStage!Common!Send(d, Call("pipeline", "initialized")) ELSE e
    BY DEF InterStage!Common!Compiled, d, e, InterStage!Common!Call, Call
  <2> QED BY <2>1, <2>2, <2>3
<1>3. InterStage!Common!Params(c) \in InterContext(Here, Ready)
  BY InterSends, InterCallsMade DEF InterStage!Common!Params, InterStage!Common!Call, Call
<1>4. InterStage!Common!Start(c) \in InterContext(Here, Ready)
  <2> DEFINE free == Free(c.sdh, MaxOut)
  <2>1. free \in 0 .. MaxOut
    BY FileToFileAssumption, FreeTyped DEF InterContext
  <2>2. InterStage!Common!Start(c) = IF c.exists /\ ~c.prevFinished
                       THEN InterStage!Common!Send(c, CallNext("frame", free)) ELSE c
    BY InterHandlerIs DEF InterStage!Common!Start, InterStage!Common!CallNext, InterStage!Common!Call, CallNext, Call
  <2> HIDE DEF free
  <2> QED BY <2>1, <2>2, InterSends, InterCallsMade
<1>5. InterStage!Common!Finish(c) \in InterContext(Here, Ready)
  BY DEF InterStage!Common!Finish, InterContext
<1>6. ASSUME Ready, NEW n \in 0 .. MaxWrite PROVE InterStage!Common!Next(c, n) \in InterContext(Here, Ready)
  <2>1. [c EXCEPT !.waiting = n] \in InterContext(Here, Ready)
    BY <1>6 DEF InterContext, Demand
  <2> QED BY <2>1, InterFlushTyped DEF InterStage!Common!Next
<1>7. ASSUME NEW f \in FrameType PROVE InterStage!Common!Evaluated(c, f) \in InterContext(Here, Ready)
  <2>1. IsFiniteSet({f})
    BY FS_Singleton
  <2> QED BY <2>1, InterAddTyped DEF InterStage!Common!Evaluated
<1>8. InterStage!Common!EvaluationFailed(c) \in InterContext(Here, Ready)
  BY InterReports DEF InterStage!Common!EvaluationFailed
<1> QED BY <1>1, <1>2, <1>3, <1>4, <1>5, <1>6, <1>7, <1>8

(* The end of the compilation is noted, and reported if it failed.         *)
LEMMA InterCompiledTyped ==
    ASSUME NEW Here, NEW Ready \in BOOLEAN, NEW c \in InterContext(Here, Ready),
           NEW ok \in BOOLEAN, NEW id \in Nat, TRUE \in Here
    PROVE  InterStage!Compiled(c, ok, id) \in InterContext(Here, Ready)
<1>1. InterStage!Common!Compiled(c, ok, id) \in InterContext(Here, Ready)
  BY InterStepsTyped
<1>2. InterStage!Report(InterStage!Common!Compiled(c, ok, id), "failed")
          = InterStage!Common!Report(InterStage!Common!Compiled(c, ok, id), "failed")
  BY DEF InterStage!Report, InterStage!Common!Report
<1> QED BY <1>1, <1>2, InterReports DEF InterStage!Compiled

(* The parts of try_process_input: the run, its images and flush frames,   *)
(* the evaluations of its pairs, and the context with the rest.            *)
Run(c) == {f \in c.buffer : f.number <= InterStage!LastOfRun(c)}

RunImages(c) == {f \in Run(c) : ~IsFlush(f)}

RunFlush(c) ==
    {InterStage!FlushFrame(InterStage!FlushNumber(f.number)) : f \in Run(c) \ RunImages(c)}

PairJob(c, p) ==
    InterStage!Common!Job(c, c.created + Cardinality(InterStage!Before(RunImages(c), p[1])),
                          p[1].image \o p[2].image)

PairJobs(c) == {PairJob(c, p) : p \in InterStage!Neighbours(RunImages(c))}

Asked(c) ==
    InterStage!Common!Evaluate(
        [c EXCEPT !.buffer = InterStage!KeptFromLast(c, InterStage!LastOfRun(c)),
                  !.nextFrame = InterStage!LastOfRun(c)],
        PairJobs(c))

Flushed(c) == IF RunFlush(c) = {} THEN Asked(c) ELSE InterStage!Common!AddAll(Asked(c), RunFlush(c))

PairedUp(c) ==
    [Flushed(c) EXCEPT !.created = InterStage!Created(c, RunImages(c), RunFlush(c))]

(* try_process_input, put together from its parts.                         *)
LEMMA PairUpIs ==
    ASSUME NEW c
    PROVE  InterStage!PairUp(c) =
               IF c.buffer = {} THEN c
               ELSE IF Cardinality(Run(c)) < 2 THEN InterStage!Common!Flush(c)
               ELSE PairedUp(c)
<1> DEFINE last == InterStage!LastOfRun(c)
           run == {f \in c.buffer : f.number <= last}
           im == {f \in run : ~InterStage!IsFlush(f)}
           fl == {InterStage!FlushFrame(InterStage!FlushNumber(f.number)) : f \in run \ im}
           kept == [c EXCEPT !.buffer = InterStage!KeptFromLast(c, last), !.nextFrame = last]
           J == {InterStage!Common!Job(c, c.created + InterStage!Cardinality(InterStage!Before(im, p[1])),
                                       p[1].image \o p[2].image) : p \in InterStage!Neighbours(im)}
           asked == InterStage!Evaluate(kept, J)
           flushed == IF fl = {} THEN asked ELSE InterStage!Common!AddAll(asked, fl)
<1>1. InterStage!PairUp(c) =
          IF c.buffer = {} THEN c
          ELSE IF InterStage!Cardinality(run) < 2 THEN InterStage!Common!Flush(c)
          ELSE [flushed EXCEPT !.created = InterStage!Created(c, im, fl)]
  BY DEF InterStage!PairUp
<1>2. \A S : InterStage!Cardinality(S) = Cardinality(S)
  BY DEF InterStage!Cardinality, Cardinality, InterStage!IsFiniteSet, IsFiniteSet
<1>3. run = Run(c) /\ im = RunImages(c)
  BY DEF Run, RunImages, InterStage!IsFlush, IsFlush
<1>4. kept = [c EXCEPT !.buffer = InterStage!KeptFromLast(c, InterStage!LastOfRun(c)),
                       !.nextFrame = InterStage!LastOfRun(c)]
  OBVIOUS
<1> HIDE DEF last, run, im, kept
<1>5. fl = RunFlush(c)
  BY <1>3 DEF RunFlush
<1>6. J = PairJobs(c)
  BY <1>2, <1>3 DEF PairJobs, PairJob
<1> HIDE DEF fl, J
<1>7. asked = Asked(c)
  BY <1>4, <1>6 DEF Asked, InterStage!Evaluate, InterStage!Common!Evaluate
<1> HIDE DEF asked
<1>8. flushed = Flushed(c)
  BY <1>5, <1>7 DEF Flushed
<1> HIDE DEF flushed
<1> QED BY <1>1, <1>2, <1>3, <1>5, <1>8 DEF PairedUp

(* The rest of a division is a number.                                     *)
LEMMA Modulo ==
    ASSUME NEW n \in Int
    PROVE  n % SizeModulus \in Nat
<1>1. SizeModulus \in Nat \ {0}
  BY FileToFileAssumption
<1> QED BY <1>1

(* The last number of the run is a number.                                 *)
LEMMA LastOfRunTyped ==
    ASSUME NEW Here, NEW Ready \in BOOLEAN, NEW c \in InterContext(Here, Ready)
    PROVE  InterStage!LastOfRun(c) \in Nat
<1> DEFINE gap == Min((c.nextFrame .. c.nextFrame + Cardinality(c.buffer)) \ NumbersOf(c.buffer))
<1>1. InterStage!LastOfRun(c) = IF Cardinality(c.buffer) > 1 THEN (gap - 1) % SizeModulus ELSE gap
  BY DEF InterStage!LastOfRun, InterStage!Min, Min, InterStage!NumbersOf, NumbersOf,
         InterStage!Cardinality, Cardinality, InterStage!IsFiniteSet, IsFiniteSet
<1>2. c.nextFrame \in Nat /\ IsFiniteSet(c.buffer)
  BY DEF InterContext, Frames
<1>3. gap \in Nat
  BY <1>2, FirstGap
<1> HIDE DEF gap
<1>4. (gap - 1) % SizeModulus \in Nat
  BY <1>3, Modulo
<1> QED BY <1>1, <1>3, <1>4

(* What try_process_input evaluates and passes on.                         *)
LEMMA PairPartsTyped ==
    ASSUME NEW Here, NEW Ready \in BOOLEAN, NEW c \in InterContext(Here, Ready)
    PROVE  /\ RunImages(c) \in SUBSET FrameType /\ IsFiniteSet(RunImages(c))
           /\ RunFlush(c) \in SUBSET FrameType /\ IsFiniteSet(RunFlush(c))
           /\ PairJobs(c) \in SUBSET Jobs("interframe")
           /\ Asked(c) \in InterContext(Here, Ready)
           /\ Flushed(c) \in InterContext(Here, Ready)
<1>1. /\ c.buffer \in SUBSET FrameType /\ IsFiniteSet(c.buffer)
      /\ c.created \in Nat /\ c.framesId \in Nat
  BY DEF InterContext, Frames
<1>2. /\ Run(c) \in SUBSET FrameType /\ IsFiniteSet(Run(c))
      /\ RunImages(c) \in SUBSET FrameType /\ IsFiniteSet(RunImages(c))
      /\ \A f \in RunImages(c) : f.image # <<>>
  BY <1>1, FS_Subset DEF Run, RunImages, IsFlush
<1>3. RunFlush(c) \in SUBSET FrameType /\ IsFiniteSet(RunFlush(c))
  <2>1. ASSUME NEW n \in Nat PROVE InterStage!FlushFrame(InterStage!FlushNumber(n)) \in FrameType
    <3>1. InterStage!FlushNumber(n) \in Nat
      BY Modulo DEF InterStage!FlushNumber
    <3> QED BY <3>1 DEF InterStage!FlushFrame, InterStage!Frame, FrameType
  <2>2. \A f \in FrameType : f.number \in Nat
    BY DEF FrameType
  <2>3. IsFiniteSet(Run(c) \ RunImages(c))
    BY <1>2, FS_Difference
  <2> DEFINE g == [f \in Run(c) \ RunImages(c) |->
                      InterStage!FlushFrame(InterStage!FlushNumber(f.number))]
  <2>4. g \in Surjection(Run(c) \ RunImages(c), RunFlush(c))
    BY DEF Surjection, RunFlush
  <2> HIDE DEF g
  <2>5. IsFiniteSet(RunFlush(c))
    BY <2>3, <2>4, FS_Surjection
  <2> QED BY <1>2, <2>1, <2>2, <2>5 DEF RunFlush
<1>4. PairJobs(c) \in SUBSET Jobs("interframe")
  <2> SUFFICES ASSUME NEW p \in InterStage!Neighbours(RunImages(c))
               PROVE  PairJob(c, p) \in Jobs("interframe")
    BY DEF PairJobs
  <2>1. p[1] \in RunImages(c) /\ p[2] \in RunImages(c)
    BY DEF InterStage!Neighbours
  <2>2. /\ p[1].image \in Seq(Nat) /\ p[2].image \in Seq(Nat) /\ p[1].image # <<>>
    BY <1>2, <2>1 DEF FrameType
  <2>3. p[1].image \o p[2].image \in Seq(Nat) /\ p[1].image \o p[2].image # <<>>
    BY <2>2
  <2>4. Cardinality(InterStage!Before(RunImages(c), p[1])) \in Nat
    <3>1. IsFiniteSet(InterStage!Before(RunImages(c), p[1]))
      BY <1>2, FS_Subset DEF InterStage!Before
    <3> QED BY <3>1, FS_CardinalityType
  <2> HIDE DEF InterStage!Neighbours
  <2> DEFINE n == c.created + Cardinality(InterStage!Before(RunImages(c), p[1]))
             im == p[1].image \o p[2].image
  <2>5. n \in Nat /\ im \in Seq(Nat) /\ im # <<>>
    BY <1>1, <2>3, <2>4
  <2>6. PairJob(c, p) = InterStage!Common!Job(c, n, im)
    BY DEF PairJob
  <2> HIDE DEF n, im
  <2> QED BY <1>1, <2>5, <2>6 DEF InterStage!Common!Job, Jobs, JobType
<1>5. Asked(c) \in InterContext(Here, Ready)
  <2> DEFINE last == InterStage!LastOfRun(c)
             k == [c EXCEPT !.buffer = InterStage!KeptFromLast(c, last), !.nextFrame = last]
  <2>1. last \in Nat
    BY LastOfRunTyped
  <2> HIDE DEF last
  <2>2. InterStage!KeptFromLast(c, last) \in Frames
    BY <1>1, FS_Subset DEF InterStage!KeptFromLast, Frames
  <2>3. k \in InterContext(Here, Ready)
    BY <2>1, <2>2 DEF InterContext
  <2>4. Asked(c) = InterStage!Common!Evaluate(k, PairJobs(c))
    BY DEF Asked, k, last
  <2> HIDE DEF k
  <2> QED BY <1>4, <2>3, <2>4, InterEvaluateTyped
<1>6. Flushed(c) \in InterContext(Here, Ready)
  BY <1>3, <1>5, InterAddTyped DEF Flushed
<1> QED BY <1>2, <1>3, <1>4, <1>5, <1>6

(* try_process_input keeps the type.                                       *)
LEMMA PairUpTyped ==
    ASSUME NEW Here, NEW Ready \in BOOLEAN, NEW c \in InterContext(Here, Ready)
    PROVE  InterStage!PairUp(c) \in InterContext(Here, Ready)
<1>1. InterStage!Created(c, RunImages(c), RunFlush(c)) \in Nat
  <2> DEFINE x == c.created + Cardinality(RunImages(c)) - 1 - (IF RunFlush(c) = {} THEN 0 ELSE 1)
  <2>0. IsFiniteSet(RunImages(c)) /\ c.created \in Nat
    BY PairPartsTyped DEF InterContext
  <2>1. x \in Int
    BY <2>0, FS_CardinalityType
  <2>2. InterStage!Created(c, RunImages(c), RunFlush(c)) = x % SizeModulus
    BY DEF InterStage!Created, InterStage!Cardinality, Cardinality, InterStage!IsFiniteSet, IsFiniteSet
  <2> HIDE DEF x
  <2> QED BY <2>1, <2>2, Modulo
<1>2. Flushed(c) \in InterContext(Here, Ready)
  BY PairPartsTyped
<1>3. PairedUp(c) \in InterContext(Here, Ready)
  BY <1>1, <1>2 DEF PairedUp, InterContext
<1> QED BY <1>3, PairUpIs, InterFlushTyped

(* So does process, which buffers the frames before.                       *)
LEMMA InterProcessTyped ==
    ASSUME NEW Here, NEW Ready \in BOOLEAN, NEW c \in InterContext(Here, Ready), NEW load \in Seq(FrameType)
    PROVE  InterStage!Process(c, load) \in InterContext(Here, Ready)
<1> DEFINE d == [c EXCEPT !.buffer = @ \union Range(load)]
<1>1. c.buffer \union Range(load) \in Frames
  BY LoadTyped, FS_Union DEF InterContext, Frames
<1>2. d \in InterContext(Here, Ready)
  BY <1>1 DEF InterContext
<1>3. InterStage!Process(c, load) = IF c.exists THEN InterStage!PairUp(d) ELSE c
  BY DEF InterStage!Process, InterStage!Range, Range
<1> HIDE DEF d
<1> QED BY <1>2, <1>3, PairUpTyped

-----------------------------------------------------------------------------
(* The sink.                                                               *)
LEMMA SinkSends ==
    ASSUME NEW Here, NEW c \in SinkContext(Here), NEW m \in SinkCalls
    PROVE  Sink!Send(c, m) \in SinkContext(Here)
<1>1. Sink!Send(c, m) = [c EXCEPT !.eff = [c.eff EXCEPT !.calls[ThreadOf(m.callee)] = Append(@, m)]]
  BY DEF Sink!Send, Sink!ThreadOf, ThreadOf, SinkContext
<1>2. [c.eff EXCEPT !.calls[ThreadOf(m.callee)] = Append(@, m)] \in Effect(SinkCalls, {})
  BY SendKeepsEffect, CallsTyped DEF SinkContext
<1> QED BY <1>1, <1>2 DEF SinkContext

(* Reporting keeps the type.                                               *)
LEMMA SinkReports ==
    ASSUME NEW Here, NEW c \in SinkContext(Here), NEW r \in {"finished", "failed", "crashed"}
    PROVE  Sink!Report(c, r) \in SinkContext(Here)
<1>1. [c.eff EXCEPT !.report = r] \in Effect(SinkCalls, {})
  BY DEF SinkContext, Effect
<1> QED BY <1>1 DEF Sink!Report, SinkContext

(* The calls of the sink.                                                  *)
LEMMA SinkCallsMade ==
    /\ \A n \in 0 .. MaxWrite : CallNext("interframe", n) \in SinkCalls
    /\ Call("writer", "last") \in SinkCalls
    /\ Call("pipeline", "initialized") \in SinkCalls
    /\ \A load \in Seq(FrameType) :
          ~HasFlush(load) => CallWith("writer", "frames", load) \in SinkCalls
BY CallsMade DEF Is, SinkCalls, Stage

(* Asking the inter-frame stage for frames keeps the type.                 *)
LEMMA SinkTriggerTyped ==
    ASSUME NEW Here, NEW c \in SinkContext(Here)
    PROVE  /\ Free(c.sdh, MaxWrite) \in 0 .. MaxWrite
           /\ Sink!Trigger(c) = Sink!Send(c, CallNext("interframe", Free(c.sdh, MaxWrite)))
           /\ Sink!Trigger(c) \in SinkContext(Here)
<1> DEFINE free == Free(c.sdh, MaxWrite)
<1>1. free \in 0 .. MaxWrite
  BY FileToFileAssumption, FreeTyped DEF SinkContext
<1>2. Sink!Trigger(c) = Sink!Send(c, CallNext("interframe", free))
  BY SinkHandlerIs DEF Sink!Trigger, Sink!CallNext, Sink!Call, CallNext, Call
<1> HIDE DEF free
<1>3. Sink!Trigger(c) \in SinkContext(Here)
  BY <1>1, <1>2, SinkSends, SinkCallsMade
<1> QED BY <1>1, <1>2, <1>3 DEF free

(* A flush keeps the type.                                                 *)
LEMMA SinkFlushTyped ==
    ASSUME NEW Here, NEW c \in SinkContext(Here)
    PROVE  Sink!Flush(c) \in SinkContext(Here)
<1>1. ASSUME NEW d \in SinkContext(Here), NEW load \in Seq(FrameType)
      PROVE  Sink!Deliver(d, load) \in SinkContext(Here)
  <2>1. Sink!Deliver(d, load) =
            IF HasFlush(load) THEN Sink!Send(d, Call("writer", "last"))
            ELSE Sink!Send(d, CallWith("writer", "frames", load))
    BY DEF Sink!Deliver, Sink!HasFlush, HasFlush, Sink!IsFlush, IsFlush,
           Sink!CallWith, CallWith, Sink!Call, Call
  <2> QED BY <2>1, SinkSends, SinkCallsMade
<1> DEFINE d == [c EXCEPT !.sdh = TryProcessInput(c.sdh)]
           n == DeliverAmount(d.sdh, MaxWrite, Free(d.sdh, MaxWrite))
           k == [d EXCEPT !.sdh = Kept(d.sdh, n)]
<1>2. /\ c.sdh \in Handler /\ MaxWrite \in Nat
      /\ d.sdh = TryProcessInput(c.sdh)
  BY FileToFileAssumption DEF SinkContext
<1>3. d \in SinkContext(Here)
  BY <1>2, FlushTyped DEF SinkContext
<1>4. Free(d.sdh, MaxWrite) \in Nat
  <2>1. Free(d.sdh, MaxWrite) \in 0 .. MaxWrite
    BY <1>3, SinkTriggerTyped
  <2> QED BY <1>2, <2>1
<1>5. Kept(d.sdh, n) \in Handler /\ Taken(d.sdh, n) \in Seq(FrameType)
  BY <1>2, <1>4, FlushTyped
<1>6. k \in SinkContext(Here)
  BY <1>3, <1>5 DEF SinkContext
<1>7. Sink!Flush(c) =
          IF d.sdh.out = <<>> THEN Sink!Trigger(d)
          ELSE IF n = 0       THEN d
          ELSE Sink!Deliver(k, Taken(d.sdh, n))
  BY SinkFlushIs
<1> HIDE DEF d, n, k
<1> QED BY <1>1, <1>3, <1>5, <1>6, <1>7, SinkTriggerTyped

(* Adding frames keeps the type.                                           *)
LEMMA SinkAddTyped ==
    ASSUME NEW Here, NEW c \in SinkContext(Here), NEW E \in SUBSET FrameType, IsFiniteSet(E)
    PROVE  Sink!AddAll(c, E) \in SinkContext(Here)
<1>1. [c EXCEPT !.sdh.in = @ \union E] \in SinkContext(Here)
  <2>1. [c.sdh EXCEPT !.in = @ \union E] \in Handler
    BY AddTyped DEF SinkContext
  <2> QED BY <2>1 DEF SinkContext
<1> QED BY <1>1, SinkFlushTyped, SinkAddIs

(* The parts of try_flush_buffer: all entries, the id to start from, and   *)
(* the first one that is missing.                                          *)
Data(c, entries) == c.buffer \union Range(entries)

FirstEntry(c, entries) ==
    IF c.started \/ Data(c, entries) = {} THEN c.nextEntry
    ELSE IF c.buffer = {} THEN entries[1].number ELSE Min(NumbersOf(Data(c, entries)))

EndOfEntries(c, entries) ==
    Min((FirstEntry(c, entries) .. FirstEntry(c, entries) + Cardinality(Data(c, entries)))
            \ NumbersOf(Data(c, entries)))

NewlyWritten(c, entries) ==
    [i \in 1 .. EndOfEntries(c, entries) - FirstEntry(c, entries) |->
        Numbered(Data(c, entries), FirstEntry(c, entries) + i - 1).image]

(* try_flush_buffer, put together from its parts.                          *)
LEMMA FlushBufferIs ==
    ASSUME NEW c, NEW entries
    PROVE  Sink!FlushBuffer(c, entries) =
               [c EXCEPT !.buffer = {e \in Data(c, entries) :
                             e.number \notin FirstEntry(c, entries) .. EndOfEntries(c, entries) - 1},
                         !.started = @ \/ Data(c, entries) # {},
                         !.nextEntry = EndOfEntries(c, entries),
                         !.written = @ \o NewlyWritten(c, entries)]
<1> DEFINE data == c.buffer \union Sink!Range(entries)
           first == IF c.started \/ data = {} THEN c.nextEntry
                    ELSE IF c.buffer = {} THEN entries[1].number
                    ELSE Sink!Min(Sink!NumbersOf(data))
           next == Sink!Min((first .. first + Sink!Cardinality(data)) \ Sink!NumbersOf(data))
           new == [i \in 1 .. next - first |-> Sink!Numbered(data, first + i - 1).image]
<1>1. Sink!FlushBuffer(c, entries) =
          [c EXCEPT !.buffer = {e \in data : e.number \notin first .. next - 1},
                    !.started = @ \/ data # {},
                    !.nextEntry = next,
                    !.written = @ \o new]
  BY DEF Sink!FlushBuffer
<1>2. data = Data(c, entries)
  BY DEF Data, Sink!Range, Range
<1>3. \A S : Sink!Cardinality(S) = Cardinality(S)
  BY DEF Sink!Cardinality, Cardinality, Sink!IsFiniteSet, IsFiniteSet
<1>4. \A S : Sink!Min(S) = Min(S) /\ Sink!NumbersOf(S) = NumbersOf(S)
  BY DEF Sink!Min, Min, Sink!NumbersOf, NumbersOf
<1>5. \A S, n : Sink!Numbered(S, n) = Numbered(S, n)
  BY DEF Sink!Numbered, Numbered
<1> HIDE DEF data
<1>6. first = FirstEntry(c, entries)
  BY <1>2, <1>4 DEF FirstEntry
<1> HIDE DEF first
<1>7. next = EndOfEntries(c, entries)
  BY <1>2, <1>3, <1>4, <1>6 DEF EndOfEntries
<1> HIDE DEF next
<1>8. new = NewlyWritten(c, entries)
  BY <1>2, <1>5, <1>6, <1>7 DEF NewlyWritten
<1> HIDE DEF new
<1> QED BY <1>1, <1>2, <1>6, <1>7, <1>8

(* The parts of try_flush_buffer have their types, and the run has no gap. *)
LEMMA EntriesTyped ==
    ASSUME NEW Here, NEW c \in SinkContext(Here), NEW entries \in Seq(FrameType)
    PROVE  /\ Data(c, entries) \in Frames
           /\ FirstEntry(c, entries) \in Nat
           /\ EndOfEntries(c, entries) \in Nat
           /\ EndOfEntries(c, entries) >= FirstEntry(c, entries)
           /\ EndOfEntries(c, entries) \notin NumbersOf(Data(c, entries))
           /\ FirstEntry(c, entries) .. EndOfEntries(c, entries) - 1
                  \subseteq NumbersOf(Data(c, entries))
<1>1. /\ c.buffer \in SUBSET FrameType /\ IsFiniteSet(c.buffer) /\ c.nextEntry \in Nat
  BY DEF SinkContext, Frames
<1>2. Data(c, entries) \in SUBSET FrameType /\ IsFiniteSet(Data(c, entries))
  BY <1>1, LoadTyped, FS_Union DEF Data
<1>3. FirstEntry(c, entries) \in Nat
  <2>1. CASE c.started \/ Data(c, entries) = {}
    BY <2>1, <1>1 DEF FirstEntry
  <2>2. CASE ~(c.started \/ Data(c, entries) = {}) /\ c.buffer = {}
    <3>1. entries # <<>>
      BY <2>2 DEF Data, Range
    <3>2. entries[1] \in FrameType
      BY <3>1, LoadTyped
    <3> QED BY <2>2, <3>2 DEF FirstEntry, FrameType
  <2>3. CASE ~(c.started \/ Data(c, entries) = {}) /\ c.buffer # {}
    <3>1. NumbersOf(Data(c, entries)) \in SUBSET Nat /\ NumbersOf(Data(c, entries)) # {}
      BY <2>3, <1>2 DEF NumbersOf, FrameType
    <3>2. Min(NumbersOf(Data(c, entries))) \in Nat
      BY <3>1, MinOfNumbers
    <3> QED BY <2>3, <3>2 DEF FirstEntry
  <2> QED BY <2>1, <2>2, <2>3
<1>4. /\ EndOfEntries(c, entries) \in Nat
      /\ EndOfEntries(c, entries) >= FirstEntry(c, entries)
      /\ EndOfEntries(c, entries) \notin NumbersOf(Data(c, entries))
      /\ \A k \in FirstEntry(c, entries) .. EndOfEntries(c, entries) - 1 :
             k \in NumbersOf(Data(c, entries))
  BY <1>2, <1>3, FirstGap DEF EndOfEntries
<1> QED BY <1>2, <1>3, <1>4 DEF Frames

(* try_flush_buffer keeps the type.                                        *)
LEMMA FlushBufferTyped ==
    ASSUME NEW Here, NEW c \in SinkContext(Here), NEW entries \in Seq(FrameType)
    PROVE  Sink!FlushBuffer(c, entries) \in SinkContext(Here)
<1> DEFINE data == Data(c, entries)
           first == FirstEntry(c, entries)
           next == EndOfEntries(c, entries)
           new == NewlyWritten(c, entries)
           rest == {e \in data : e.number \notin first .. next - 1}
<1>1. /\ data \in SUBSET FrameType /\ IsFiniteSet(data) /\ first \in Nat /\ next \in Nat
      /\ next >= first /\ first .. next - 1 \subseteq NumbersOf(data)
  BY EntriesTyped DEF Frames
<1>2. new = [i \in 1 .. next - first |-> Numbered(data, first + i - 1).image]
  BY DEF NewlyWritten
<1>3. Sink!FlushBuffer(c, entries) =
          [c EXCEPT !.buffer = rest, !.started = c.started \/ data # {},
                    !.nextEntry = next, !.written = c.written \o new]
  BY FlushBufferIs
<1> HIDE DEF data, first, next, new
<1>4. rest \in Frames
  BY <1>1, FS_Subset DEF Frames
<1>5. new \in Seq(Seq(Nat))
  <2>1. ASSUME NEW i \in 1 .. next - first
        PROVE  Numbered(data, first + i - 1).image \in Seq(Nat)
    <3>1. first + i - 1 \in NumbersOf(data)
      BY <1>1
    <3>2. Numbered(data, first + i - 1) \in data
      BY <3>1 DEF NumbersOf, Numbered
    <3> QED BY <1>1, <3>2 DEF FrameType
  <2>2. next - first \in Nat
    BY <1>1
  <2> QED BY <1>2, <2>1, <2>2
<1>6. c.written \o new \in Seq(Seq(Nat))
  BY <1>5 DEF SinkContext
<1> HIDE DEF rest
<1> QED BY <1>1, <1>3, <1>4, <1>6 DEF SinkContext

(* The other handlers of the sink keep the type.                           *)
LEMMA SinkStepsTyped ==
    ASSUME NEW Here, NEW c \in SinkContext(Here), TRUE \in Here
    PROVE  /\ Sink!Init(c) \in SinkContext(Here)
           /\ Sink!Params(c) \in SinkContext(Here)
           /\ Sink!Start(c) \in SinkContext(Here)
           /\ \A load \in Seq(FrameType) :
                 /\ Sink!Process(c, load) \in SinkContext(Here)
                 /\ Sink!FramesWritten(c, load) \in SinkContext(Here)
                 /\ Sink!LastWritten(c, load) \in SinkContext(Here)
           /\ Sink!WriteFailed(c) \in SinkContext(Here)
<1>1. Sink!Init(c) \in SinkContext(Here)
  <2> DEFINE d == [c EXCEPT !.exists = TRUE]
             e == Sink!Send(d, Call("pipeline", "initialized"))
  <2>1. d \in SinkContext(Here)
    BY DEF SinkContext
  <2> HIDE DEF d
  <2>2. e \in SinkContext(Here)
    BY <2>1, SinkSends, SinkCallsMade
  <2>3. Sink!Init(c) = Sink!Flush(e)
    BY DEF Sink!Init, Sink!Call, Call, d
  <2> HIDE DEF e
  <2> QED BY <2>2, <2>3, SinkFlushTyped
<1>2. Sink!Params(c) \in SinkContext(Here)
  BY DEF Sink!Params, SinkContext
<1>3. Sink!Start(c) \in SinkContext(Here)
  <2>1. Sink!Start(c) = IF c.exists /\ ~c.prevFinished
                        THEN Sink!Send(c, CallNext("interframe", Free(c.sdh, MaxWrite))) ELSE c
    BY SinkHandlerIs DEF Sink!Start, Sink!CallNext, Sink!Call, CallNext, Call
  <2> QED BY <2>1, SinkTriggerTyped
<1>4. ASSUME NEW load \in Seq(FrameType)
      PROVE  /\ Sink!Process(c, load) \in SinkContext(Here)
             /\ Sink!FramesWritten(c, load) \in SinkContext(Here)
             /\ Sink!LastWritten(c, load) \in SinkContext(Here)
  <2>1. Sink!Process(c, load) \in SinkContext(Here)
    <3>1. Sink!Process(c, load) = IF c.exists THEN Sink!AddAll(c, Range(load)) ELSE c
      BY DEF Sink!Process, Sink!Range, Range
    <3> QED BY <3>1, LoadTyped, SinkAddTyped
  <2> DEFINE d == Sink!FlushBuffer(c, load)
             e == [d EXCEPT !.finished = TRUE]
  <2>2. d \in SinkContext(Here)
    BY FlushBufferTyped
  <2>3. Sink!FramesWritten(c, load) = Sink!Trigger(d)
    BY DEF Sink!FramesWritten
  <2>4. Sink!LastWritten(c, load) = Sink!Report(e, "finished")
    BY DEF Sink!LastWritten
  <2> HIDE DEF d
  <2>5. e \in SinkContext(Here)
    BY <2>2 DEF SinkContext
  <2> HIDE DEF e
  <2> QED BY <2>1, <2>2, <2>3, <2>4, <2>5, SinkTriggerTyped, SinkReports
<1>5. Sink!WriteFailed(c) \in SinkContext(Here)
  BY SinkReports DEF Sink!WriteFailed
<1> QED BY <1>1, <1>2, <1>3, <1>4, <1>5

-----------------------------------------------------------------------------
(* The state of the pipeline between two jobs: nothing is left to be sent. *)
Idle(C) == {c \in C : c.eff = NoEffects}

Contexts(v) ==
    [source : Idle(SourceContext(v, BOOLEAN, TRUE)), frame : Idle(FrameContext(BOOLEAN, TRUE)),
     interframe : Idle(InterContext(BOOLEAN, TRUE)), sink : Idle(SinkContext(BOOLEAN))]

ImagesType ==
    [scripts : Seq({"frame", "interframe"}),
     compiled : [{"frame", "interframe"} -> {"no", "yes", "failed"}],
     evaluating : SUBSET (Jobs("frame") \union Jobs("interframe"))]

Encoder == [held : Seq(Seq(Nat)), received : Nat]

Results == {"finished", "failed", "crashed"}

TypeInv ==
    /\ video \in Videos
    /\ context \in Contexts(video)
    /\ queue \in Queues(AllCalls)
    /\ pipeline \in [launched : 0 .. 4, initialized : Nat]
    /\ images \in ImagesType
    /\ encoder \in Encoder
    /\ reports \in Seq(Results)

(* The queues.                                                             *)
LEMMA PostTyped ==
    ASSUME NEW A \in SUBSET AllCalls, NEW q \in Queues(A), NEW M \in SUBSET A,
           NEW calls \in Queues(M)
    PROVE  Post(q, calls) \in Queues(A)
<1>1. ASSUME NEW t \in Thread
      PROVE  /\ q[t] \in Seq(CallType) /\ q[t] \in Seq(On(t, A))
             /\ calls[t] \in Seq(CallType) /\ calls[t] \in Seq(On(t, M))
  BY DEF Queues
<1>2. ASSUME NEW t \in Thread
      PROVE  /\ q[t] \o calls[t] \in Seq(CallType)
             /\ q[t] \o calls[t] \in Seq(On(t, A))
  <2>1. calls[t] \in Seq(On(t, A))
    <3>1. On(t, M) \subseteq On(t, A)
      BY DEF On
    <3> QED BY <3>1, <1>1
  <2> QED BY <1>1, <2>1
<1>3. Post(q, calls) \in [Thread -> Seq(CallType)]
  BY <1>2 DEF Post
<1>4. \A t \in Thread : Post(q, calls)[t] = q[t] \o calls[t]
  BY DEF Post
<1> QED BY <1>2, <1>3, <1>4 DEF Queues

(* A sequence of calls goes to the queues of those called.                 *)
LEMMA PostedTyped ==
    ASSUME NEW A \in SUBSET AllCalls, NEW q \in Queues(A), NEW m \in A
    PROVE  Posted(q, m) \in Queues(A)
BY CallsTyped, SendKeepsQueues DEF Posted

(* The job at the head of a queue is a call to one of its thread.          *)
LEMMA JobTyped ==
    ASSUME NEW A \in SUBSET AllCalls, queue \in Queues(A), NEW s \in Callee, NEW op, Calls(s, op)
    PROVE  /\ Job(s) \in A /\ Job(s).callee = s /\ Job(s).op = op
           /\ Made(s, op, Job(s).amount, Job(s).load)
           /\ Job(s).amount \in Nat /\ Job(s).load \in Seq(FrameType)
           /\ Dequeued(s) \in Queues(A)
<1> DEFINE t == ThreadOf(s)
<1>1. t \in Thread
  BY DEF Callee, Stage, ThreadOf, Thread
<1>2. /\ queue[t] # <<>> /\ Head(queue[t]).callee = s /\ Head(queue[t]).op = op
      /\ Job(s) = Head(queue[t]) /\ Dequeued(s) = [queue EXCEPT ![t] = Tail(@)]
  BY DEF Calls, Job, Dequeued
<1> HIDE DEF t
<1>3. /\ queue \in [Thread -> Seq(CallType)]
      /\ \A u \in Thread : queue[u] \in Seq(On(u, A))
  BY DEF Queues
<1>4. queue[t] \in Seq(On(t, A)) /\ queue[t] \in Seq(CallType)
  BY <1>1, <1>3
<1>5. Head(queue[t]) \in On(t, A) /\ Tail(queue[t]) \in Seq(On(t, A))
      /\ Tail(queue[t]) \in Seq(CallType)
  BY <1>2, <1>4
<1>6. Job(s) \in A /\ Job(s).callee = s /\ Job(s).op = op
  BY <1>2, <1>5 DEF On
<1>7. /\ Job(s).amount \in Nat /\ Job(s).load \in Seq(FrameType)
      /\ Made(s, op, Job(s).amount, Job(s).load)
  BY <1>6 DEF AllCalls, CallType
<1>8. Dequeued(s) \in [Thread -> Seq(CallType)]
  BY <1>2, <1>3, <1>5
<1>9. ASSUME NEW u \in Thread PROVE Dequeued(s)[u] \in Seq(On(u, A))
  <2>1. CASE u = t
    BY <2>1, <1>1, <1>2, <1>3, <1>5
  <2>2. CASE u # t
    BY <2>2, <1>1, <1>2, <1>3
  <2> QED BY <2>1, <2>2
<1> QED BY <1>6, <1>7, <1>8, <1>9 DEF Queues

(* No effects are effects of every type.                                   *)
LEMMA QuietTyped ==
    ASSUME NEW M \in SUBSET AllCalls, NEW J
    PROVE  NoEffects \in Effect(M, J)
<1>1. [t \in Thread |-> <<>>] \in Queues(M)
  <2>1. ASSUME NEW S PROVE <<>> \in Seq(S)
    OBVIOUS
  <2>2. [t \in Thread |-> <<>>] \in [Thread -> Seq(CallType)]
    BY <2>1
  <2>3. \A t \in Thread : [u \in Thread |-> <<>>][t] \in Seq(On(t, M))
    BY <2>1
  <2> QED BY <2>2, <2>3 DEF Queues
<1> HIDE DEF Queues
<1> QED BY <1>1 DEF NoEffects, Effect

(* What a stage's job, or its continuation, leaves behind.                 *)
LEMMA IdleAgain ==
    /\ \A v, c : c \in SourceContext(v, BOOLEAN, TRUE) => [c EXCEPT !.eff = NoEffects] \in Idle(SourceContext(v, BOOLEAN, TRUE))
    /\ \A c \in FrameContext(BOOLEAN, TRUE) : [c EXCEPT !.eff = NoEffects] \in Idle(FrameContext(BOOLEAN, TRUE))
    /\ \A c \in InterContext(BOOLEAN, TRUE) : [c EXCEPT !.eff = NoEffects] \in Idle(InterContext(BOOLEAN, TRUE))
    /\ \A c \in SinkContext(BOOLEAN) : [c EXCEPT !.eff = NoEffects] \in Idle(SinkContext(BOOLEAN))
<1>1. ASSUME NEW v, NEW c \in SourceContext(v, BOOLEAN, TRUE)
      PROVE  [c EXCEPT !.eff = NoEffects] \in Idle(SourceContext(v, BOOLEAN, TRUE))
  <2>1. NoEffects \in Effect(SourceCalls(TRUE), {})
    BY QuietTyped, CallsTyped
  <2> QED BY <2>1 DEF SourceContext, Idle
<1>2. ASSUME NEW c \in FrameContext(BOOLEAN, TRUE)
      PROVE  [c EXCEPT !.eff = NoEffects] \in Idle(FrameContext(BOOLEAN, TRUE))
  <2>1. NoEffects \in Effect(FrameCalls(TRUE), Jobs("frame"))
    BY QuietTyped, CallsTyped
  <2> QED BY <2>1 DEF FrameContext, Idle
<1>3. ASSUME NEW c \in InterContext(BOOLEAN, TRUE)
      PROVE  [c EXCEPT !.eff = NoEffects] \in Idle(InterContext(BOOLEAN, TRUE))
  <2>1. NoEffects \in Effect(InterCalls(TRUE), Jobs("interframe"))
    BY QuietTyped, CallsTyped
  <2> QED BY <2>1 DEF InterContext, Idle
<1>4. ASSUME NEW c \in SinkContext(BOOLEAN)
      PROVE  [c EXCEPT !.eff = NoEffects] \in Idle(SinkContext(BOOLEAN))
  <2>1. NoEffects \in Effect(SinkCalls, {})
    BY QuietTyped, CallsTyped
  <2> QED BY <2>1 DEF SinkContext, Idle
<1> QED BY <1>1, <1>2, <1>3, <1>4

(* The effects of a stage reach the queues, the image processor and the    *)
(* user.                                                                   *)
LEMMA EffectsTyped ==
    ASSUME TypeInv, NEW s \in Stage, NEW c, NEW q \in Queues(AllCalls), Effects(s, c, q),
           \/ s = "source" /\ c \in SourceContext(video, BOOLEAN, TRUE)
           \/ s = "frame" /\ c \in FrameContext(BOOLEAN, TRUE)
           \/ s = "interframe" /\ c \in InterContext(BOOLEAN, TRUE)
           \/ s = "sink" /\ c \in SinkContext(BOOLEAN)
    PROVE  /\ video' \in Videos /\ context' \in Contexts(video') /\ queue' \in Queues(AllCalls)
           /\ reports' \in Seq(Results)
           /\ c.eff.jobs \subseteq Jobs("frame") \union Jobs("interframe")
<1>1. \E M \in SUBSET AllCalls, J \in SUBSET (Jobs("frame") \union Jobs("interframe")) :
          c.eff \in Effect(M, J)
  <2>1. CASE c.eff \in Effect(SourceCalls(TRUE), {})
    BY <2>1, CallsTyped
  <2>2. CASE c.eff \in Effect(FrameCalls(TRUE), Jobs("frame"))
    BY <2>2, CallsTyped
  <2>3. CASE c.eff \in Effect(InterCalls(TRUE), Jobs("interframe"))
    BY <2>3, CallsTyped
  <2>4. CASE c.eff \in Effect(SinkCalls, {})
    BY <2>4, CallsTyped
  <2> QED BY <2>1, <2>2, <2>3, <2>4 DEF SourceContext, FrameContext, InterContext, SinkContext
<1>2. PICK M \in SUBSET AllCalls, J \in SUBSET (Jobs("frame") \union Jobs("interframe")) :
          c.eff \in Effect(M, J)
  BY <1>1
<1>3. /\ c.eff.calls \in Queues(M) /\ c.eff.jobs \subseteq J
      /\ c.eff.report \in {"none"} \union Results
  BY <1>2 DEF Effect, Results
<1>4. queue' \in Queues(AllCalls)
  BY <1>3, PostTyped DEF Effects
<1>5. video' = video /\ video' \in Videos
  BY DEF Effects, TypeInv
<1>6. reports' \in Seq(Results)
  <2> DEFINE r == IF FromFile THEN c.eff.report ELSE Rtsp!Reported(c.eff.report)
  <2>1. r \in {"none"} \union Results
    BY <1>3 DEF Rtsp!Reported
  <2>2. reports' = IF r = "none" THEN reports ELSE Append(reports, r)
    BY DEF Effects
  <2>3. reports \in Seq(Results)
    BY DEF TypeInv
  <2> HIDE DEF r
  <2> QED BY <2>1, <2>2, <2>3
<1>7. context' \in Contexts(video)
  <2> DEFINE e == [c EXCEPT !.eff = NoEffects]
  <2>1. context \in Contexts(video) /\ context' = [context EXCEPT ![s] = e]
    BY DEF Effects, TypeInv
  <2>2. \/ s = "source" /\ e \in Idle(SourceContext(video, BOOLEAN, TRUE))
        \/ s = "frame" /\ e \in Idle(FrameContext(BOOLEAN, TRUE))
        \/ s = "interframe" /\ e \in Idle(InterContext(BOOLEAN, TRUE))
        \/ s = "sink" /\ e \in Idle(SinkContext(BOOLEAN))
    BY IdleAgain
  <2> HIDE DEF e
  <2> QED BY <2>1, <2>2 DEF Contexts
<1> QED BY <1>3, <1>4, <1>5, <1>6, <1>7

(* A job that a stage has handled leaves a good state.                     *)
LEMMA HandledTyped ==
    ASSUME TypeInv, NEW s \in Stage, NEW op, Calls(s, op), NEW c, Handled(s, c),
           \/ s = "source" /\ c \in SourceContext(video, BOOLEAN, TRUE)
           \/ s = "frame" /\ c \in FrameContext(BOOLEAN, TRUE)
           \/ s = "interframe" /\ c \in InterContext(BOOLEAN, TRUE)
           \/ s = "sink" /\ c \in SinkContext(BOOLEAN)
    PROVE  TypeInv'
<1>1. Dequeued(s) \in Queues(AllCalls)
  BY JobTyped DEF TypeInv, Callee
<1>2. Effects(s, c, Dequeued(s))
  BY DEF Handled
<1>3. /\ video' \in Videos /\ context' \in Contexts(video') /\ queue' \in Queues(AllCalls)
      /\ reports' \in Seq(Results)
      /\ c.eff.jobs \subseteq Jobs("frame") \union Jobs("interframe")
  BY <1>1, <1>2, EffectsTyped
<1>4. images' \in ImagesType
  BY <1>3 DEF Handled, TypeInv, ImagesType
<1>5. /\ pipeline' \in [launched : 0 .. 4, initialized : Nat]
      /\ encoder' \in Encoder
  BY DEF Handled, TypeInv
<1> QED BY <1>3, <1>4, <1>5 DEF TypeInv

(* So does the continuation after a compilation.                           *)
LEMMA ContinueTyped ==
    ASSUME TypeInv, NEW s \in {"frame", "interframe"}, NEW c, Continue(s, c),
           \/ s = "frame" /\ c \in FrameContext(BOOLEAN, TRUE)
           \/ s = "interframe" /\ c \in InterContext(BOOLEAN, TRUE)
    PROVE  TypeInv'
<1>1. Effects(s, c, queue) /\ s \in Stage
  BY DEF Continue, Stage
<1>2. /\ video' \in Videos /\ context' \in Contexts(video') /\ queue' \in Queues(AllCalls)
      /\ reports' \in Seq(Results)
  BY <1>1, EffectsTyped DEF TypeInv
<1>3. /\ pipeline' \in [launched : 0 .. 4, initialized : Nat]
      /\ encoder' \in Encoder /\ images' \in ImagesType
  BY DEF Continue, TypeInv
<1> QED BY <1>2, <1>3 DEF TypeInv

(* The contexts of a good state.                                           *)
LEMMA ContextsTyped ==
    ASSUME TypeInv
    PROVE  /\ video \in Videos
           /\ context.source \in SourceContext(video, BOOLEAN, TRUE) /\ context.source.eff = NoEffects
           /\ context.frame \in FrameContext(BOOLEAN, TRUE) /\ context.frame.eff = NoEffects
           /\ context.interframe \in InterContext(BOOLEAN, TRUE) /\ context.interframe.eff = NoEffects
           /\ context.sink \in SinkContext(BOOLEAN) /\ context.sink.eff = NoEffects
           /\ queue \in Queues(AllCalls)
BY DEF TypeInv, Contexts, Idle

(* The source of a stream is the source of a file.                         *)
LEMMA RtspSends ==
    ASSUME NEW c
    PROVE  /\ \A m : Rtsp!File!Send(c, m) = Source!Send(c, m)
           /\ \A r : Rtsp!File!Report(c, r) = Source!Report(c, r)
           /\ Rtsp!File!Trigger(c) = Source!Trigger(c)
           /\ \A load : Rtsp!File!Deliver(c, load) = Source!Deliver(c, load)
<1>1. ASSUME NEW d, NEW m PROVE Rtsp!File!Send(d, m) = Source!Send(d, m)
  BY DEF Rtsp!File!Send, Source!Send, Rtsp!File!ThreadOf, Source!ThreadOf
<1>2. \A r : Rtsp!File!Report(c, r) = Source!Report(c, r)
  BY DEF Rtsp!File!Report, Source!Report
<1>3. /\ \A s, op : Rtsp!File!Call(s, op) = Source!Call(s, op)
      /\ \A s, op, load : Rtsp!File!CallWith(s, op, load) = Source!CallWith(s, op, load)
      /\ \A load : Rtsp!File!HasFlush(load) = Source!HasFlush(load)
  BY DEF Rtsp!File!Call, Source!Call, Rtsp!File!CallWith, Source!CallWith,
         Rtsp!File!HasFlush, Source!HasFlush, Rtsp!File!IsFlush, Source!IsFlush
<1>4. ASSUME NEW d PROVE Rtsp!File!Trigger(d) = Source!Trigger(d)
  BY <1>1, <1>3 DEF Rtsp!File!Trigger, Source!Trigger
<1>5. ASSUME NEW load PROVE Rtsp!File!Deliver(c, load) = Source!Deliver(c, load)
  <2> DEFINE w == [c EXCEPT !.waiting = 0]
             x == Source!Send(w, Source!CallWith("frame", "process", load))
             y == [x EXCEPT !.eofFlushed = TRUE]
  <2>1. Rtsp!File!Send(w, Rtsp!File!CallWith("frame", "process", load)) = x
    BY <1>1, <1>3
  <2>2. Source!Deliver(c, load) =
            IF Source!HasFlush(load) THEN Source!Send(y, Source!Call("frame", "finish"))
            ELSE Source!Trigger(x)
    BY DEF Source!Deliver
  <2>3. Rtsp!File!Deliver(c, load) =
            IF Rtsp!File!HasFlush(load) THEN Rtsp!File!Send(y, Rtsp!File!Call("frame", "finish"))
            ELSE Rtsp!File!Trigger(x)
    BY <2>1 DEF Rtsp!File!Deliver
  <2> HIDE DEF x, y
  <2> QED BY <1>1, <1>3, <1>4, <2>2, <2>3
<1> QED BY <1>1, <1>2, <1>4, <1>5

(* A flush of the stream source is one of the file source.                 *)
LEMMA RtspFlushes ==
    ASSUME NEW c
    PROVE  /\ Rtsp!File!Flush(c) = Source!Flush(c)
           /\ \A E : Rtsp!File!AddAll(c, E) = Source!AddAll(c, E)
<1>1. ASSUME NEW x PROVE Rtsp!File!Flush(x) = Source!Flush(x)
  <2> DEFINE d == [x EXCEPT !.sdh = TryProcessInput(x.sdh)]
             n == DeliverAmount(d.sdh, MaxRead, d.waiting)
             k == [d EXCEPT !.sdh = Kept(d.sdh, n)]
  <2>1. Source!Flush(x) =
            IF d.sdh.out = <<>> THEN Source!Trigger(d)
            ELSE IF n = 0       THEN d
            ELSE Source!Deliver(k, Taken(d.sdh, n))
    BY SourceFlushIs
  <2>2. Rtsp!File!Flush(x) =
            IF d.sdh.out = <<>> THEN Rtsp!File!Trigger(d)
            ELSE IF n = 0       THEN d
            ELSE Rtsp!File!Deliver(k, Taken(d.sdh, n))
    BY RtspFlushIs
  <2> HIDE DEF d, n, k
  <2>3. /\ Rtsp!File!Trigger(d) = Source!Trigger(d)
        /\ Rtsp!File!Deliver(k, Taken(d.sdh, n)) = Source!Deliver(k, Taken(d.sdh, n))
    BY RtspSends
  <2> QED BY <2>1, <2>2, <2>3
<1>2. ASSUME NEW E PROVE Rtsp!File!AddAll(c, E) = Source!AddAll(c, E)
  <2> DEFINE d == [c EXCEPT !.sdh.in = @ \union E]
  <2>1. Rtsp!File!AddAll(c, E) = Rtsp!File!Flush(d) /\ Source!AddAll(c, E) = Source!Flush(d)
    BY RtspAddIs, SourceAddIs
  <2> HIDE DEF d
  <2> QED BY <1>1, <2>1
<1> QED BY <1>1, <1>2

(* The handlers of the stream source are those of the file source.         *)
LEMMA RtspIs ==
    ASSUME NEW c
    PROVE  /\ \A opened : Rtsp!Init(c, opened) = Source!Init(c, opened)
           /\ \A v : Rtsp!Start(c, v) = Source!Start(c, v)
           /\ \A n : Rtsp!Next(c, n) = Source!Next(c, n)
<1>1. ASSUME NEW opened PROVE Rtsp!Init(c, opened) = Source!Init(c, opened)
  <2>1. \A s, op : Rtsp!File!Call(s, op) = Source!Call(s, op)
    BY DEF Rtsp!File!Call, Source!Call
  <2> DEFINE o == [c EXCEPT !.exists = TRUE, !.opened = TRUE]
             x == [c EXCEPT !.exists = TRUE]
  <2>2. Rtsp!File!Init(c, opened) =
            IF opened THEN Rtsp!File!Send(Rtsp!File!Send(o, Rtsp!File!Call("frame", "params")),
                                          Rtsp!File!Call("pipeline", "initialized"))
            ELSE Rtsp!File!Report(x, "failed")
    BY DEF Rtsp!File!Init
  <2>3. Source!Init(c, opened) =
            IF opened THEN Source!Send(Source!Send(o, Source!Call("frame", "params")),
                                       Source!Call("pipeline", "initialized"))
            ELSE Source!Report(x, "failed")
    BY DEF Source!Init
  <2> HIDE DEF o, x
  <2> QED BY <2>1, <2>2, <2>3, RtspSends DEF Rtsp!Init
<1>2. ASSUME NEW v PROVE Rtsp!Start(c, v) = Source!Start(c, v)
  <2> DEFINE w == Rtsp!File!Free(c.sdh, MaxRead)
             k == Rtsp!File!Min({w, v.packets - c.loaded})
             g == Rtsp!File!Decoded(v, c.loaded, k)
             r == [c EXCEPT !.loaded = @ + k,
                            !.eofReached = w > v.packets - c.loaded /\ v.end = "eof"]
             m == [r EXCEPT !.processed = @ + g]
             a == Rtsp!File!AddAll(m, Rtsp!File!FramesOf(c.processed, c.processed + g))
             e == [a EXCEPT !.processed = @ + 1]
  <2>1. Rtsp!File!Start(c, v) =
            IF ~c.exists \/ c.eofReached \/ Rtsp!File!Full(c.sdh, MaxRead)
            THEN c
            ELSE IF ~c.opened
            THEN Rtsp!File!Report(c, "crashed")
            ELSE IF w > v.packets - c.loaded /\ v.end = "error"
            THEN Rtsp!File!Report(r, "failed")
            ELSE IF g = 0
            THEN r
            ELSE IF a.eofReached /\ ~a.eofFlushed
            THEN Rtsp!File!AddAll(e, {Rtsp!File!FlushFrame(a.processed)})
            ELSE a
    BY DEF Rtsp!File!Start
  <2>2. w = Want(c)
    BY RtspHandlerIs DEF Want
  <2>3. Rtsp!File!Full(c.sdh, MaxRead) <=> Want(c) = 0
    BY <2>2 DEF Rtsp!File!Full
  <2> HIDE DEF w
  <2>4. k = Count(c, v)
    BY <2>2 DEF Rtsp!File!Min, Min, Count
  <2> HIDE DEF k
  <2>5. g = Gain(c, v)
    BY <2>4 DEF Rtsp!File!Decoded, Gain
  <2> HIDE DEF g
  <2>6. r = Read(c, v)
    BY <2>2, <2>4 DEF Read
  <2>7. m = Numbering(c, v)
    BY <2>5, <2>6 DEF Numbering
  <2> HIDE DEF r, m
  <2>8. Rtsp!File!FramesOf(c.processed, c.processed + g) = Source!FramesOf(c.processed, c.processed + Gain(c, v))
    BY <2>5 DEF Rtsp!File!FramesOf, Source!FramesOf, Rtsp!File!Frame, Source!Frame
  <2>9. a = Added(c, v)
    BY <2>7, <2>8, RtspFlushes DEF Added
  <2>10. e = Ended(c, v)
    BY <2>9 DEF Ended
  <2> HIDE DEF a, e
  <2>11. \A n : Rtsp!File!FlushFrame(n) = Source!FlushFrame(n)
    BY DEF Rtsp!File!FlushFrame, Source!FlushFrame, Rtsp!File!Frame, Source!Frame
  <2>12. Rtsp!Start(c, v) = Rtsp!File!Start(c, v)
    BY DEF Rtsp!Start
  <2> QED BY <2>1, <2>2, <2>3, <2>5, <2>6, <2>9, <2>10, <2>11, <2>12,
             RtspSends, RtspFlushes, SourceStartIs
<1>3. ASSUME NEW n PROVE Rtsp!Next(c, n) = Source!Next(c, n)
  BY RtspFlushes DEF Rtsp!Next, Rtsp!File!Next, Source!Next
<1> QED BY <1>1, <1>2, <1>3

(* The jobs of the source keep the invariant.                              *)
LEMMA SourceThreadTyped ==
    ASSUME TypeInv, SourceThread
    PROVE  TypeInv'
<1>1. video \in Videos /\ context.source \in SourceContext(video, BOOLEAN, TRUE) /\ "source" \in Stage
  BY ContextsTyped DEF Stage
<1>2. CASE SourceInit
  <2>1. Calls("source", "init")
    BY <1>2 DEF SourceInit
  <2>2. PICK opened \in BOOLEAN : Handled("source", Source!Init(context.source, opened))
    BY <1>2, RtspIs DEF SourceInit
  <2>3. Source!Init(context.source, opened) \in SourceContext(video, BOOLEAN, TRUE)
    BY <1>1, SourceInitTyped
  <2> QED BY <1>1, <2>1, <2>2, <2>3, HandledTyped
<1>3. CASE SourceStart
  <2>1. Calls("source", "start") /\ Handled("source", Source!Start(context.source, video))
    BY <1>3, RtspIs DEF SourceStart
  <2>2. Source!Start(context.source, video) \in SourceContext(video, BOOLEAN, TRUE)
    BY <1>1, SourceStartTyped
  <2> QED BY <1>1, <2>1, <2>2, HandledTyped
<1>4. CASE SourceNext
  <2>1. /\ Calls("source", "next")
        /\ Handled("source", Source!Next(context.source, Job("source").amount))
    BY <1>4, RtspIs DEF SourceNext
  <2>2. Made("source", "next", Job("source").amount, Job("source").load) /\ Job("source").amount \in Nat
    BY <1>1, <2>1, JobTyped DEF TypeInv, Callee
  <2>3. Job("source").amount \in 0 .. MaxOut
    BY <2>2 DEF Made
  <2>4. Source!Next(context.source, Job("source").amount) \in SourceContext(video, BOOLEAN, TRUE)
    BY <1>1, <2>3, SourceNextTyped
  <2> QED BY <1>1, <2>1, <2>4, HandledTyped
<1> QED BY <1>2, <1>3, <1>4 DEF SourceThread

(* The jobs of the frame stage keep the invariant.                         *)
LEMMA FrameStageTyped ==
    ASSUME TypeInv,
           \/ FrameInit \/ FrameParams \/ FrameStart \/ FrameFinish
           \/ FrameProcess \/ FrameNext \/ FrameEvaluated \/ FrameEvaluationFailed
    PROVE  TypeInv'
<1>1. context.frame \in FrameContext(BOOLEAN, TRUE) /\ "frame" \in Stage /\ "frame" \in Callee
  BY ContextsTyped DEF Stage, Callee
<1>2. ASSUME NEW op, Calls("frame", op)
      PROVE  /\ Made("frame", op, Job("frame").amount, Job("frame").load)
             /\ Job("frame").amount \in Nat /\ Job("frame").load \in Seq(FrameType)
  BY <1>1, <1>2, JobTyped DEF TypeInv
<1>3. ASSUME NEW op, Calls("frame", op), NEW c \in FrameContext(BOOLEAN, TRUE), Handled("frame", c)
      PROVE  TypeInv'
  BY <1>1, <1>3, HandledTyped
<1>4. CASE FrameInit
  <2>1. Calls("frame", "init") /\ Handled("frame", FrameStage!Init(context.frame))
    BY <1>4 DEF FrameInit
  <2> QED BY <1>1, <1>3, <2>1, FrameStepsTyped
<1>5. CASE FrameParams
  <2>1. Calls("frame", "params") /\ Handled("frame", FrameStage!Params(context.frame))
    BY <1>5 DEF FrameParams
  <2> QED BY <1>1, <1>3, <2>1, FrameStepsTyped
<1>6. CASE FrameStart
  <2>1. Calls("frame", "start") /\ Handled("frame", FrameStage!Start(context.frame))
    BY <1>6 DEF FrameStart
  <2> QED BY <1>1, <1>3, <2>1, FrameStepsTyped
<1>7. CASE FrameFinish
  <2>1. Calls("frame", "finish") /\ Handled("frame", FrameStage!Finish(context.frame))
    BY <1>7 DEF FrameFinish
  <2> QED BY <1>1, <1>3, <2>1, FrameStepsTyped
<1>8. CASE FrameProcess
  <2>1. Calls("frame", "process") /\ Handled("frame", FrameStage!Process(context.frame, Job("frame").load))
    BY <1>8 DEF FrameProcess
  <2> QED BY <1>1, <1>2, <1>3, <2>1, FrameProcessTyped
<1>9. CASE FrameNext
  <2>1. Calls("frame", "next") /\ Handled("frame", FrameStage!Next(context.frame, Job("frame").amount))
    BY <1>9 DEF FrameNext
  <2>2. Job("frame").amount \in 0 .. MaxOut
    <3>1. Made("frame", "next", Job("frame").amount, Job("frame").load) /\ Job("frame").amount \in Nat
      BY <1>2, <2>1
    <3> QED BY <3>1 DEF Made
  <2> QED BY <1>1, <1>3, <2>1, <2>2, FrameStepsTyped
<1>10. CASE FrameEvaluated
  <2>1. Calls("frame", "evaluated") /\ Handled("frame", FrameStage!Evaluated(context.frame, Job("frame").load[1]))
    BY <1>10 DEF FrameEvaluated
  <2>2. Job("frame").load[1] \in FrameType
    <3>1. /\ Made("frame", "evaluated", Job("frame").amount, Job("frame").load)
          /\ Job("frame").load \in Seq(FrameType)
      BY <1>2, <2>1
    <3>2. Len(Job("frame").load) = 1
      BY <3>1 DEF Made
    <3> QED BY <3>1, <3>2
  <2> QED BY <1>1, <1>3, <2>1, <2>2, FrameStepsTyped
<1>11. CASE FrameEvaluationFailed
  <2>1. Calls("frame", "failed") /\ Handled("frame", FrameStage!EvaluationFailed(context.frame))
    BY <1>11 DEF FrameEvaluationFailed
  <2> QED BY <1>1, <1>3, <2>1, FrameStepsTyped
<1> QED BY <1>4, <1>5, <1>6, <1>7, <1>8, <1>9, <1>10, <1>11

(* The handlers that the inter-frame stage shares with the frame stage.    *)
LEMMA InterStageIs ==
    ASSUME NEW c
    PROVE  /\ InterStage!Init(c) = InterStage!Common!Init(c)
           /\ InterStage!Params(c) = InterStage!Common!Params(c)
           /\ InterStage!Start(c) = InterStage!Common!Start(c)
           /\ InterStage!Finish(c) = InterStage!Common!Finish(c)
           /\ \A n : InterStage!Next(c, n) = InterStage!Common!Next(c, n)
           /\ \A f : InterStage!Evaluated(c, f) = InterStage!Common!Evaluated(c, f)
           /\ InterStage!EvaluationFailed(c) = InterStage!Common!EvaluationFailed(c)
BY DEF InterStage!Init, InterStage!Params, InterStage!Start, InterStage!Finish, InterStage!Next,
       InterStage!Evaluated, InterStage!EvaluationFailed

(* The jobs of the inter-frame stage keep the invariant.                   *)
LEMMA InterStageTyped ==
    ASSUME TypeInv,
           \/ InterframeInit \/ InterframeParams \/ InterframeStart
           \/ InterframeProcess \/ InterframeNext
           \/ InterframeEvaluated \/ InterframeEvaluationFailed
    PROVE  TypeInv'
<1>1. context.interframe \in InterContext(BOOLEAN, TRUE) /\ "interframe" \in Stage /\ "interframe" \in Callee
  BY ContextsTyped DEF Stage, Callee
<1>2. ASSUME NEW op, Calls("interframe", op)
      PROVE  /\ Made("interframe", op, Job("interframe").amount, Job("interframe").load)
             /\ Job("interframe").amount \in Nat /\ Job("interframe").load \in Seq(FrameType)
  BY <1>1, <1>2, JobTyped DEF TypeInv
<1>3. ASSUME NEW op, Calls("interframe", op), NEW c \in InterContext(BOOLEAN, TRUE), Handled("interframe", c)
      PROVE  TypeInv'
  BY <1>1, <1>3, HandledTyped
<1>4. CASE InterframeInit
  <2>1. Calls("interframe", "init") /\ Handled("interframe", InterStage!Common!Init(context.interframe))
    BY <1>4, InterStageIs DEF InterframeInit
  <2> QED BY <1>1, <1>3, <2>1, InterStepsTyped
<1>5. CASE InterframeParams
  <2>1. Calls("interframe", "params") /\ Handled("interframe", InterStage!Common!Params(context.interframe))
    BY <1>5, InterStageIs DEF InterframeParams
  <2> QED BY <1>1, <1>3, <2>1, InterStepsTyped
<1>6. CASE InterframeStart
  <2>1. Calls("interframe", "start") /\ Handled("interframe", InterStage!Common!Start(context.interframe))
    BY <1>6, InterStageIs DEF InterframeStart
  <2> QED BY <1>1, <1>3, <2>1, InterStepsTyped
<1>7. CASE InterframeProcess
  <2>1. Calls("interframe", "process") /\ Handled("interframe", InterStage!Process(context.interframe, Job("interframe").load))
    BY <1>7 DEF InterframeProcess
  <2> QED BY <1>1, <1>2, <1>3, <2>1, InterProcessTyped
<1>8. CASE InterframeNext
  <2>1. Calls("interframe", "next") /\ Handled("interframe", InterStage!Common!Next(context.interframe, Job("interframe").amount))
    BY <1>8, InterStageIs DEF InterframeNext
  <2>2. Job("interframe").amount \in 0 .. MaxWrite
    <3>1. Made("interframe", "next", Job("interframe").amount, Job("interframe").load) /\ Job("interframe").amount \in Nat
      BY <1>2, <2>1
    <3> QED BY <3>1 DEF Made
  <2> QED BY <1>1, <1>3, <2>1, <2>2, InterStepsTyped
<1>9. CASE InterframeEvaluated
  <2>1. Calls("interframe", "evaluated") /\ Handled("interframe", InterStage!Common!Evaluated(context.interframe, Job("interframe").load[1]))
    BY <1>9, InterStageIs DEF InterframeEvaluated
  <2>2. Job("interframe").load[1] \in FrameType
    <3>1. /\ Made("interframe", "evaluated", Job("interframe").amount, Job("interframe").load)
          /\ Job("interframe").load \in Seq(FrameType)
      BY <1>2, <2>1
    <3>2. Len(Job("interframe").load) = 1
      BY <3>1 DEF Made
    <3> QED BY <3>1, <3>2
  <2> QED BY <1>1, <1>3, <2>1, <2>2, InterStepsTyped
<1>10. CASE InterframeEvaluationFailed
  <2>1. Calls("interframe", "failed") /\ Handled("interframe", InterStage!Common!EvaluationFailed(context.interframe))
    BY <1>10, InterStageIs DEF InterframeEvaluationFailed
  <2> QED BY <1>1, <1>3, <2>1, InterStepsTyped
<1> QED BY <1>4, <1>5, <1>6, <1>7, <1>8, <1>9, <1>10

(* The jobs of the sink keep the invariant.                                *)
LEMMA SinkThreadTyped ==
    ASSUME TypeInv, SinkThread
    PROVE  TypeInv'
<1>1. context.sink \in SinkContext(BOOLEAN) /\ "sink" \in Stage /\ "sink" \in Callee
  BY ContextsTyped DEF Stage, Callee
<1>2. ASSUME NEW op, Calls("sink", op) PROVE Job("sink").load \in Seq(FrameType)
  BY <1>1, <1>2, JobTyped DEF TypeInv
<1>3. ASSUME NEW op, Calls("sink", op), NEW c \in SinkContext(BOOLEAN), Handled("sink", c)
      PROVE  TypeInv'
  BY <1>1, <1>3, HandledTyped
<1>4. CASE SinkInit
  <2>1. Calls("sink", "init") /\ Handled("sink", Sink!Init(context.sink))
    BY <1>4 DEF SinkInit
  <2> QED BY <1>1, <1>3, <2>1, SinkStepsTyped
<1>5. CASE SinkParams
  <2>1. Calls("sink", "params") /\ Handled("sink", Sink!Params(context.sink))
    BY <1>5 DEF SinkParams
  <2> QED BY <1>1, <1>3, <2>1, SinkStepsTyped
<1>6. CASE SinkStart
  <2>1. Calls("sink", "start") /\ Handled("sink", Sink!Start(context.sink))
    BY <1>6 DEF SinkStart
  <2> QED BY <1>1, <1>3, <2>1, SinkStepsTyped
<1>7. CASE SinkProcess
  <2>1. Calls("sink", "process") /\ Handled("sink", Sink!Process(context.sink, Job("sink").load))
    BY <1>7 DEF SinkProcess
  <2> QED BY <1>1, <1>2, <1>3, <2>1, SinkStepsTyped
<1>8. CASE SinkFramesWritten
  <2>1. Calls("sink", "framesWritten") /\ Handled("sink", Sink!FramesWritten(context.sink, Job("sink").load))
    BY <1>8 DEF SinkFramesWritten
  <2> QED BY <1>1, <1>2, <1>3, <2>1, SinkStepsTyped
<1>9. CASE SinkLastWritten
  <2>1. Calls("sink", "lastWritten") /\ Handled("sink", Sink!LastWritten(context.sink, Job("sink").load))
    BY <1>9 DEF SinkLastWritten
  <2> QED BY <1>1, <1>2, <1>3, <2>1, SinkStepsTyped
<1>10. CASE SinkWriteFailed
  <2>1. Calls("sink", "writeFailed") /\ Handled("sink", Sink!WriteFailed(context.sink))
    BY <1>10 DEF SinkWriteFailed
  <2> QED BY <1>1, <1>3, <2>1, SinkStepsTyped
<1> QED BY <1>4, <1>5, <1>6, <1>7, <1>8, <1>9, <1>10 DEF SinkThread

(* The launch and the start of the stages keep the invariant.              *)
LEMMA PipelineThreadTyped ==
    ASSUME TypeInv, PipelineThread
    PROVE  TypeInv'
<1>1. /\ queue \in Queues(AllCalls) /\ pipeline \in [launched : 0 .. 4, initialized : Nat]
      /\ Len(StageOrder) = 4
  BY DEF TypeInv, StageOrder
<1>2. \A n \in 1 .. 4 : StageOrder[n] \in Stage
  BY DEF StageOrder, Stage
<1>3. CASE Launch
  <2>1. pipeline.launched + 1 \in 1 .. 4
    BY <1>1, <1>3 DEF Launch
  <2>2. Call(StageOrder[pipeline.launched + 1], "init") \in AllCalls
    BY <1>2, <2>1, CallsMade DEF Is
  <2>3. queue' \in Queues(AllCalls)
    BY <1>1, <1>3, <2>2, PostedTyped DEF Launch
  <2>4. pipeline' \in [launched : 0 .. 4, initialized : Nat]
    BY <1>1, <1>3, <2>1 DEF Launch
  <2> QED BY <1>3, <2>3, <2>4 DEF Launch, TypeInv
<1>4. CASE StageInitialized
  <2>1. Calls("pipeline", "initialized") /\ "pipeline" \in Callee
    BY <1>4 DEF StageInitialized, Callee
  <2>2. Dequeued("pipeline") \in Queues(AllCalls)
    BY <1>1, <2>1, JobTyped
  <2>3. ASSUME NEW q \in Queues(AllCalls), NEW n \in 1 .. 4
        PROVE  StartPosted(q, n) \in Queues(AllCalls)
    <3>1. Call(StageOrder[n], "start") \in AllCalls
      BY <1>2, CallsMade DEF Is
    <3> QED BY <3>1, PostedTyped DEF StartPosted
  <2>4. AllStarted(Dequeued("pipeline")) \in Queues(AllCalls)
    BY <2>2, <2>3 DEF AllStarted
  <2>5. queue' \in Queues(AllCalls)
    BY <1>4, <2>2, <2>4 DEF StageInitialized
  <2>6. pipeline' \in [launched : 0 .. 4, initialized : Nat]
    BY <1>1, <1>4 DEF StageInitialized
  <2> QED BY <1>4, <2>5, <2>6 DEF StageInitialized, TypeInv
<1> QED BY <1>3, <1>4 DEF PipelineThread

(* The worker thread of the sink.                                          *)
LEMMA TakenInIs ==
    ASSUME NEW e \in Encoder, NEW load \in Seq(FrameType), ~HasFlush(load)
    PROVE  /\ Sink!TakenIn(e, load) =
                  [e EXCEPT !.held = @ \o [k \in 1 .. Len(load) |-> load[k].image]]
           /\ Sink!TakenIn(e, load) \in Encoder
<1> DEFINE n == Len(load)
           places == {i \in DOMAIN load : ~Sink!IsFlush(load[i])}
           place(k) == CHOOSE i \in places : Sink!Cardinality({j \in places : j <= i}) = k
<1>1. DOMAIN load = 1 .. n /\ n \in Nat
  BY LoadTyped
<1>2. places = 1 .. n
  BY <1>1 DEF HasFlush, Sink!IsFlush, IsFlush
<1>3. \A S : Sink!Cardinality(S) = Cardinality(S)
  BY DEF Sink!Cardinality, Cardinality, Sink!IsFiniteSet, IsFiniteSet
<1>4. Sink!TakenIn(e, load) =
          [e EXCEPT !.held = @ \o [k \in 1 .. Sink!Cardinality(places) |-> load[place(k)].image]]
  BY DEF Sink!TakenIn
<1>5. ASSUME NEW i \in 1 .. n PROVE Cardinality({j \in 1 .. n : j <= i}) = i
  <2>1. {j \in 1 .. n : j <= i} = 1 .. i
    BY <1>1
  <2>2. Cardinality(1 .. i) = i
    BY <1>1, FS_Interval
  <2> QED BY <2>1, <2>2
<1>6. Cardinality(1 .. n) = n
  BY <1>1, FS_Interval
<1>7. ASSUME NEW k \in 1 .. n PROVE place(k) = k
  <2>1. place(k) = CHOOSE i \in 1 .. n : Cardinality({j \in 1 .. n : j <= i}) = k
    BY <1>2, <1>3
  <2>2. \A i \in 1 .. n : Cardinality({j \in 1 .. n : j <= i}) = k <=> i = k
    BY <1>5
  <2> QED BY <2>1, <2>2
<1> HIDE DEF places, place
<1>8. [k \in 1 .. Sink!Cardinality(places) |-> load[place(k)].image]
          = [k \in 1 .. n |-> load[k].image]
  BY <1>2, <1>3, <1>6, <1>7
<1>9. [k \in 1 .. n |-> load[k].image] \in Seq(Seq(Nat))
  <2>1. \A k \in 1 .. n : load[k] \in FrameType
    BY <1>1
  <2>2. \A f \in FrameType : f.image \in Seq(Nat)
    BY DEF FrameType
  <2>3. \A k \in 1 .. n : load[k].image \in Seq(Nat)
    BY <2>1, <2>2
  <2> QED BY <1>1, <2>3
<1>10. e.held \o [k \in 1 .. n |-> load[k].image] \in Seq(Seq(Nat))
  BY <1>9 DEF Encoder
<1> QED BY <1>4, <1>8, <1>10 DEF Encoder

(* The larger of two numbers.                                              *)
LEMMA MaxOfTwo ==
    ASSUME NEW a \in Int, NEW b \in Int
    PROVE  Max({a, b}) = IF a >= b THEN a ELSE b
<1> DEFINE S == {a, b}
<1>1. CASE a >= b
  <2>1. \A x \in S : (\A y \in S : x >= y) <=> x = a
    BY <1>1
  <2> QED BY <1>1, <2>1 DEF Max
<1>2. CASE a < b
  <2>1. \A x \in S : (\A y \in S : x >= y) <=> x = b
    BY <1>2
  <2> QED BY <1>2, <2>1 DEF Max
<1> QED BY <1>1, <1>2

(* The encoder puts out what is beyond its lookahead.                      *)
LEMMA EntriesReadyTyped ==
    ASSUME NEW e \in Encoder
    PROVE  /\ Sink!EntriesReady(e) \in 0 .. Len(e.held)
           /\ Sink!EntriesReady(e) = IF Len(e.held) >= Lookahead THEN Len(e.held) - Lookahead ELSE 0
<1>1. Sink!EntriesReady(e) = Max({0, Len(e.held) - Lookahead})
  BY DEF Sink!EntriesReady, Sink!Max, Max
<1>2. Lookahead \in Nat /\ Len(e.held) \in Nat
  BY FileToFileAssumption DEF Encoder
<1>3. Max({0, Len(e.held) - Lookahead}) = IF 0 >= Len(e.held) - Lookahead THEN 0 ELSE Len(e.held) - Lookahead
  BY <1>2, MaxOfTwo
<1> QED BY <1>1, <1>2, <1>3

(* What comes out of the encoder are entries.                              *)
LEMMA EntriesOutTyped ==
    ASSUME NEW e \in Encoder, NEW n \in 0 .. Len(e.held)
    PROVE  Sink!EntriesOut(e, n) \in Seq(FrameType)
<1>1. e.held \in Seq(Seq(Nat)) /\ e.received \in Nat /\ n \in Nat /\ n <= Len(e.held)
  BY DEF Encoder
<1>2. ASSUME NEW i \in 1 .. n PROVE Sink!Frame(e.received + i - 1, e.held[i]) \in FrameType
  <2>1. e.held[i] \in Seq(Nat) /\ e.received + i - 1 \in Nat
    BY <1>1
  <2> QED BY <2>1 DEF Sink!Frame, FrameType
<1> DEFINE f(i) == Sink!Frame(e.received + i - 1, e.held[i])
<1>3. Sink!EntriesOut(e, n) = [i \in 1 .. n |-> f(i)]
  BY DEF Sink!EntriesOut
<1>4. \A i \in 1 .. n : f(i) \in FrameType
  BY <1>2
<1> HIDE DEF f
<1>5. [i \in 1 .. n |-> f(i)] \in Seq(FrameType)
  BY <1>1, <1>4
<1> QED BY <1>3, <1>5

(* What the encoder puts out goes to the sink.                             *)
LEMMA WroteTyped ==
    ASSUME TypeInv, NEW op \in {"framesWritten", "lastWritten", "writeFailed"},
           NEW e \in Encoder, NEW n \in 0 .. Len(e.held), NEW job, Calls("writer", job),
           Wrote(e, n, op)
    PROVE  TypeInv'
<1>1. e.held \in Seq(Seq(Nat)) /\ e.received \in Nat /\ n \in Nat /\ n <= Len(e.held)
  BY DEF Encoder
<1>2. Sink!EntriesOut(e, n) \in Seq(FrameType)
  BY EntriesOutTyped
<1>3. Sink!EncoderAfter(e, n) \in Encoder
  <2>1. SubSeq(e.held, n + 1, Len(e.held)) \in Seq(Seq(Nat))
    <3>1. \A i \in n + 1 .. Len(e.held) : e.held[i] \in Seq(Nat)
      BY <1>1
    <3> QED BY <1>1, <3>1, SubSeqProperties
  <2> QED BY <1>1, <2>1 DEF Sink!EncoderAfter, Encoder
<1>4. CallWith("sink", op, Sink!EntriesOut(e, n)) \in AllCalls
  BY <1>2, CallsMade DEF Is
<1>5. Dequeued("writer") \in Queues(AllCalls)
  BY JobTyped DEF TypeInv, Callee
<1>6. queue' \in Queues(AllCalls)
  BY <1>4, <1>5, PostedTyped DEF Wrote
<1>7. encoder' \in Encoder
  BY <1>3 DEF Wrote
<1> QED BY <1>6, <1>7 DEF Wrote, TypeInv

(* The jobs of the writer keep the invariant.                              *)
LEMMA WriterThreadTyped ==
    ASSUME TypeInv, WriterThread
    PROVE  TypeInv'
<1>1. encoder \in Encoder /\ 0 \in 0 .. Len(encoder.held) /\ Len(encoder.held) \in 0 .. Len(encoder.held)
  BY DEF TypeInv, Encoder
<1>2. CASE WriteFrames
  <2> DEFINE e == Sink!TakenIn(encoder, Job("writer").load)
  <2>1. Calls("writer", "frames") /\ Wrote(e, Sink!EntriesReady(e), "framesWritten")
    BY <1>2 DEF WriteFrames
  <2>2. /\ Made("writer", "frames", Job("writer").amount, Job("writer").load)
        /\ Job("writer").load \in Seq(FrameType)
    BY <2>1, JobTyped DEF TypeInv, Callee
  <2>3. ~HasFlush(Job("writer").load)
    BY <2>2 DEF Made
  <2>4. e \in Encoder
    BY <1>1, <2>2, <2>3, TakenInIs
  <2> HIDE DEF e
  <2>5. Sink!EntriesReady(e) \in 0 .. Len(e.held)
    BY <2>4, EntriesReadyTyped
  <2> QED BY <2>1, <2>4, <2>5, WroteTyped
<1>3. CASE WriteLastFrames
  BY <1>1, <1>3, WroteTyped DEF WriteLastFrames
<1>4. CASE WriteRefused
  <2>1. Wrote(encoder, 0, "writeFailed") /\ encoder \in Encoder /\ 0 \in 0 .. Len(encoder.held)
    BY <1>1, <1>4 DEF WriteRefused
  <2>2. CASE Calls("writer", "frames")
    BY <2>1, <2>2, WroteTyped
  <2>3. CASE Calls("writer", "last")
    BY <2>1, <2>3, WroteTyped
  <2> QED BY <1>4, <2>2, <2>3 DEF WriteRefused
<1> QED BY <1>2, <1>3, <1>4 DEF WriterThread

(* The end of an evaluation is a call of the stage that asked for it.      *)
LEMMA EvaluationPosts ==
    ASSUME TypeInv, NEW job \in images.evaluating, EvaluationDone(job)
    PROVE  \E m \in AllCalls : /\ m.callee = job.stage /\ m.op \in {"evaluated", "failed"}
                               /\ queue' = Posted(queue, m)
<1>1. /\ job \in JobType /\ job.images # <<>> /\ job.stage \in {"frame", "interframe"}
      /\ job.number \in Nat /\ job.images \in Seq(Nat)
  BY DEF TypeInv, ImagesType, Jobs, JobType
<1>2. CASE \E im \in Seq(Nat) :
              queue' = Posted(queue, CallWith(job.stage, "evaluated", <<Frame(job.number, im)>>))
  <2>1. PICK im \in Seq(Nat) :
              queue' = Posted(queue, CallWith(job.stage, "evaluated", <<Frame(job.number, im)>>))
    BY <1>2
  <2>2. <<Frame(job.number, im)>> \in Seq(FrameType) /\ Len(<<Frame(job.number, im)>>) = 1
    BY <1>1 DEF Frame, FrameType
  <2>3. Is(CallWith(job.stage, "evaluated", <<Frame(job.number, im)>>), job.stage, "evaluated")
    BY <1>1, <2>2, CallsMade
  <2> QED BY <2>1, <2>3 DEF Is
<1>3. CASE queue' = [queue EXCEPT !.processors = @ \o FailedCalls(job)]
  <2> DEFINE m == Call(job.stage, "failed")
  <2>1. Is(m, job.stage, "failed")
    BY <1>1, CallsMade
  <2>2. ThreadOf(m.callee) = "processors"
    BY <1>1, <2>1 DEF Is, ThreadOf
  <2>3. queue["processors"] \in Seq(CallType)
    BY DEF TypeInv, Queues, Thread
  <2>4. m \in CallType
    BY <2>1 DEF Is, AllCalls
  <2>5. queue' = [queue EXCEPT !["processors"] = queue["processors"] \o <<m>>]
    BY <1>3 DEF FailedCalls
  <2> HIDE DEF m
  <2>6. queue["processors"] \o <<m>> = Append(queue["processors"], m)
    BY <2>3, <2>4
  <2>7. queue' = Posted(queue, m)
    BY <2>2, <2>5, <2>6 DEF Posted
  <2> QED BY <2>1, <2>7 DEF Is
<1>4. ASSUME NEW script PROVE Result(script, job.images) \in Seq(Nat)
  <2>1. Len(job.images) \in Nat /\ Len(job.images) >= 1
    BY <1>1
  <2>2. SubSeq(job.images, 1, 1) \in Seq(Nat)
    <3>1. \A i \in 1 .. 1 : job.images[i] \in Nat
      BY <1>1, <2>1
    <3> QED BY <3>1, SubSeqProperties
  <2> QED BY <1>1, <2>2 DEF Result
<1> QED BY <1>2, <1>3, <1>4 DEF EvaluationDone

(* The numbers of the scripts.                                             *)
LEMMA NumberOfTyped ==
    ASSUME TypeInv, NEW s
    PROVE  NumberOf(s) \in Nat
<1>1. CASE Knows(s)
  <2>1. \E i \in DOMAIN images.scripts : images.scripts[i] = s
    BY <1>1 DEF Knows, Range
  <2>2. DOMAIN images.scripts = 1 .. Len(images.scripts) /\ Len(images.scripts) \in Nat
    BY DEF TypeInv, ImagesType
  <2>3. (CHOOSE i \in DOMAIN images.scripts : images.scripts[i] = s) \in 1 .. Len(images.scripts)
    BY <2>1, <2>2
  <2> QED BY <1>1, <2>2, <2>3 DEF NumberOf
<1>2. CASE ~Knows(s)
  BY <1>2 DEF NumberOf
<1> QED BY <1>1, <1>2

(* Compilations and evaluations keep the invariant.                        *)
LEMMA ImageProcessorTyped ==
    ASSUME TypeInv, ImageProcessor
    PROVE  TypeInv'
<1>1. /\ images \in ImagesType /\ queue \in Queues(AllCalls)
      /\ context.frame \in FrameContext(BOOLEAN, TRUE) /\ context.interframe \in InterContext(BOOLEAN, TRUE)
  BY ContextsTyped DEF TypeInv
<1>2. ASSUME NEW s \in {"frame", "interframe"}, Compile(s)
      PROVE  TypeInv'
  <2>1. images' \in ImagesType
    <3> DEFINE compiledAs(x) == [images.compiled EXCEPT ![s] = x]
               more == Append(images.scripts, s)
    <3>1. \A x \in {"yes", "failed"} :
              compiledAs(x) \in [{"frame", "interframe"} -> {"no", "yes", "failed"}]
      BY <1>1, <1>2 DEF ImagesType
    <3>2. /\ more \in Seq({"frame", "interframe"})
          /\ images.scripts \in Seq({"frame", "interframe"})
      BY <1>1, <1>2 DEF ImagesType
    <3>3. \/ images' = [images EXCEPT !.compiled = compiledAs("yes")]
          \/ images' = [images EXCEPT !.compiled = compiledAs("yes"), !.scripts = more]
          \/ images' = [images EXCEPT !.compiled = compiledAs("failed")]
      <4>1. images \in ImagesType
        BY <1>1
      <4>2. CASE Knows(s)
        BY <1>2, <4>1, <4>2 DEF Compile, ImagesType
      <4>3. CASE ~Knows(s)
        BY <1>2, <4>1, <4>3 DEF Compile, ImagesType
      <4> QED BY <4>2, <4>3
    <3> HIDE DEF compiledAs, more
    <3> QED BY <1>1, <3>1, <3>2, <3>3 DEF ImagesType
  <2> QED BY <1>2, <2>1 DEF Compile, TypeInv
<1>3. \A s : NumberOf(s) \in Nat
  BY NumberOfTyped
<1>4. CASE FrameCompiled
  <2>1. FrameStage!Compiled(context.frame, images.compiled.frame = "yes", NumberOf("frame"))
            \in FrameContext(BOOLEAN, TRUE)
    BY <1>1, <1>3, FrameStepsTyped
  <2> QED BY <1>4, <2>1, ContinueTyped DEF FrameCompiled
<1>5. CASE InterframeCompiled
  <2>1. InterStage!Compiled(context.interframe, images.compiled.interframe = "yes",
                            NumberOf("interframe")) \in InterContext(BOOLEAN, TRUE)
    BY <1>1, <1>3, InterCompiledTyped
  <2> QED BY <1>5, <2>1, ContinueTyped DEF InterframeCompiled
<1>6. ASSUME NEW job \in images.evaluating, EvaluationDone(job)
      PROVE  TypeInv'
  <2>1. images' \in ImagesType
    BY <1>1, <1>6 DEF EvaluationDone, ImagesType
  <2>2. queue' \in Queues(AllCalls)
    BY <1>1, <1>6, EvaluationPosts, PostedTyped
  <2> QED BY <1>6, <2>1, <2>2 DEF EvaluationDone, TypeInv
<1> QED BY <1>2, <1>4, <1>5, <1>6 DEF ImageProcessor

(* The invariant holds before the launch.                                  *)
LEMMA TypeInit ==
    ASSUME Init
    PROVE  TypeInv
<1>1. EmptyHandler \in Handler
  BY FS_EmptySet DEF EmptyHandler, Handler
<1>2. /\ Source!NoEffects = NoEffects /\ Source!EmptyHandler = EmptyHandler
      /\ FrameStage!NoEffects = NoEffects /\ FrameStage!EmptyHandler = EmptyHandler
      /\ InterStage!NoEffects = NoEffects /\ InterStage!EmptyHandler = EmptyHandler
      /\ Sink!NoEffects = NoEffects /\ Sink!EmptyHandler = EmptyHandler
  BY DEF Source!NoEffects, NoEffects, Source!EmptyHandler, EmptyHandler, Source!Thread, Thread,
         FrameStage!NoEffects, FrameStage!EmptyHandler, FrameStage!Thread,
         InterStage!NoEffects, InterStage!EmptyHandler, InterStage!Thread,
         Sink!NoEffects, Sink!EmptyHandler, Sink!Thread
<1>3. video \in Videos /\ video.packets \in Nat
  BY FileToFileAssumption DEF Init
<1>4. 0 \in Demand(TRUE, MaxOut) /\ 0 \in Demand(TRUE, MaxWrite)
  BY FileToFileAssumption DEF Demand
<1>5. Source!NoContext \in Idle(SourceContext(video, BOOLEAN, TRUE))
  <2>1. NoEffects \in Effect(SourceCalls(TRUE), {})
    BY QuietTyped, CallsTyped
  <2>2. 0 \in 0 .. video.packets
    BY <1>3
  <2>3. Source!NoContext \in SourceContext(video, BOOLEAN, TRUE)
    BY <1>1, <1>2, <1>4, <2>1, <2>2 DEF Source!NoContext, SourceContext
  <2> QED BY <1>2, <2>3 DEF Source!NoContext, Idle
<1>6. FrameStage!NoContext \in Idle(FrameContext(BOOLEAN, TRUE))
  <2>1. NoEffects \in Effect(FrameCalls(TRUE), Jobs("frame"))
    BY QuietTyped, CallsTyped
  <2> QED BY <1>1, <1>2, <1>4, <2>1 DEF FrameStage!NoContext, FrameContext, Idle, Scripting
<1>7. {} \in Frames
  BY FS_EmptySet DEF Frames
<1>8. InterStage!NoContext \in Idle(InterContext(BOOLEAN, TRUE))
  <2>1. NoEffects \in Effect(InterCalls(TRUE), Jobs("interframe"))
    BY QuietTyped, CallsTyped
  <2> QED BY <1>1, <1>2, <1>4, <1>7, <2>1 DEF InterStage!NoContext, InterContext, Idle, Scripting
<1>9. Sink!NoContext \in Idle(SinkContext(BOOLEAN))
  <2>1. NoEffects \in Effect(SinkCalls, {})
    BY QuietTyped, CallsTyped
  <2>2. <<>> \in Seq(Seq(Nat))
    OBVIOUS
  <2> QED BY <1>1, <1>2, <1>7, <2>1, <2>2 DEF Sink!NoContext, SinkContext, Idle
<1>10. context \in Contexts(video)
  BY <1>5, <1>6, <1>8, <1>9 DEF Init, Contexts
<1>11. queue \in Queues(AllCalls)
  <2>1. NoEffects \in Effect(AllCalls, {})
    BY QuietTyped
  <2>2. NoEffects.calls = queue
    BY DEF NoEffects, Init
  <2> QED BY <2>1, <2>2 DEF Effect
<1>12. images \in ImagesType
  <2>1. <<>> \in Seq({"frame", "interframe"}) /\ <<"frame", "interframe">> \in Seq({"frame", "interframe"})
    OBVIOUS
  <2> QED BY <2>1 DEF Init, ImagesType
<1>13. encoder \in Encoder
  <2>1. <<>> \in Seq(Seq(Nat))
    OBVIOUS
  <2> QED BY <2>1 DEF Init, Sink!NewEncoder, Encoder
<1>14. reports \in Seq(Results) /\ pipeline \in [launched : 0 .. 4, initialized : Nat]
  BY DEF Init
<1> QED BY <1>3, <1>10, <1>11, <1>12, <1>13, <1>14 DEF TypeInv

(* Every step keeps it.                                                    *)
LEMMA TypeStep ==
    ASSUME TypeInv, [Next]_vars
    PROVE  TypeInv'
<1>1. CASE UNCHANGED vars
  BY <1>1 DEF vars, TypeInv
<1>2. CASE PipelineThread
  BY <1>2, PipelineThreadTyped
<1>3. CASE SourceThread
  BY <1>3, SourceThreadTyped
<1>4. CASE ProcessorsThread
  BY <1>4, FrameStageTyped, InterStageTyped DEF ProcessorsThread
<1>5. CASE SinkThread
  BY <1>5, SinkThreadTyped
<1>6. CASE WriterThread
  BY <1>6, WriterThreadTyped
<1>7. CASE ImageProcessor
  BY <1>7, ImageProcessorTyped
<1>8. CASE Terminated
  BY <1>1, <1>8 DEF Terminated
<1> QED BY <1>1, <1>2, <1>3, <1>4, <1>5, <1>6, <1>7, <1>8 DEF Next

(* It implies what the runs check.                                         *)
LEMMA TypeInvIsTypeOK ==
    ASSUME TypeInv
    PROVE  TypeOK
<1>1. /\ video \in Videos
      /\ context.source \in SourceContext(video, BOOLEAN, TRUE) /\ context.frame \in FrameContext(BOOLEAN, TRUE)
      /\ context.interframe \in InterContext(BOOLEAN, TRUE) /\ context.sink \in SinkContext(BOOLEAN)
  BY ContextsTyped
<1>2. DOMAIN context = Stage
  BY DEF TypeInv, Contexts, Stage
<1>3. /\ context.source.exists \in BOOLEAN /\ context.source.sdh \in Handler
      /\ context.frame.exists \in BOOLEAN /\ context.frame.sdh \in Handler
      /\ context.interframe.exists \in BOOLEAN /\ context.interframe.sdh \in Handler
      /\ context.sink.exists \in BOOLEAN /\ context.sink.sdh \in Handler
  BY <1>1 DEF SourceContext, FrameContext, InterContext, SinkContext
<1>4. ASSUME NEW s \in Stage
      PROVE  /\ context[s].exists \in BOOLEAN
             /\ context[s].sdh.in \subseteq FrameType
             /\ context[s].sdh.out \in Seq(FrameType)
             /\ context[s].sdh.next \in Nat
  <2>1. context[s].exists \in BOOLEAN /\ context[s].sdh \in Handler
    BY <1>3 DEF Stage
  <2> QED BY <2>1 DEF Handler
<1>5. /\ {context.source.waiting, context.frame.waiting} \subseteq 0 .. MaxOut
      /\ context.interframe.waiting \in 0 .. MaxWrite
      /\ context.source.loaded \in 0 .. video.packets
      /\ context.interframe.buffer \subseteq FrameType
      /\ context.sink.buffer \subseteq FrameType
      /\ context.sink.written \in Seq(Seq(Nat))
  BY <1>1 DEF SourceContext, FrameContext, InterContext, SinkContext, Frames, Demand
<1>6. queue \in [Thread -> Seq(CallType)]
  BY DEF TypeInv, Queues
<1>7. images.evaluating \subseteq JobType
  BY DEF TypeInv, ImagesType, Jobs
<1>8. reports \in Seq({"finished", "failed", "crashed"})
  BY DEF TypeInv, Results
<1> QED BY <1>1, <1>2, <1>4, <1>5, <1>6, <1>7, <1>8 DEF TypeOK

(* The state of every part has its type, whatever fails and in whatever    *)
(* order the threads run; and no stage may send more than the buffer of    *)
(* the stage behind it, which asked for it, can hold.                      *)
THEOREM TypeCorrect == Spec => []TypeOK
<1>1. Init => TypeInv
  BY TypeInit
<1>2. TypeInv /\ [Next]_vars => TypeInv'
  BY TypeStep
<1>3. TypeInv => TypeOK
  BY TypeInvIsTypeOK
<1> QED BY <1>1, <1>2, <1>3, PTL DEF Spec

-----------------------------------------------------------------------------
(***************************************************************************)
(* Nobody calls a stage too early. The invariant StartInv says in which    *)
(* order the calls stand in the queues (Ordered), that the stages whose    *)
(* init was posted are those that the pipeline has launched, in its order, *)
(* and who may call whom: a stage is asked for frames, has a demand to     *)
(* fulfil or gets results only when the one that asks is there. The last   *)
(* is what makes it inductive: a stage calls the one behind it only to     *)
(* fulfil its demand, and the one before it was launched earlier.          *)
(***************************************************************************)
There == {s \in Stage : context[s].exists}

(* The calls that may find no context. *)
Early == {"init", "params"}

HasInit(q, s) == \E i \in DOMAIN q : q[i].callee = s /\ q[i].op = "init"

InOrder(q, s) ==
    \A i \in DOMAIN q :
        q[i].callee = s /\ q[i].op \notin Early =>
            \E j \in 1 .. i - 1 : q[j].callee = s /\ q[j].op = "init"

Ordered(E, q) == \A s \in Stage : s \in E \/ InOrder(q[ThreadOf(s)], s)

Known(E, q) == {s \in Stage : s \in E \/ HasInit(q[ThreadOf(s)], s)}

Launched(n) == {StageOrder[k] : k \in 1 .. n}

(* The calls that those make whose stages are there. *)
Justified(E) ==
    {m \in AllCalls :
        /\ m.callee = "source" /\ m.op = "next" => "frame" \in E
        /\ m.callee = "frame" /\ m.op = "next" => "interframe" \in E
        /\ m.callee = "interframe" /\ m.op = "next" => "sink" \in E
        /\ m.callee = "writer" => "sink" \in E}

QueuesInv(E, q, n) ==
    /\ q \in Queues(Justified(E))
    /\ Ordered(E, q)
    /\ Known(E, q) = Launched(n)

StartInv ==
    /\ QueuesInv(There, queue, pipeline.launched)
    /\ \A job \in images.evaluating : job.stage \in There
    /\ context.source.waiting # 0 => "frame" \in There
    /\ context.frame.waiting # 0 => "interframe" \in There
    /\ context.interframe.waiting # 0 => "sink" \in There

(* The stages that are launched, and those before a launched one.          *)
LEMMA LaunchedIs ==
    ASSUME NEW n \in 0 .. 4
    PROVE  /\ Launched(n) \in SUBSET Stage
           /\ "sink" \in Launched(n) => "interframe" \in Launched(n)
           /\ "interframe" \in Launched(n) => "frame" \in Launched(n)
           /\ "frame" \in Launched(n) => "source" \in Launched(n)
           /\ n = 4 => Launched(n) = Stage
           /\ n < 4 => Launched(n + 1) = Launched(n) \union {StageOrder[n + 1]}
                       /\ StageOrder[n + 1] \in Stage
<1> QED BY DEF Launched, StageOrder, Stage

(* More calls at the end of a queue.                                       *)
LEMMA ConcatOrder ==
    ASSUME NEW a \in Seq(CallType), NEW b \in Seq(CallType), NEW s
    PROVE  /\ HasInit(a \o b, s) <=> HasInit(a, s) \/ HasInit(b, s)
           /\ InOrder(a, s) /\ (HasInit(a, s) \/ \A i \in DOMAIN b : b[i].callee = s => b[i].op \in Early)
                  => InOrder(a \o b, s)
<1> DEFINE q == a \o b
           m == Len(a)
<1>1. /\ m \in Nat /\ Len(b) \in Nat /\ DOMAIN a = 1 .. m /\ DOMAIN b = 1 .. Len(b)
      /\ DOMAIN q = 1 .. m + Len(b)
      /\ \A i \in 1 .. m : q[i] = a[i]
      /\ \A i \in 1 .. Len(b) : q[m + i] = b[i]
  OBVIOUS
<1> HIDE DEF q, m
<1>2. \A i \in DOMAIN q : i \in 1 .. m \/ (i - m \in 1 .. Len(b) /\ q[i] = b[i - m])
  BY <1>1
<1>3. HasInit(q, s) <=> HasInit(a, s) \/ HasInit(b, s)
  <2>1. HasInit(a, s) => HasInit(q, s)
    BY <1>1 DEF HasInit
  <2>2. HasInit(b, s) => HasInit(q, s)
    <3> SUFFICES ASSUME NEW i \in DOMAIN b, b[i].callee = s, b[i].op = "init" PROVE HasInit(q, s)
      BY DEF HasInit
    <3>1. m + i \in DOMAIN q /\ q[m + i] = b[i]
      BY <1>1
    <3> QED BY <3>1 DEF HasInit
  <2>3. HasInit(q, s) => HasInit(a, s) \/ HasInit(b, s)
    BY <1>1, <1>2 DEF HasInit
  <2> QED BY <2>1, <2>2, <2>3
<1>4. ASSUME InOrder(a, s),
             HasInit(a, s) \/ \A i \in DOMAIN b : b[i].callee = s => b[i].op \in Early
      PROVE  InOrder(q, s)
  <2> SUFFICES ASSUME NEW i \in DOMAIN q, q[i].callee = s, q[i].op \notin Early
               PROVE  \E j \in 1 .. i - 1 : q[j].callee = s /\ q[j].op = "init"
    BY DEF InOrder
  <2>1. CASE i \in 1 .. m
    <3>1. i \in DOMAIN a /\ a[i] = q[i]
      BY <1>1, <2>1
    <3>2. PICK j \in 1 .. i - 1 : a[j].callee = s /\ a[j].op = "init"
      BY <1>4, <3>1 DEF InOrder
    <3>3. j \in 1 .. m
      BY <1>1, <2>1, <3>2
    <3> QED BY <1>1, <3>2, <3>3
  <2>2. CASE i - m \in 1 .. Len(b) /\ q[i] = b[i - m]
    <3>1. HasInit(a, s)
      BY <1>1, <1>4, <2>2
    <3>2. PICK j \in 1 .. m : a[j].callee = s /\ a[j].op = "init"
      BY <1>1, <3>1 DEF HasInit
    <3>3. j \in 1 .. i - 1 /\ q[j] = a[j]
      BY <1>1, <2>2, <3>2
    <3> QED BY <3>2, <3>3
  <2> QED BY <1>2, <2>1, <2>2
<1> QED BY <1>3, <1>4 DEF q

(* The first call leaves a queue.                                          *)
LEMMA TailOrder ==
    ASSUME NEW q \in Seq(CallType), q # <<>>, NEW s,
           ~(Head(q).callee = s /\ Head(q).op = "init")
    PROVE  /\ InOrder(q, s) => InOrder(Tail(q), s)
           /\ HasInit(Tail(q), s) <=> HasInit(q, s)
<1> DEFINE r == Tail(q)
           n == Len(q)
<1>1. /\ n \in Nat \ {0} /\ DOMAIN q = 1 .. n /\ DOMAIN r = 1 .. n - 1 /\ Head(q) = q[1]
      /\ \A i \in 1 .. n - 1 : r[i] = q[i + 1]
  OBVIOUS
<1> HIDE DEF r, n
<1>2. HasInit(r, s) <=> HasInit(q, s)
  <2>1. ASSUME HasInit(r, s) PROVE HasInit(q, s)
    <3>1. PICK i \in 1 .. n - 1 : r[i].callee = s /\ r[i].op = "init"
      BY <1>1, <2>1 DEF HasInit
    <3>2. i + 1 \in DOMAIN q /\ q[i + 1] = r[i]
      BY <1>1
    <3> QED BY <3>1, <3>2 DEF HasInit
  <2>2. ASSUME HasInit(q, s) PROVE HasInit(r, s)
    <3>1. PICK i \in 1 .. n : q[i].callee = s /\ q[i].op = "init"
      BY <1>1, <2>2 DEF HasInit
    <3>2. i # 1
      BY <1>1, <3>1
    <3>3. i - 1 \in DOMAIN r /\ r[i - 1] = q[i]
      BY <1>1, <3>2
    <3> QED BY <3>1, <3>3 DEF HasInit
  <2> QED BY <2>1, <2>2
<1>3. ASSUME InOrder(q, s) PROVE InOrder(r, s)
  <2> SUFFICES ASSUME NEW i \in DOMAIN r, r[i].callee = s, r[i].op \notin Early
               PROVE  \E j \in 1 .. i - 1 : r[j].callee = s /\ r[j].op = "init"
    BY DEF InOrder
  <2>1. i + 1 \in DOMAIN q /\ q[i + 1] = r[i] /\ i \in 1 .. n - 1
    BY <1>1
  <2>2. PICK j \in 1 .. (i + 1) - 1 : q[j].callee = s /\ q[j].op = "init"
    BY <1>3, <2>1 DEF InOrder
  <2>3. j # 1
    BY <1>1, <2>2
  <2>4. j - 1 \in 1 .. i - 1 /\ r[j - 1] = q[j]
    BY <1>1, <2>1, <2>2, <2>3
  <2> QED BY <2>2, <2>4
<1> QED BY <1>2, <1>3 DEF r

(* Calls that wait for nobody, or for one that is launched.                *)
Safe(n) == {m \in AllCalls : m.op # "init" /\ (m.callee \in Stage /\ m.op \notin Early => m.callee \in Launched(n))}

(* Posting them keeps the order.                                           *)
LEMMA PostKeepsOrder ==
    ASSUME NEW n \in 0 .. 4, NEW E \in SUBSET Stage, NEW q, QueuesInv(E, q, n),
           NEW M \in SUBSET (Justified(E) \intersect Safe(n)), NEW calls \in Queues(M)
    PROVE  QueuesInv(E, Post(q, calls), n)
<1>1. Justified(E) \in SUBSET AllCalls /\ M \in SUBSET Justified(E) /\ M \in SUBSET Safe(n)
  BY DEF Justified
<1>2. Post(q, calls) \in Queues(Justified(E))
  BY <1>1, PostTyped DEF QueuesInv
<1>3. ASSUME NEW s \in Stage
      PROVE  /\ s \in E \/ InOrder(Post(q, calls)[ThreadOf(s)], s)
             /\ s \in Known(E, Post(q, calls)) <=> s \in Known(E, q)
  <2> DEFINE t == ThreadOf(s)
             a == q[t]
             b == calls[t]
  <2>1. t \in Thread
    BY DEF Stage, ThreadOf, Thread
  <2>2. Post(q, calls)[t] = a \o b
    BY <2>1 DEF Post
  <2>3. a \in Seq(CallType) /\ b \in Seq(CallType) /\ b \in Seq(On(t, M))
    BY <2>1 DEF QueuesInv, Queues
  <2> HIDE DEF t, a, b
  <2>4. \A i \in DOMAIN b : b[i] \in M
    BY <2>3 DEF On
  <2>5. ~HasInit(b, s)
    BY <1>1, <2>4 DEF HasInit, Safe
  <2>6. s \in E \/ InOrder(a, s)
    BY DEF QueuesInv, Ordered, a, t
  <2>7. s \in Known(E, q) <=> s \in E \/ HasInit(a, s)
    BY DEF Known, a, t
  <2>8. s \in E \/ HasInit(a, s) \/ \A i \in DOMAIN b : b[i].callee = s => b[i].op \in Early
    <3>1. s \in Known(E, q) <=> s \in Launched(n)
      BY DEF QueuesInv
    <3> QED BY <1>1, <2>4, <2>7, <3>1 DEF Safe
  <2>9. s \in E \/ InOrder(a \o b, s)
    BY <2>3, <2>6, <2>8, ConcatOrder
  <2>10. HasInit(a \o b, s) <=> HasInit(a, s)
    BY <2>3, <2>5, ConcatOrder
  <2>11. s \in Known(E, Post(q, calls)) <=> s \in E \/ HasInit(a \o b, s)
    BY <2>2 DEF Known, t
  <2> QED BY <2>2, <2>7, <2>9, <2>10, <2>11 DEF t
<1>4. Ordered(E, Post(q, calls))
  BY <1>3 DEF Ordered
<1>5. Known(E, Post(q, calls)) = Known(E, q)
  BY <1>3 DEF Known
<1> QED BY <1>2, <1>4, <1>5 DEF QueuesInv

(* One call.                                                               *)
LEMMA PostedKeepsOrder ==
    ASSUME NEW n \in 0 .. 4, NEW E \in SUBSET Stage, NEW q, QueuesInv(E, q, n),
           NEW m \in Justified(E), m \in Safe(n)
    PROVE  QueuesInv(E, Posted(q, m), n)
<1> DEFINE M == {m}
           calls == [t \in Thread |-> IF t = ThreadOf(m.callee) THEN <<m>> ELSE <<>>]
<1>1. m \in AllCalls /\ m \in CallType /\ q \in [Thread -> Seq(CallType)]
  BY CallsTyped DEF Justified, QueuesInv, Queues
<1>2. calls \in Queues(M)
  <2>1. \A t \in Thread : calls[t] \in Seq(CallType)
    BY <1>1
  <2>2. ASSUME NEW t \in Thread PROVE calls[t] \in Seq(On(t, M))
    <3>1. CASE t = ThreadOf(m.callee)
      <4>1. m \in On(t, M)
        BY <3>1 DEF On
      <4> QED BY <3>1, <4>1
    <3>2. CASE t # ThreadOf(m.callee)
      BY <3>2
    <3> QED BY <3>1, <3>2
  <2>3. calls \in [Thread -> Seq(CallType)]
    BY <2>1
  <2> HIDE DEF calls
  <2> QED BY <2>2, <2>3 DEF Queues
<1>3. Post(q, calls) = Posted(q, m)
  <2>1. ASSUME NEW t \in Thread PROVE q[t] \o calls[t] = Posted(q, m)[t]
    <3>1. q[t] \in Seq(CallType)
      BY <1>1
    <3>2. CASE t = ThreadOf(m.callee)
      <4>1. Posted(q, m)[t] = Append(q[t], m) /\ calls[t] = <<m>>
        BY <1>1, <3>2 DEF Posted
      <4> QED BY <1>1, <3>1, <4>1
    <3>3. CASE t # ThreadOf(m.callee)
      <4>1. Posted(q, m)[t] = q[t] /\ calls[t] = <<>>
        BY <1>1, <3>3 DEF Posted
      <4>2. q[t] \o <<>> = q[t]
        BY <3>1
      <4> QED BY <4>1, <4>2
    <3> QED BY <3>2, <3>3
  <2>2. Posted(q, m) = [t \in Thread |-> Posted(q, m)[t]]
    BY <1>1 DEF Posted
  <2> HIDE DEF calls
  <2> QED BY <2>1, <2>2 DEF Post
<1> HIDE DEF calls
<1> QED BY <1>2, <1>3, PostKeepsOrder

(* The init of the next stage.                                             *)
LEMMA LaunchKeepsOrder ==
    ASSUME NEW n \in 0 .. 3, NEW E \in SUBSET Stage, NEW q, QueuesInv(E, q, n)
    PROVE  QueuesInv(E, Posted(q, Call(StageOrder[n + 1], "init")), n + 1)
<1> DEFINE r == StageOrder[n + 1]
           m == Call(r, "init")
           p == Posted(q, m)
<1>1. r \in Stage /\ Launched(n + 1) = Launched(n) \union {r}
  BY LaunchedIs
<1>2. m \in AllCalls /\ m \in CallType /\ m.callee = r /\ m.op = "init" /\ m \in Justified(E)
  <2>1. Is(m, r, "init")
    BY <1>1, CallsMade
  <2>2. m \in AllCalls /\ m.callee = r /\ m.op = "init"
    BY <2>1 DEF Is
  <2> HIDE DEF m
  <2> QED BY <1>1, <2>2, CallsTyped DEF Justified, Stage
<1> HIDE DEF r, m
<1>3. p \in Queues(Justified(E))
  <2>1. Justified(E) \in SUBSET AllCalls
    BY DEF Justified
  <2> QED BY <1>2, <2>1, PostedTyped DEF QueuesInv
<1>4. ASSUME NEW s \in Stage
      PROVE  /\ s \in E \/ InOrder(p[ThreadOf(s)], s)
             /\ s \in Known(E, p) <=> s \in Known(E, q) \/ s = r
  <2> DEFINE t == ThreadOf(s)
             a == q[t]
  <2>1. t \in Thread /\ ThreadOf(r) \in Thread
    BY <1>1 DEF Stage, ThreadOf, Thread
  <2>2. q \in [Thread -> Seq(CallType)] /\ a \in Seq(CallType)
    BY <2>1 DEF QueuesInv, Queues
  <2>3. p[t] = IF t = ThreadOf(r) THEN Append(a, m) ELSE a
    BY <1>2, <2>1, <2>2 DEF Posted
  <2> DEFINE b == IF t = ThreadOf(r) THEN <<m>> ELSE <<>>
  <2> HIDE DEF a
  <2>4. p[t] = a \o b
    BY <1>2, <2>2, <2>3
  <2>5. b \in Seq(CallType)
    BY <1>2
  <2>6. \A i \in DOMAIN b : b[i].op = "init" /\ b[i].callee = r
    BY <1>2
  <2>7. t = ThreadOf(r) => HasInit(b, r)
    BY <1>2 DEF HasInit
  <2> HIDE DEF b
  <2>8. HasInit(b, s) <=> s = r
    BY <2>6, <2>7 DEF HasInit
  <2>9. s \in E \/ InOrder(a, s)
    BY DEF QueuesInv, Ordered, a
  <2>10. s \in E \/ InOrder(a \o b, s)
    BY <2>2, <2>5, <2>6, <2>9, ConcatOrder DEF Early
  <2>11. HasInit(a \o b, s) <=> HasInit(a, s) \/ HasInit(b, s)
    BY <2>2, <2>5, ConcatOrder
  <2>12. s \in Known(E, q) <=> s \in E \/ HasInit(a, s)
    BY DEF Known, a
  <2>13. s \in Known(E, p) <=> s \in E \/ HasInit(p[t], s)
    BY DEF Known
  <2> QED BY <2>4, <2>8, <2>10, <2>11, <2>12, <2>13
<1> HIDE DEF p
<1>5. Ordered(E, p)
  BY <1>4 DEF Ordered
<1>6. Known(E, p) = Known(E, q) \union {r}
  BY <1>1, <1>4 DEF Known
<1>7. QueuesInv(E, p, n + 1)
  BY <1>1, <1>3, <1>5, <1>6 DEF QueuesInv
<1> QED BY <1>7 DEF p, m, r

(* A job leaves the queue; when it was the init of a stage, its context is *)
(* there now.                                                              *)
LEMMA DequeueKeepsOrder ==
    ASSUME NEW n \in 0 .. 4, QueuesInv(There, queue, n), NEW s \in Callee, NEW op, Calls(s, op),
           NEW E, \/ op # "init" /\ E = There
                  \/ op = "init" /\ s \in Stage /\ E = There \union {s}
    PROVE  QueuesInv(E, Dequeued(s), n)
<1>1. /\ There \in SUBSET Stage /\ E \in SUBSET Stage /\ There \subseteq E
      /\ Justified(There) \in SUBSET AllCalls /\ Justified(There) \subseteq Justified(E)
  BY DEF There, Justified
<1>2. queue \in Queues(Justified(There))
  BY DEF QueuesInv
<1>3. Dequeued(s) \in Queues(Justified(E))
  <2>1. Dequeued(s) \in Queues(Justified(There))
    BY <1>1, <1>2, JobTyped
  <2>2. ASSUME NEW t \in Thread PROVE Dequeued(s)[t] \in Seq(On(t, Justified(E)))
    <3>1. On(t, Justified(There)) \subseteq On(t, Justified(E))
      BY <1>1 DEF On
    <3>2. Dequeued(s)[t] \in Seq(On(t, Justified(There)))
      BY <2>1 DEF Queues
    <3> QED BY <3>1, <3>2
  <2> QED BY <2>1, <2>2 DEF Queues
<1>4. ASSUME NEW r \in Stage
      PROVE  /\ r \in E \/ InOrder(Dequeued(s)[ThreadOf(r)], r)
             /\ r \in Known(E, Dequeued(s)) <=> r \in Known(There, queue)
  <2> DEFINE t == ThreadOf(r)
             u == ThreadOf(s)
             a == queue[t]
             b == Dequeued(s)[t]
  <2>1. t \in Thread /\ u \in Thread
    BY DEF Callee, Stage, ThreadOf, Thread
  <2>2. /\ queue \in [Thread -> Seq(CallType)] /\ a \in Seq(CallType)
    BY <1>2, <2>1 DEF Queues
  <2>3. /\ queue[u] # <<>> /\ Head(queue[u]).callee = s /\ Head(queue[u]).op = op
    BY DEF Calls
  <2>4. b = IF t = u THEN Tail(a) ELSE a
    BY <2>1, <2>2 DEF Dequeued
  <2>5. r \in There \/ InOrder(a, r)
    BY DEF QueuesInv, Ordered
  <2>6. r \in Known(There, queue) <=> r \in There \/ HasInit(a, r)
    BY DEF Known
  <2>7. r \in Known(E, Dequeued(s)) <=> r \in E \/ HasInit(b, r)
    BY DEF Known
  <2>8. CASE op = "init" /\ r = s
    <3>1. a # <<>> /\ Head(a).callee = r /\ Head(a).op = "init"
      BY <2>3, <2>8
    <3> HIDE DEF a
    <3>2. a[1].callee = r /\ a[1].op = "init" /\ 1 \in DOMAIN a
      BY <2>2, <3>1
    <3>3. HasInit(a, r)
      BY <3>2 DEF HasInit
    <3>4. r \in E
      BY <2>8
    <3> QED BY <2>6, <2>7, <3>3, <3>4
  <2>9. CASE ~(op = "init" /\ r = s)
    <3>1. r \in E <=> r \in There
      BY <2>9
    <3>2. t = u => a # <<>> /\ ~(Head(a).callee = r /\ Head(a).op = "init")
      BY <2>3, <2>9
    <3> HIDE DEF t, u, a, b
    <3>3. /\ InOrder(a, r) => InOrder(b, r)
          /\ HasInit(b, r) <=> HasInit(a, r)
      BY <2>2, <2>4, <3>2, TailOrder
    <3>4. r \in E \/ InOrder(b, r)
      BY <2>5, <3>1, <3>3
    <3>5. r \in Known(E, Dequeued(s)) <=> r \in Known(There, queue)
      BY <2>6, <2>7, <3>1, <3>3
    <3> QED BY <3>4, <3>5 DEF b, t
  <2> QED BY <2>8, <2>9
<1>5. Ordered(E, Dequeued(s))
  BY <1>4 DEF Ordered
<1>6. Known(E, Dequeued(s)) = Known(There, queue)
  BY <1>4 DEF Known
<1> QED BY <1>3, <1>5, <1>6 DEF QueuesInv

(* A stage that is called is there, unless the call is init or params.     *)
LEMMA CalledIsThere ==
    ASSUME QueuesInv(There, queue, pipeline.launched), NEW s \in Callee, NEW op, Calls(s, op)
    PROVE  /\ s \in Stage /\ op \notin Early => s \in There
           /\ s \in Stage => s \in Known(There, queue)  \/ op = "params"
           /\ Job(s) \in Justified(There)
<1>1. Justified(There) \in SUBSET AllCalls /\ queue \in Queues(Justified(There))
  BY DEF Justified, QueuesInv
<1>2. Job(s) \in Justified(There)
  BY <1>1, JobTyped
<1> DEFINE t == ThreadOf(s)
           a == queue[t]
<1>3. t \in Thread
  BY DEF Callee, Stage, ThreadOf, Thread
<1>4. a \in Seq(CallType) /\ a # <<>> /\ Head(a).callee = s /\ Head(a).op = op
  BY <1>1, <1>3 DEF Queues, Calls
<1>5. s \in Stage => s \in There \/ InOrder(a, s)
  BY DEF QueuesInv, Ordered
<1> HIDE DEF a
<1>6. 1 \in DOMAIN a /\ a[1].callee = s /\ a[1].op = op
  BY <1>4
<1>7. s \in Stage /\ op \notin Early => s \in There
  BY <1>5, <1>6 DEF InOrder
<1>8. s \in Stage /\ op = "init" => s \in Known(There, queue)
  BY <1>6 DEF Known, HasInit, a
<1> QED BY <1>2, <1>7, <1>8 DEF Known, Early

(* What a stage may be when it is there: it has a demand only if the stage *)
(* behind it is there.                                                     *)
AtHome(s, c) ==
    \/ s = "source" /\ c \in SourceContext(video, {TRUE}, context.frame.exists)
    \/ s = "frame" /\ c \in FrameContext({TRUE}, context.interframe.exists)
    \/ s = "interframe" /\ c \in InterContext({TRUE}, context.sink.exists)
    \/ s = "sink" /\ c \in SinkContext({TRUE})

(* The contexts, as far as it matters who is there.                        *)
LEMMA ThereIs ==
    ASSUME TypeInv
    PROVE  /\ {context.source.exists, context.frame.exists,
               context.interframe.exists, context.sink.exists} \subseteq BOOLEAN
           /\ There \in SUBSET Stage
           /\ "source" \in There <=> context.source.exists
           /\ "frame" \in There <=> context.frame.exists
           /\ "interframe" \in There <=> context.interframe.exists
           /\ "sink" \in There <=> context.sink.exists
<1>1. /\ context.source \in SourceContext(video, BOOLEAN, TRUE)
      /\ context.frame \in FrameContext(BOOLEAN, TRUE)
      /\ context.interframe \in InterContext(BOOLEAN, TRUE)
      /\ context.sink \in SinkContext(BOOLEAN)
  BY ContextsTyped
<1>2. {context.source.exists, context.frame.exists,
       context.interframe.exists, context.sink.exists} \subseteq BOOLEAN
  BY <1>1 DEF SourceContext, FrameContext, InterContext, SinkContext
<1> QED BY <1>2 DEF There, Stage

(* The context of a stage that is there, or is just made.                  *)
LEMMA HomeTyped ==
    ASSUME TypeInv, StartInv
    PROVE  /\ AtHome("source", [context.source EXCEPT !.exists = TRUE])
           /\ AtHome("frame", [context.frame EXCEPT !.exists = TRUE])
           /\ AtHome("interframe", [context.interframe EXCEPT !.exists = TRUE])
           /\ AtHome("sink", [context.sink EXCEPT !.exists = TRUE])
<1>1. /\ context.source \in SourceContext(video, BOOLEAN, TRUE) /\ context.source.eff = NoEffects
      /\ context.frame \in FrameContext(BOOLEAN, TRUE) /\ context.frame.eff = NoEffects
      /\ context.interframe \in InterContext(BOOLEAN, TRUE) /\ context.interframe.eff = NoEffects
      /\ context.sink \in SinkContext(BOOLEAN) /\ context.sink.eff = NoEffects
  BY ContextsTyped
<1>2. \A Ready : /\ NoEffects \in Effect(SourceCalls(Ready), {})
                 /\ NoEffects \in Effect(FrameCalls(Ready), Jobs("frame"))
                 /\ NoEffects \in Effect(InterCalls(Ready), Jobs("interframe"))
  BY QuietTyped, CallsTyped
<1>3. /\ context.source.waiting \in Demand(context.frame.exists, MaxOut)
      /\ context.frame.waiting \in Demand(context.interframe.exists, MaxOut)
      /\ context.interframe.waiting \in Demand(context.sink.exists, MaxWrite)
  <2>1. /\ context.source.waiting \in 0 .. MaxOut
        /\ context.frame.waiting \in 0 .. MaxOut
        /\ context.interframe.waiting \in 0 .. MaxWrite
    BY <1>1 DEF SourceContext, FrameContext, InterContext, Demand
  <2>2. /\ context.source.waiting # 0 => context.frame.exists
        /\ context.frame.waiting # 0 => context.interframe.exists
        /\ context.interframe.waiting # 0 => context.sink.exists
    BY ThereIs DEF StartInv
  <2> QED BY <2>1, <2>2 DEF Demand
<1>4. [context.source EXCEPT !.exists = TRUE]
          \in SourceContext(video, {TRUE}, context.frame.exists)
  BY <1>1, <1>2, <1>3 DEF SourceContext
<1>5. [context.frame EXCEPT !.exists = TRUE]
          \in FrameContext({TRUE}, context.interframe.exists)
  BY <1>1, <1>2, <1>3 DEF FrameContext
<1>6. [context.interframe EXCEPT !.exists = TRUE]
          \in InterContext({TRUE}, context.sink.exists)
  BY <1>1, <1>2, <1>3 DEF InterContext
<1>7. [context.sink EXCEPT !.exists = TRUE] \in SinkContext({TRUE})
  BY <1>1 DEF SinkContext
<1> QED BY <1>4, <1>5, <1>6, <1>7 DEF AtHome

(* The calls that a stage makes when it is there find whom they call.      *)
LEMMA CallsAtHome ==
    ASSUME TypeInv, StartInv, NEW s \in Stage, NEW c, AtHome(s, c), s \in Known(There, queue)
    PROVE  /\ c.exists
           /\ \A j \in c.eff.jobs : j.stage = s
           /\ \E M \in SUBSET (Justified(There \union {s}) \intersect Safe(pipeline.launched)) :
                 c.eff.calls \in Queues(M)
<1> DEFINE n == pipeline.launched
           S == Justified(There \union {s}) \intersect Safe(n)
<1>1. n \in 0 .. 4 /\ Known(There, queue) = Launched(n)
  BY DEF TypeInv, StartInv, QueuesInv
<1>2. There \subseteq Launched(n) /\ s \in Launched(n)
  BY <1>1 DEF Known, There
<1>3. /\ "sink" \in Launched(n) => "interframe" \in Launched(n)
      /\ "interframe" \in Launched(n) => "frame" \in Launched(n)
      /\ "frame" \in Launched(n) => "source" \in Launched(n)
  BY <1>1, LaunchedIs
<1>4. \A m \in AllCalls : /\ m.callee = "pipeline" => m.op = "initialized"
                          /\ m.callee = "writer" => m.op \in {"frames", "last"}
  BY DEF AllCalls, Made, Stage
<1> HIDE DEF n
<1>5. CASE s = "source" /\ c \in SourceContext(video, {TRUE}, context.frame.exists)
  <2>1. SourceCalls(context.frame.exists) \in SUBSET S
    BY <1>2, <1>3, <1>4, <1>5, ThereIs DEF SourceCalls, Justified, Safe, Early, Stage
  <2>2. /\ c.eff.calls \in Queues(SourceCalls(context.frame.exists)) /\ c.eff.jobs = {}
        /\ c.exists
    BY <1>5 DEF SourceContext, Effect
  <2> QED BY <2>1, <2>2 DEF n
<1>6. CASE s = "frame" /\ c \in FrameContext({TRUE}, context.interframe.exists)
  <2>1. FrameCalls(context.interframe.exists) \in SUBSET S
    BY <1>2, <1>3, <1>4, <1>6, ThereIs DEF FrameCalls, Justified, Safe, Early, Stage
  <2>2. /\ c.eff.calls \in Queues(FrameCalls(context.interframe.exists))
        /\ c.eff.jobs \subseteq Jobs("frame") /\ c.exists
    BY <1>6 DEF FrameContext, Effect
  <2> QED BY <1>6, <2>1, <2>2 DEF n, Jobs
<1>7. CASE s = "interframe" /\ c \in InterContext({TRUE}, context.sink.exists)
  <2>1. InterCalls(context.sink.exists) \in SUBSET S
    BY <1>2, <1>3, <1>4, <1>7, ThereIs DEF InterCalls, Justified, Safe, Early, Stage
  <2>2. /\ c.eff.calls \in Queues(InterCalls(context.sink.exists))
        /\ c.eff.jobs \subseteq Jobs("interframe") /\ c.exists
    BY <1>7 DEF InterContext, Effect
  <2> QED BY <1>7, <2>1, <2>2 DEF n, Jobs
<1>8. CASE s = "sink" /\ c \in SinkContext({TRUE})
  <2>1. SinkCalls \in SUBSET S
    BY <1>2, <1>3, <1>4, <1>8, ThereIs DEF SinkCalls, Justified, Safe, Early, Stage
  <2>2. c.eff.calls \in Queues(SinkCalls) /\ c.eff.jobs = {} /\ c.exists
    BY <1>8 DEF SinkContext, Effect
  <2> QED BY <2>1, <2>2 DEF n
<1> QED BY <1>5, <1>6, <1>7, <1>8 DEF AtHome

(* The effects of such a stage.                                            *)
LEMMA EffectsStart ==
    ASSUME TypeInv, StartInv, NEW s \in Stage, NEW c, AtHome(s, c), s \in Known(There, queue),
           NEW q, QueuesInv(There \union {s}, q, pipeline.launched), Effects(s, c, q),
           UNCHANGED pipeline, images'.evaluating \subseteq images.evaluating \union c.eff.jobs
    PROVE  StartInv'
<1> DEFINE e == [c EXCEPT !.eff = NoEffects]
           n == pipeline.launched
<1>1. context \in Contexts(video) /\ context' = [context EXCEPT ![s] = e] /\ n \in 0 .. 4
  BY DEF Effects, TypeInv
<1>2. /\ DOMAIN context = Stage
      /\ context'[s] = e /\ \A r \in Stage \ {s} : context'[r] = context[r]
  BY <1>1 DEF Contexts, Stage
<1>3. /\ e.exists
      /\ s = "source" => e.waiting \in Demand(context.frame.exists, MaxOut)
      /\ s = "frame" => e.waiting \in Demand(context.interframe.exists, MaxOut)
      /\ s = "interframe" => e.waiting \in Demand(context.sink.exists, MaxWrite)
  BY DEF AtHome, SourceContext, FrameContext, InterContext, SinkContext
<1>4. There' = There \union {s}
  BY <1>2, <1>3 DEF There
<1>5. /\ \A j \in c.eff.jobs : j.stage = s
      /\ \E M \in SUBSET (Justified(There \union {s}) \intersect Safe(n)) :
            c.eff.calls \in Queues(M)
  BY CallsAtHome
<1>6. queue' = Post(q, c.eff.calls)
  BY DEF Effects
<1> HIDE DEF e, n
<1>7. QueuesInv(There \union {s}, queue', n)
  <2>1. There \union {s} \in SUBSET Stage /\ n \in 0 .. 4
    BY <1>1 DEF There
  <2> QED BY <1>5, <1>6, <2>1, PostKeepsOrder DEF n
<1>8. QueuesInv(There, queue, pipeline.launched)'
  BY <1>4, <1>7 DEF n
<1>9. \A job \in images'.evaluating : job.stage \in There'
  BY <1>4, <1>5 DEF StartInv
<1>10. /\ context'.source.waiting # 0 => "frame" \in There'
       /\ context'.frame.waiting # 0 => "interframe" \in There'
       /\ context'.interframe.waiting # 0 => "sink" \in There'
  <2>1. /\ context.source.waiting # 0 => "frame" \in There
        /\ context.frame.waiting # 0 => "interframe" \in There
        /\ context.interframe.waiting # 0 => "sink" \in There
    BY DEF StartInv
  <2>2. /\ s = "source" /\ e.waiting # 0 => "frame" \in There
        /\ s = "frame" /\ e.waiting # 0 => "interframe" \in There
        /\ s = "interframe" /\ e.waiting # 0 => "sink" \in There
    BY <1>3, ThereIs DEF Demand
  <2> QED BY <1>2, <1>4, <2>1, <2>2 DEF Stage
<1> QED BY <1>8, <1>9, <1>10 DEF StartInv

(* A job that a stage handles when it is there, or that makes it.          *)
LEMMA HandledStart ==
    ASSUME TypeInv, StartInv, NEW s \in Stage, NEW op, op # "params" \/ s \in There, Calls(s, op),
           NEW c, AtHome(s, c), Handled(s, c)
    PROVE  StartInv'
<1> DEFINE n == pipeline.launched
<1>1. n \in 0 .. 4 /\ QueuesInv(There, queue, n) /\ s \in Callee
  BY DEF TypeInv, StartInv, Callee
<1>2. op # "init" => s \in There
  BY <1>1, CalledIsThere DEF Early
<1>3. s \in Known(There, queue)
  BY <1>1, <1>2, CalledIsThere DEF Known
<1>4. QueuesInv(There \union {s}, Dequeued(s), n)
  <2>1. CASE op = "init"
    BY <1>1, <2>1, DequeueKeepsOrder
  <2>2. CASE op # "init"
    <3>1. There \union {s} = There
      BY <1>2, <2>2
    <3> QED BY <1>1, <2>2, <3>1, DequeueKeepsOrder
  <2> QED BY <2>1, <2>2
<1>5. /\ Effects(s, c, Dequeued(s)) /\ UNCHANGED pipeline
      /\ images'.evaluating \subseteq images.evaluating \union c.eff.jobs
  BY DEF Handled, TypeInv, ImagesType
<1> QED BY <1>3, <1>4, <1>5, EffectsStart

(* A job that leaves the contexts as they are, and makes calls.            *)
LEMMA CalmStart ==
    ASSUME TypeInv, StartInv, UNCHANGED context, pipeline'.launched = pipeline.launched,
           NEW q, QueuesInv(There, q, pipeline.launched), queue' = q,
           images'.evaluating \subseteq images.evaluating
    PROVE  StartInv'
<1>1. There' = There
  BY DEF There
<1>2. QueuesInv(There, queue, pipeline.launched)'
  BY <1>1
<1> QED BY <1>1, <1>2 DEF StartInv

(* A stage that is not there yet drops the frame size.                     *)
LEMMA ParamsTooEarly ==
    ASSUME TypeInv, StartInv, NEW s \in Stage, Calls(s, "params"),
           Handled(s, context[s])
    PROVE  StartInv'
<1> DEFINE n == pipeline.launched
           q == Dequeued(s)
<1>1. n \in 0 .. 4 /\ QueuesInv(There, queue, n) /\ s \in Callee
  BY DEF TypeInv, StartInv, Callee
<1>2. QueuesInv(There, q, n)
  BY <1>1, DequeueKeepsOrder
<1>3. context[s].eff = NoEffects
  BY ContextsTyped DEF Stage
<1>4. /\ context' = [context EXCEPT ![s] = [context[s] EXCEPT !.eff = NoEffects]]
      /\ queue' = Post(q, NoEffects.calls) /\ UNCHANGED pipeline
      /\ images' = [images EXCEPT !.evaluating = @ \union {}]
  BY <1>3 DEF Handled, Effects, NoEffects
<1>5. context' = context
  <2>1. /\ context.source \in SourceContext(video, BOOLEAN, TRUE)
        /\ context.frame \in FrameContext(BOOLEAN, TRUE)
        /\ context.interframe \in InterContext(BOOLEAN, TRUE)
        /\ context.sink \in SinkContext(BOOLEAN)
    BY ContextsTyped
  <2>2. /\ context.source = [context.source EXCEPT !.eff = context.source.eff]
        /\ context.frame = [context.frame EXCEPT !.eff = context.frame.eff]
    BY <2>1 DEF SourceContext, FrameContext
  <2>3. /\ context.interframe = [context.interframe EXCEPT !.eff = context.interframe.eff]
        /\ context.sink = [context.sink EXCEPT !.eff = context.sink.eff]
    BY <2>1 DEF InterContext, SinkContext
  <2>4. [context[s] EXCEPT !.eff = NoEffects] = context[s]
    BY <1>3, <2>2, <2>3 DEF Stage
  <2>5. context = [context EXCEPT ![s] = context[s]]
    BY DEF TypeInv, Contexts
  <2> QED BY <1>4, <2>4, <2>5
<1>6. images'.evaluating \subseteq images.evaluating
  BY <1>4 DEF TypeInv, ImagesType
<1> HIDE DEF q
<1>7. QueuesInv(There, queue', n)
  <2>1. NoEffects.calls \in Queues({})
    BY QuietTyped DEF Effect
  <2> QED BY <1>1, <1>2, <1>4, <2>1, PostKeepsOrder DEF There
<1> QED BY <1>4, <1>5, <1>6, <1>7, CalmStart

(* A stage that is there.                                                  *)
LEMMA StaysHome ==
    ASSUME TypeInv, StartInv, NEW s \in There
    PROVE  AtHome(s, context[s])
<1>1. s \in Stage /\ context[s].exists
  BY DEF There
<1>2. /\ context.source \in SourceContext(video, BOOLEAN, TRUE)
      /\ context.frame \in FrameContext(BOOLEAN, TRUE)
      /\ context.interframe \in InterContext(BOOLEAN, TRUE)
      /\ context.sink \in SinkContext(BOOLEAN)
  BY ContextsTyped
<1>3. CASE s = "source"
  <2>1. context.source = [context.source EXCEPT !.exists = TRUE]
    BY <1>1, <1>2, <1>3 DEF SourceContext
  <2> QED BY <1>3, <2>1, HomeTyped
<1>4. CASE s = "frame"
  <2>1. context.frame = [context.frame EXCEPT !.exists = TRUE]
    BY <1>1, <1>2, <1>4 DEF FrameContext
  <2> QED BY <1>4, <2>1, HomeTyped
<1>5. CASE s = "interframe"
  <2>1. context.interframe = [context.interframe EXCEPT !.exists = TRUE]
    BY <1>1, <1>2, <1>5 DEF InterContext
  <2> QED BY <1>5, <2>1, HomeTyped
<1>6. CASE s = "sink"
  <2>1. context.sink = [context.sink EXCEPT !.exists = TRUE]
    BY <1>1, <1>2, <1>6 DEF SinkContext
  <2> QED BY <1>6, <2>1, HomeTyped
<1> QED BY <1>1, <1>3, <1>4, <1>5, <1>6 DEF Stage

(* A job that is neither init nor params finds its stage.                  *)
LEMMA CalledAtHome ==
    ASSUME TypeInv, StartInv, NEW s \in Stage, NEW op, op \notin Early, Calls(s, op)
    PROVE  s \in There /\ AtHome(s, context[s])
<1>1. s \in There
  BY CalledIsThere DEF StartInv, Callee
<1> QED BY <1>1, StaysHome

(* A stage asks only when it is there.                                     *)
LEMMA AskedByOneThere ==
    ASSUME TypeInv, StartInv
    PROVE  /\ Calls("source", "next") => context.frame.exists
           /\ Calls("frame", "next") => context.interframe.exists
           /\ Calls("interframe", "next") => context.sink.exists
<1>1. ASSUME NEW s \in Stage, Calls(s, "next")
      PROVE  Job(s) \in Justified(There) /\ Job(s).callee = s /\ Job(s).op = "next"
  <2>1. s \in Callee
    BY DEF Callee
  <2>2. Job(s) \in Justified(There)
    BY <1>1, <2>1, CalledIsThere DEF StartInv
  <2> QED BY <1>1, <2>2 DEF Calls, Job
<1> QED BY <1>1, ThereIs DEF Justified, Stage

(* init sets exists itself.                                                *)
LEMMA InitMakesIt ==
    ASSUME NEW c
    PROVE  /\ \A opened : Source!Init(c, opened) = Source!Init([c EXCEPT !.exists = TRUE], opened)
           /\ FrameStage!Init(c) = FrameStage!Init([c EXCEPT !.exists = TRUE])
           /\ InterStage!Common!Init(c) = InterStage!Common!Init([c EXCEPT !.exists = TRUE])
           /\ Sink!Init(c) = Sink!Init([c EXCEPT !.exists = TRUE])
<1> DEFINE x == [c EXCEPT !.exists = TRUE]
<1>1. /\ [x EXCEPT !.exists = TRUE] = [c EXCEPT !.exists = TRUE]
      /\ [x EXCEPT !.exists = TRUE, !.opened = TRUE] = [c EXCEPT !.exists = TRUE, !.opened = TRUE]
      /\ [x EXCEPT !.exists = TRUE, !.script = "compiling"]
             = [c EXCEPT !.exists = TRUE, !.script = "compiling"]
  OBVIOUS
<1> HIDE DEF x
<1>2. ASSUME NEW opened PROVE Source!Init(c, opened) = Source!Init(x, opened)
  BY <1>1 DEF Source!Init
<1>3. FrameStage!Init(c) = FrameStage!Init(x)
  BY <1>1 DEF FrameStage!Init
<1>4. InterStage!Common!Init(c) = InterStage!Common!Init(x)
  BY <1>1 DEF InterStage!Common!Init
<1>5. Sink!Init(c) = Sink!Init(x)
  BY <1>1 DEF Sink!Init
<1> QED BY <1>2, <1>3, <1>4, <1>5 DEF x

(* The jobs of the source.                                                 *)
LEMMA SourceThreadStart ==
    ASSUME TypeInv, StartInv, SourceThread
    PROVE  StartInv'
<1> DEFINE Ready == context.frame.exists
<1>1. Ready \in BOOLEAN /\ "source" \in Stage /\ "source" \in Callee /\ video \in Videos
  BY ThereIs, ContextsTyped DEF Stage, Callee
<1> HIDE DEF Ready
<1>2. ASSUME NEW c, AtHome("source", c) PROVE c \in SourceContext(video, {TRUE}, Ready)
  BY <1>2 DEF AtHome, Ready
<1>3. ASSUME NEW op, op # "params", Calls("source", op),
             NEW c \in SourceContext(video, {TRUE}, Ready), Handled("source", c)
      PROVE  StartInv'
  <2>1. AtHome("source", c)
    BY DEF AtHome, Ready
  <2> QED BY <1>1, <1>3, <2>1, HandledStart
<1>4. CASE SourceInit
  <2> DEFINE x == [context.source EXCEPT !.exists = TRUE]
  <2>1. Calls("source", "init")
    BY <1>4 DEF SourceInit
  <2>2. PICK opened \in BOOLEAN : Handled("source", Source!Init(context.source, opened))
    BY <1>4, RtspIs DEF SourceInit
  <2>3. x \in SourceContext(video, {TRUE}, Ready)
    BY <1>2, HomeTyped
  <2>4. Source!Init(context.source, opened) = Source!Init(x, opened)
    BY InitMakesIt
  <2> HIDE DEF x
  <2>5. Source!Init(x, opened) \in SourceContext(video, {TRUE}, Ready)
    BY <1>1, <2>3, SourceInitTyped
  <2> QED BY <1>3, <2>1, <2>2, <2>4, <2>5
<1>5. CASE SourceStart
  <2>1. Calls("source", "start") /\ Handled("source", Source!Start(context.source, video))
    BY <1>5, RtspIs DEF SourceStart
  <2>2. context.source \in SourceContext(video, {TRUE}, Ready)
    BY <1>1, <1>2, <2>1, CalledAtHome DEF Early
  <2>3. Source!Start(context.source, video) \in SourceContext(video, {TRUE}, Ready)
    BY <1>1, <2>2, SourceStartTyped
  <2> QED BY <1>3, <2>1, <2>3
<1>6. CASE SourceNext
  <2>1. /\ Calls("source", "next")
        /\ Handled("source", Source!Next(context.source, Job("source").amount))
    BY <1>6, RtspIs DEF SourceNext
  <2>2. context.source \in SourceContext(video, {TRUE}, Ready)
    BY <1>1, <1>2, <2>1, CalledAtHome DEF Early
  <2>3. Ready
    BY <2>1, AskedByOneThere DEF Ready
  <2>4. Made("source", "next", Job("source").amount, Job("source").load) /\ Job("source").amount \in Nat
    BY <1>1, <2>1, JobTyped DEF TypeInv
  <2>5. Job("source").amount \in 0 .. MaxOut
    BY <2>4 DEF Made
  <2>6. Source!Next(context.source, Job("source").amount) \in SourceContext(video, {TRUE}, Ready)
    BY <1>1, <2>2, <2>3, <2>5, SourceNextTyped
  <2> QED BY <1>3, <2>1, <2>6
<1> QED BY <1>4, <1>5, <1>6 DEF SourceThread

(* The jobs of the frame stage.                                            *)
LEMMA FrameStageStart ==
    ASSUME TypeInv, StartInv,
           \/ FrameInit \/ FrameParams \/ FrameStart \/ FrameFinish
           \/ FrameProcess \/ FrameNext \/ FrameEvaluated \/ FrameEvaluationFailed
    PROVE  StartInv'
<1> DEFINE Ready == context.interframe.exists
<1>1. Ready \in BOOLEAN /\ "frame" \in Stage /\ "frame" \in Callee
  BY ThereIs DEF Stage, Callee
<1> HIDE DEF Ready
<1>2. ASSUME NEW c, AtHome("frame", c) PROVE c \in FrameContext({TRUE}, Ready)
  BY <1>2 DEF AtHome, Ready
<1>3. ASSUME NEW op, Calls("frame", op), op # "params" \/ "frame" \in There,
             NEW c \in FrameContext({TRUE}, Ready), Handled("frame", c)
      PROVE  StartInv'
  <2>1. AtHome("frame", c)
    BY DEF AtHome, Ready
  <2> QED BY <1>1, <1>3, <2>1, HandledStart
<1>4. ASSUME NEW op, Calls("frame", op), op \notin Early
      PROVE  op # "params" /\ context.frame \in FrameContext({TRUE}, Ready)
  BY <1>1, <1>2, <1>4, CalledAtHome DEF Early
<1>5. ASSUME NEW op, Calls("frame", op)
      PROVE  /\ Made("frame", op, Job("frame").amount, Job("frame").load)
             /\ Job("frame").amount \in Nat /\ Job("frame").load \in Seq(FrameType)
  BY <1>1, <1>5, JobTyped DEF TypeInv
<1>6. CASE FrameInit
  <2> DEFINE x == [context.frame EXCEPT !.exists = TRUE]
  <2>1. Calls("frame", "init") /\ Handled("frame", FrameStage!Init(context.frame))
    BY <1>6 DEF FrameInit
  <2>2. x \in FrameContext({TRUE}, Ready) /\ FrameStage!Init(context.frame) = FrameStage!Init(x)
    BY <1>2, HomeTyped, InitMakesIt
  <2> HIDE DEF x
  <2>3. FrameStage!Init(x) \in FrameContext({TRUE}, Ready)
    BY <1>1, <2>2, FrameStepsTyped
  <2> QED BY <1>3, <2>1, <2>2, <2>3
<1>7. CASE FrameParams
  <2>1. Calls("frame", "params") /\ Handled("frame", FrameStage!Params(context.frame))
    BY <1>7 DEF FrameParams
  <2>2. CASE "frame" \in There
    <3>1. context.frame \in FrameContext({TRUE}, Ready)
      BY <1>2, <2>2, StaysHome
    <3>2. FrameStage!Params(context.frame) \in FrameContext({TRUE}, Ready)
      BY <1>1, <3>1, FrameStepsTyped
    <3> QED BY <1>3, <2>1, <2>2, <3>2
  <2>3. CASE "frame" \notin There
    <3>1. FrameStage!Params(context.frame) = context.frame
      BY <2>3, ThereIs DEF FrameStage!Params
    <3> QED BY <1>1, <2>1, <3>1, ParamsTooEarly
  <2> QED BY <2>2, <2>3
<1>8. CASE FrameStart
  <2>1. Calls("frame", "start") /\ Handled("frame", FrameStage!Start(context.frame))
    BY <1>8 DEF FrameStart
  <2>2. context.frame \in FrameContext({TRUE}, Ready)
    BY <1>4, <2>1 DEF Early
  <2>3. FrameStage!Start(context.frame) \in FrameContext({TRUE}, Ready)
    BY <1>1, <2>2, FrameStepsTyped
  <2> QED BY <1>3, <2>1, <2>3
<1>9. CASE FrameFinish
  <2>1. Calls("frame", "finish") /\ Handled("frame", FrameStage!Finish(context.frame))
    BY <1>9 DEF FrameFinish
  <2>2. context.frame \in FrameContext({TRUE}, Ready)
    BY <1>4, <2>1 DEF Early
  <2>3. FrameStage!Finish(context.frame) \in FrameContext({TRUE}, Ready)
    BY <1>1, <2>2, FrameStepsTyped
  <2> QED BY <1>3, <2>1, <2>3
<1>10. CASE FrameProcess
  <2>1. Calls("frame", "process") /\ Handled("frame", FrameStage!Process(context.frame, Job("frame").load))
    BY <1>10 DEF FrameProcess
  <2>2. context.frame \in FrameContext({TRUE}, Ready)
    BY <1>4, <2>1 DEF Early
  <2>3. FrameStage!Process(context.frame, Job("frame").load) \in FrameContext({TRUE}, Ready)
    BY <1>1, <1>5, <2>1, <2>2, FrameProcessTyped
  <2> QED BY <1>3, <2>1, <2>3
<1>11. CASE FrameNext
  <2>1. Calls("frame", "next") /\ Handled("frame", FrameStage!Next(context.frame, Job("frame").amount))
    BY <1>11 DEF FrameNext
  <2>2. context.frame \in FrameContext({TRUE}, Ready)
    BY <1>4, <2>1 DEF Early
  <2>3. Ready
    BY <2>1, AskedByOneThere DEF Ready
  <2>4. Made("frame", "next", Job("frame").amount, Job("frame").load) /\ Job("frame").amount \in Nat
    BY <1>5, <2>1
  <2>5. Job("frame").amount \in 0 .. MaxOut
    BY <2>4 DEF Made
  <2>6. FrameStage!Next(context.frame, Job("frame").amount) \in FrameContext({TRUE}, Ready)
    BY <1>1, <2>2, <2>3, <2>5, FrameStepsTyped
  <2> QED BY <1>3, <2>1, <2>6
<1>12. CASE FrameEvaluated
  <2>1. Calls("frame", "evaluated") /\ Handled("frame", FrameStage!Evaluated(context.frame, Job("frame").load[1]))
    BY <1>12 DEF FrameEvaluated
  <2>2. context.frame \in FrameContext({TRUE}, Ready)
    BY <1>4, <2>1 DEF Early
  <2>3. /\ Made("frame", "evaluated", Job("frame").amount, Job("frame").load)
        /\ Job("frame").load \in Seq(FrameType)
    BY <1>5, <2>1
  <2>4. Len(Job("frame").load) = 1
    BY <2>3 DEF Made
  <2>5. Job("frame").load[1] \in FrameType
    BY <2>3, <2>4
  <2>6. FrameStage!Evaluated(context.frame, Job("frame").load[1]) \in FrameContext({TRUE}, Ready)
    BY <1>1, <2>2, <2>5, FrameStepsTyped
  <2> QED BY <1>3, <2>1, <2>6
<1>13. CASE FrameEvaluationFailed
  <2>1. Calls("frame", "failed") /\ Handled("frame", FrameStage!EvaluationFailed(context.frame))
    BY <1>13 DEF FrameEvaluationFailed
  <2>2. context.frame \in FrameContext({TRUE}, Ready)
    BY <1>4, <2>1 DEF Early
  <2>3. FrameStage!EvaluationFailed(context.frame) \in FrameContext({TRUE}, Ready)
    BY <1>1, <2>2, FrameStepsTyped
  <2> QED BY <1>3, <2>1, <2>3
<1> QED BY <1>6, <1>7, <1>8, <1>9, <1>10, <1>11, <1>12, <1>13

(* The jobs of the inter-frame stage.                                      *)
LEMMA InterStageStart ==
    ASSUME TypeInv, StartInv,
           \/ InterframeInit \/ InterframeParams \/ InterframeStart
           \/ InterframeProcess \/ InterframeNext
           \/ InterframeEvaluated \/ InterframeEvaluationFailed
    PROVE  StartInv'
<1> DEFINE Ready == context.sink.exists
<1>1. Ready \in BOOLEAN /\ "interframe" \in Stage /\ "interframe" \in Callee
  BY ThereIs DEF Stage, Callee
<1> HIDE DEF Ready
<1>2. ASSUME NEW c, AtHome("interframe", c) PROVE c \in InterContext({TRUE}, Ready)
  BY <1>2 DEF AtHome, Ready
<1>3. ASSUME NEW op, Calls("interframe", op), op # "params" \/ "interframe" \in There,
             NEW c \in InterContext({TRUE}, Ready), Handled("interframe", c)
      PROVE  StartInv'
  <2>1. AtHome("interframe", c)
    BY DEF AtHome, Ready
  <2> QED BY <1>1, <1>3, <2>1, HandledStart
<1>4. ASSUME NEW op, Calls("interframe", op), op \notin Early
      PROVE  op # "params" /\ context.interframe \in InterContext({TRUE}, Ready)
  BY <1>1, <1>2, <1>4, CalledAtHome DEF Early
<1>5. ASSUME NEW op, Calls("interframe", op)
      PROVE  /\ Made("interframe", op, Job("interframe").amount, Job("interframe").load)
             /\ Job("interframe").amount \in Nat /\ Job("interframe").load \in Seq(FrameType)
  BY <1>1, <1>5, JobTyped DEF TypeInv
<1>6. CASE InterframeInit
  <2> DEFINE x == [context.interframe EXCEPT !.exists = TRUE]
  <2>1. Calls("interframe", "init") /\ Handled("interframe", InterStage!Common!Init(context.interframe))
    BY <1>6, InterStageIs DEF InterframeInit
  <2>2. x \in InterContext({TRUE}, Ready) /\ InterStage!Common!Init(context.interframe) = InterStage!Common!Init(x)
    BY <1>2, HomeTyped, InitMakesIt
  <2> HIDE DEF x
  <2>3. InterStage!Common!Init(x) \in InterContext({TRUE}, Ready)
    BY <1>1, <2>2, InterStepsTyped
  <2> QED BY <1>3, <2>1, <2>2, <2>3
<1>7. CASE InterframeParams
  <2>1. Calls("interframe", "params") /\ Handled("interframe", InterStage!Common!Params(context.interframe))
    BY <1>7, InterStageIs DEF InterframeParams
  <2>2. CASE "interframe" \in There
    <3>1. context.interframe \in InterContext({TRUE}, Ready)
      BY <1>2, <2>2, StaysHome
    <3>2. InterStage!Common!Params(context.interframe) \in InterContext({TRUE}, Ready)
      BY <1>1, <3>1, InterStepsTyped
    <3> QED BY <1>3, <2>1, <2>2, <3>2
  <2>3. CASE "interframe" \notin There
    <3>1. InterStage!Common!Params(context.interframe) = context.interframe
      BY <2>3, ThereIs DEF InterStage!Common!Params
    <3> QED BY <1>1, <2>1, <3>1, ParamsTooEarly
  <2> QED BY <2>2, <2>3
<1>8. CASE InterframeStart
  <2>1. Calls("interframe", "start") /\ Handled("interframe", InterStage!Common!Start(context.interframe))
    BY <1>8, InterStageIs DEF InterframeStart
  <2>2. context.interframe \in InterContext({TRUE}, Ready)
    BY <1>4, <2>1 DEF Early
  <2>3. InterStage!Common!Start(context.interframe) \in InterContext({TRUE}, Ready)
    BY <1>1, <2>2, InterStepsTyped
  <2> QED BY <1>3, <2>1, <2>3
<1>9. CASE InterframeProcess
  <2>1. Calls("interframe", "process") /\ Handled("interframe", InterStage!Process(context.interframe, Job("interframe").load))
    BY <1>9 DEF InterframeProcess
  <2>2. context.interframe \in InterContext({TRUE}, Ready)
    BY <1>4, <2>1 DEF Early
  <2>3. InterStage!Process(context.interframe, Job("interframe").load) \in InterContext({TRUE}, Ready)
    BY <1>1, <1>5, <2>1, <2>2, InterProcessTyped
  <2> QED BY <1>3, <2>1, <2>3
<1>10. CASE InterframeNext
  <2>1. Calls("interframe", "next") /\ Handled("interframe", InterStage!Common!Next(context.interframe, Job("interframe").amount))
    BY <1>10, InterStageIs DEF InterframeNext
  <2>2. context.interframe \in InterContext({TRUE}, Ready)
    BY <1>4, <2>1 DEF Early
  <2>3. Ready
    BY <2>1, AskedByOneThere DEF Ready
  <2>4. Made("interframe", "next", Job("interframe").amount, Job("interframe").load) /\ Job("interframe").amount \in Nat
    BY <1>5, <2>1
  <2>5. Job("interframe").amount \in 0 .. MaxWrite
    BY <2>4 DEF Made
  <2>6. InterStage!Common!Next(context.interframe, Job("interframe").amount) \in InterContext({TRUE}, Ready)
    BY <1>1, <2>2, <2>3, <2>5, InterStepsTyped
  <2> QED BY <1>3, <2>1, <2>6
<1>11. CASE InterframeEvaluated
  <2>1. Calls("interframe", "evaluated") /\ Handled("interframe", InterStage!Common!Evaluated(context.interframe, Job("interframe").load[1]))
    BY <1>11, InterStageIs DEF InterframeEvaluated
  <2>2. context.interframe \in InterContext({TRUE}, Ready)
    BY <1>4, <2>1 DEF Early
  <2>3. /\ Made("interframe", "evaluated", Job("interframe").amount, Job("interframe").load)
        /\ Job("interframe").load \in Seq(FrameType)
    BY <1>5, <2>1
  <2>4. Len(Job("interframe").load) = 1
    BY <2>3 DEF Made
  <2>5. Job("interframe").load[1] \in FrameType
    BY <2>3, <2>4
  <2>6. InterStage!Common!Evaluated(context.interframe, Job("interframe").load[1]) \in InterContext({TRUE}, Ready)
    BY <1>1, <2>2, <2>5, InterStepsTyped
  <2> QED BY <1>3, <2>1, <2>6
<1>12. CASE InterframeEvaluationFailed
  <2>1. Calls("interframe", "failed") /\ Handled("interframe", InterStage!Common!EvaluationFailed(context.interframe))
    BY <1>12, InterStageIs DEF InterframeEvaluationFailed
  <2>2. context.interframe \in InterContext({TRUE}, Ready)
    BY <1>4, <2>1 DEF Early
  <2>3. InterStage!Common!EvaluationFailed(context.interframe) \in InterContext({TRUE}, Ready)
    BY <1>1, <2>2, InterStepsTyped
  <2> QED BY <1>3, <2>1, <2>3
<1> QED BY <1>6, <1>7, <1>8, <1>9, <1>10, <1>11, <1>12

(* The jobs of the sink.                                                   *)
LEMMA SinkThreadStart ==
    ASSUME TypeInv, StartInv, SinkThread
    PROVE  StartInv'
<1>1. "sink" \in Stage /\ "sink" \in Callee
  BY DEF Stage, Callee
<1>2. ASSUME NEW c, AtHome("sink", c) PROVE c \in SinkContext({TRUE})
  BY <1>2 DEF AtHome
<1>3. ASSUME NEW op, Calls("sink", op), op # "params" \/ "sink" \in There,
             NEW c \in SinkContext({TRUE}), Handled("sink", c)
      PROVE  StartInv'
  <2>1. AtHome("sink", c)
    BY DEF AtHome
  <2> QED BY <1>1, <1>3, <2>1, HandledStart
<1>4. ASSUME NEW op, Calls("sink", op), op \notin Early
      PROVE  op # "params" /\ context.sink \in SinkContext({TRUE})
  BY <1>1, <1>2, <1>4, CalledAtHome DEF Early
<1>5. ASSUME NEW op, Calls("sink", op) PROVE Job("sink").load \in Seq(FrameType)
  BY <1>1, <1>5, JobTyped DEF TypeInv
<1>6. CASE SinkInit
  <2> DEFINE x == [context.sink EXCEPT !.exists = TRUE]
  <2>1. Calls("sink", "init") /\ Handled("sink", Sink!Init(context.sink))
    BY <1>6 DEF SinkInit
  <2>2. x \in SinkContext({TRUE}) /\ Sink!Init(context.sink) = Sink!Init(x)
    BY <1>2, HomeTyped, InitMakesIt
  <2> HIDE DEF x
  <2>3. Sink!Init(x) \in SinkContext({TRUE})
    BY <2>2, SinkStepsTyped
  <2> QED BY <1>3, <2>1, <2>2, <2>3
<1>7. CASE SinkParams
  <2>1. Calls("sink", "params") /\ Handled("sink", Sink!Params(context.sink))
    BY <1>7 DEF SinkParams
  <2>2. CASE "sink" \in There
    <3>1. context.sink \in SinkContext({TRUE})
      BY <1>2, <2>2, StaysHome
    <3>2. Sink!Params(context.sink) \in SinkContext({TRUE})
      BY <3>1, SinkStepsTyped
    <3> QED BY <1>3, <2>1, <2>2, <3>2
  <2>3. CASE "sink" \notin There
    <3>1. Sink!Params(context.sink) = context.sink
      BY <2>3, ThereIs DEF Sink!Params
    <3> QED BY <1>1, <2>1, <3>1, ParamsTooEarly
  <2> QED BY <2>2, <2>3
<1>8. CASE SinkStart
  <2>1. Calls("sink", "start") /\ Handled("sink", Sink!Start(context.sink))
    BY <1>8 DEF SinkStart
  <2>2. context.sink \in SinkContext({TRUE})
    BY <1>4, <2>1 DEF Early
  <2>3. Sink!Start(context.sink) \in SinkContext({TRUE})
    BY <2>2, SinkStepsTyped
  <2> QED BY <1>3, <2>1, <2>3
<1>9. CASE SinkProcess
  <2>1. Calls("sink", "process") /\ Handled("sink", Sink!Process(context.sink, Job("sink").load))
    BY <1>9 DEF SinkProcess
  <2>2. context.sink \in SinkContext({TRUE})
    BY <1>4, <2>1 DEF Early
  <2>3. Sink!Process(context.sink, Job("sink").load) \in SinkContext({TRUE})
    BY <1>5, <2>1, <2>2, SinkStepsTyped
  <2> QED BY <1>3, <2>1, <2>3
<1>10. CASE SinkFramesWritten
  <2>1. Calls("sink", "framesWritten") /\ Handled("sink", Sink!FramesWritten(context.sink, Job("sink").load))
    BY <1>10 DEF SinkFramesWritten
  <2>2. context.sink \in SinkContext({TRUE})
    BY <1>4, <2>1 DEF Early
  <2>3. Sink!FramesWritten(context.sink, Job("sink").load) \in SinkContext({TRUE})
    BY <1>5, <2>1, <2>2, SinkStepsTyped
  <2> QED BY <1>3, <2>1, <2>3
<1>11. CASE SinkLastWritten
  <2>1. Calls("sink", "lastWritten") /\ Handled("sink", Sink!LastWritten(context.sink, Job("sink").load))
    BY <1>11 DEF SinkLastWritten
  <2>2. context.sink \in SinkContext({TRUE})
    BY <1>4, <2>1 DEF Early
  <2>3. Sink!LastWritten(context.sink, Job("sink").load) \in SinkContext({TRUE})
    BY <1>5, <2>1, <2>2, SinkStepsTyped
  <2> QED BY <1>3, <2>1, <2>3
<1>12. CASE SinkWriteFailed
  <2>1. Calls("sink", "writeFailed") /\ Handled("sink", Sink!WriteFailed(context.sink))
    BY <1>12 DEF SinkWriteFailed
  <2>2. context.sink \in SinkContext({TRUE})
    BY <1>4, <2>1 DEF Early
  <2>3. Sink!WriteFailed(context.sink) \in SinkContext({TRUE})
    BY <2>2, SinkStepsTyped
  <2> QED BY <1>3, <2>1, <2>3
<1> QED BY <1>6, <1>7, <1>8, <1>9, <1>10, <1>11, <1>12 DEF SinkThread

(* What the continuation of a compilation sends.                           *)
ToPipeline == {m \in AllCalls : m.callee = "pipeline"}

LEMMA CompiledPosts ==
    ASSUME NEW ok, NEW id
    PROVE  /\ \A c \in FrameContext(BOOLEAN, TRUE) :
                 c.eff = NoEffects =>
                     /\ FrameStage!Compiled(c, ok, id).exists = c.exists
                     /\ FrameStage!Compiled(c, ok, id).waiting = c.waiting
                     /\ FrameStage!Compiled(c, ok, id).eff.calls \in Queues(ToPipeline)
           /\ \A c \in InterContext(BOOLEAN, TRUE) :
                 c.eff = NoEffects =>
                     /\ InterStage!Compiled(c, ok, id).exists = c.exists
                     /\ InterStage!Compiled(c, ok, id).waiting = c.waiting
                     /\ InterStage!Compiled(c, ok, id).eff.calls \in Queues(ToPipeline)
<1> DEFINE m == Call("pipeline", "initialized")
           sent == [NoEffects EXCEPT !.calls[ThreadOf(m.callee)] = Append(@, m)]
<1>1. m \in ToPipeline /\ ThreadOf(m.callee) = "pipeline" /\ ToPipeline \in SUBSET AllCalls
  BY CallsMade DEF Is, ToPipeline, ThreadOf
<1>2. NoEffects.calls \in Queues(ToPipeline)
  BY <1>1, QuietTyped DEF Effect
<1>3. sent.calls \in Queues(ToPipeline)
  <2>1. ToPipeline \in SUBSET CallType /\ ThreadOf(m.callee) \in Thread
    BY <1>1, CallsTyped DEF Thread
  <2>2. [NoEffects.calls EXCEPT ![ThreadOf(m.callee)] = Append(@, m)] \in Queues(ToPipeline)
    BY <1>1, <1>2, <2>1, SendKeepsQueues
  <2> QED BY <2>2 DEF NoEffects
<1> HIDE DEF m, sent
<1>4. ASSUME NEW c \in FrameContext(BOOLEAN, TRUE), c.eff = NoEffects
      PROVE  /\ FrameStage!Compiled(c, ok, id).exists = c.exists
             /\ FrameStage!Compiled(c, ok, id).waiting = c.waiting
             /\ FrameStage!Compiled(c, ok, id).eff.calls \in Queues(ToPipeline)
  <2>1. FrameStage!Compiled(c, ok, id) =
            IF ok THEN [c EXCEPT !.script = "ready", !.framesId = id, !.eff = sent]
                  ELSE [c EXCEPT !.script = "failed", !.framesId = 0]
    BY <1>4 DEF FrameStage!Compiled, FrameStage!Send, FrameStage!Call, FrameStage!ThreadOf,
                Call, ThreadOf, FrameContext, sent, m
  <2> QED BY <1>2, <1>3, <1>4, <2>1 DEF FrameContext
<1>5. ASSUME NEW c \in InterContext(BOOLEAN, TRUE), c.eff = NoEffects
      PROVE  /\ InterStage!Compiled(c, ok, id).exists = c.exists
             /\ InterStage!Compiled(c, ok, id).waiting = c.waiting
             /\ InterStage!Compiled(c, ok, id).eff.calls \in Queues(ToPipeline)
  <2>1. InterStage!Compiled(c, ok, id) =
            IF ok THEN [c EXCEPT !.script = "ready", !.framesId = id, !.eff = sent]
                  ELSE [c EXCEPT !.script = "failed", !.framesId = 0,
                                 !.eff = [NoEffects EXCEPT !.report = "failed"]]
    BY <1>5 DEF InterStage!Compiled, InterStage!Report, InterStage!Common!Compiled,
                InterStage!Common!Send, InterStage!Common!Call, InterStage!Common!ThreadOf,
                Call, ThreadOf, InterContext, sent, m
  <2>2. [NoEffects EXCEPT !.report = "failed"].calls = NoEffects.calls
    BY DEF NoEffects
  <2> QED BY <1>2, <1>3, <1>5, <2>1, <2>2 DEF InterContext
<1> QED BY <1>4, <1>5

(* The continuation leaves it to the others who is there.                  *)
LEMMA ContinueStart ==
    ASSUME TypeInv, StartInv, NEW s \in {"frame", "interframe"}, NEW c, Continue(s, c),
           c.exists = context[s].exists, c.waiting = context[s].waiting,
           c.eff.calls \in Queues(ToPipeline),
           \/ s = "frame" /\ c \in FrameContext(BOOLEAN, TRUE)
           \/ s = "interframe" /\ c \in InterContext(BOOLEAN, TRUE)
    PROVE  StartInv'
<1> DEFINE e == [c EXCEPT !.eff = NoEffects]
           n == pipeline.launched
<1>1. /\ context \in Contexts(video) /\ context' = [context EXCEPT ![s] = e] /\ n \in 0 .. 4
      /\ queue' = Post(queue, c.eff.calls) /\ UNCHANGED <<pipeline, images>>
  BY DEF Continue, Effects, TypeInv
<1>2. e.exists = context[s].exists /\ e.waiting = context[s].waiting
  BY DEF FrameContext, InterContext
<1> HIDE DEF e
<1>3. /\ DOMAIN context = Stage /\ s \in Stage
      /\ context'[s] = e /\ \A r \in Stage \ {s} : context'[r] = context[r]
  BY <1>1 DEF Contexts, Stage
<1>4. There' = There
  BY <1>2, <1>3 DEF There
<1>5. \A r \in {"source", "frame", "interframe"} : context'[r].waiting = context[r].waiting
  BY <1>2, <1>3 DEF Stage
<1>6. QueuesInv(There, queue', n)
  <2>1. ToPipeline \in SUBSET (Justified(There) \intersect Safe(n))
    BY DEF ToPipeline, Justified, Safe, AllCalls, Made, Stage
  <2>2. QueuesInv(There, queue, n) /\ There \in SUBSET Stage
    BY DEF StartInv, There
  <2> HIDE DEF n
  <2> QED BY <1>1, <2>1, <2>2, PostKeepsOrder
<1>7. QueuesInv(There, queue, pipeline.launched)'
  BY <1>1, <1>4, <1>6
<1>8. \A job \in images'.evaluating : job.stage \in There'
  BY <1>1, <1>4 DEF StartInv
<1>9. /\ context'.source.waiting # 0 => "frame" \in There'
      /\ context'.frame.waiting # 0 => "interframe" \in There'
      /\ context'.interframe.waiting # 0 => "sink" \in There'
  BY <1>4, <1>5 DEF StartInv
<1> QED BY <1>7, <1>8, <1>9 DEF StartInv

(* Who is there was launched.                                              *)
LEMMA ThereIsLaunched ==
    ASSUME TypeInv, StartInv
    PROVE  /\ There \subseteq Launched(pipeline.launched) /\ There \in SUBSET Stage
           /\ QueuesInv(There, queue, pipeline.launched) /\ pipeline.launched \in 0 .. 4
BY DEF TypeInv, StartInv, QueuesInv, Known, There

(* The launch, one init after the other, and the start of all stages.      *)
LEMMA PipelineThreadStart ==
    ASSUME TypeInv, StartInv, PipelineThread
    PROVE  StartInv'
<1> DEFINE n == pipeline.launched
<1>1. /\ There \in SUBSET Stage /\ QueuesInv(There, queue, n) /\ n \in 0 .. 4
      /\ pipeline \in [launched : 0 .. 4, initialized : Nat] /\ Len(StageOrder) = 4
  BY ThereIsLaunched DEF TypeInv, StageOrder
<1>2. CASE Launch
  <2>1. /\ n \in 0 .. 3 /\ pipeline'.launched = n + 1
        /\ queue' = Posted(queue, Call(StageOrder[n + 1], "init"))
        /\ UNCHANGED <<context, images>>
    BY <1>1, <1>2 DEF Launch
  <2>2. There' = There
    BY <2>1 DEF There
  <2> HIDE DEF n
  <2>3. QueuesInv(There, queue', n + 1)
    BY <1>1, <2>1, LaunchKeepsOrder
  <2>4. QueuesInv(There, queue, pipeline.launched)'
    BY <2>1, <2>2, <2>3
  <2> QED BY <2>1, <2>2, <2>4 DEF StartInv
<1>3. CASE StageInitialized
  <2>1. Calls("pipeline", "initialized") /\ "pipeline" \in Callee /\ n = 4
    BY <1>1, <1>3 DEF StageInitialized, Callee
  <2>2. /\ UNCHANGED <<context, images>> /\ pipeline'.launched = n
        /\ queue' \in {Dequeued("pipeline"), AllStarted(Dequeued("pipeline"))}
    BY <1>1, <1>3 DEF StageInitialized
  <2> HIDE DEF n
  <2>3. QueuesInv(There, Dequeued("pipeline"), n)
    BY <1>1, <2>1, DequeueKeepsOrder
  <2>4. ASSUME NEW q, QueuesInv(There, q, n), NEW k \in 1 .. 4
        PROVE  QueuesInv(There, StartPosted(q, k), n)
    <3>1. StageOrder[k] \in Stage
      BY DEF StageOrder, Stage
    <3>2. Is(Call(StageOrder[k], "start"), StageOrder[k], "start")
      BY <3>1, CallsMade
    <3>3. Launched(n) = Stage
      BY <1>1, <2>1, LaunchedIs
    <3>4. Call(StageOrder[k], "start") \in Justified(There) /\ Call(StageOrder[k], "start") \in Safe(n)
      BY <3>1, <3>2, <3>3 DEF Is, Justified, Safe, Stage
    <3> QED BY <1>1, <2>4, <3>4, PostedKeepsOrder DEF StartPosted
  <2>5. QueuesInv(There, AllStarted(Dequeued("pipeline")), n)
    BY <2>3, <2>4 DEF AllStarted
  <2>6. QueuesInv(There, queue', n)
    BY <2>2, <2>3, <2>5
  <2>7. images'.evaluating \subseteq images.evaluating
    BY <2>2
  <2> QED BY <2>2, <2>6, <2>7, CalmStart DEF n
<1> QED BY <1>2, <1>3 DEF PipelineThread

(* The worker thread answers the sink, which gave it the job.              *)
LEMMA WroteStart ==
    ASSUME TypeInv, StartInv, NEW op \in {"framesWritten", "lastWritten", "writeFailed"},
           NEW e \in Encoder, NEW k \in 0 .. Len(e.held),
           NEW job \in {"frames", "last"}, Calls("writer", job), Wrote(e, k, op)
    PROVE  StartInv'
<1> DEFINE n == pipeline.launched
           m == CallWith("sink", op, Sink!EntriesOut(e, k))
<1>1. /\ There \in SUBSET Stage /\ QueuesInv(There, queue, n) /\ n \in 0 .. 4
      /\ There \subseteq Launched(n) /\ "writer" \in Callee
  BY ThereIsLaunched DEF Callee
<1>2. "sink" \in There
  <2>1. Job("writer") \in Justified(There) /\ Job("writer").callee = "writer"
    BY <1>1, CalledIsThere DEF Calls, Job
  <2> QED BY <2>1 DEF Justified
<1>3. /\ queue' = Posted(Dequeued("writer"), m) /\ UNCHANGED <<context, pipeline, images>>
  BY DEF Wrote
<1>4. Is(m, "sink", op)
  BY EntriesOutTyped, CallsMade
<1> HIDE DEF m, n
<1>5. m \in Justified(There) /\ m \in Safe(n)
  BY <1>1, <1>2, <1>4 DEF Is, Justified, Safe
<1>6. QueuesInv(There, Dequeued("writer"), n)
  BY <1>1, DequeueKeepsOrder
<1>7. QueuesInv(There, Posted(Dequeued("writer"), m), n)
  BY <1>1, <1>5, <1>6, PostedKeepsOrder
<1>8. images'.evaluating \subseteq images.evaluating
  BY <1>3
<1> QED BY <1>3, <1>7, <1>8, CalmStart DEF n

(* So the jobs of the worker thread keep the order.                        *)
LEMMA WriterThreadStart ==
    ASSUME TypeInv, StartInv, WriterThread
    PROVE  StartInv'
<1>1. encoder \in Encoder /\ 0 \in 0 .. Len(encoder.held) /\ Len(encoder.held) \in 0 .. Len(encoder.held)
  BY DEF TypeInv, Encoder
<1>2. CASE WriteFrames
  <2> DEFINE e == Sink!TakenIn(encoder, Job("writer").load)
  <2>1. Calls("writer", "frames") /\ Wrote(e, Sink!EntriesReady(e), "framesWritten")
    BY <1>2 DEF WriteFrames
  <2>2. /\ Made("writer", "frames", Job("writer").amount, Job("writer").load)
        /\ Job("writer").load \in Seq(FrameType)
    BY <2>1, JobTyped DEF TypeInv, Callee
  <2>3. ~HasFlush(Job("writer").load)
    BY <2>2 DEF Made
  <2>4. e \in Encoder
    BY <1>1, <2>2, <2>3, TakenInIs
  <2> HIDE DEF e
  <2>5. Sink!EntriesReady(e) \in 0 .. Len(e.held)
    BY <2>4, EntriesReadyTyped
  <2> QED BY <2>1, <2>4, <2>5, WroteStart
<1>3. CASE WriteLastFrames
  BY <1>1, <1>3, WroteStart DEF WriteLastFrames
<1>4. CASE WriteRefused
  <2>1. Wrote(encoder, 0, "writeFailed") /\ encoder \in Encoder /\ 0 \in 0 .. Len(encoder.held)
    BY <1>1, <1>4 DEF WriteRefused
  <2>2. CASE Calls("writer", "frames")
    BY <2>1, <2>2, WroteStart
  <2>3. CASE Calls("writer", "last")
    BY <2>1, <2>3, WroteStart
  <2> QED BY <1>4, <2>2, <2>3 DEF WriteRefused
<1> QED BY <1>2, <1>3, <1>4 DEF WriterThread

(* The image processor answers those who asked.                            *)
LEMMA ImageProcessorStart ==
    ASSUME TypeInv, StartInv, ImageProcessor
    PROVE  StartInv'
<1> DEFINE n == pipeline.launched
<1>1. /\ There \in SUBSET Stage /\ QueuesInv(There, queue, n) /\ n \in 0 .. 4
      /\ There \subseteq Launched(n)
      /\ context.frame \in FrameContext(BOOLEAN, TRUE) /\ context.frame.eff = NoEffects
      /\ context.interframe \in InterContext(BOOLEAN, TRUE) /\ context.interframe.eff = NoEffects
  BY ThereIsLaunched, ContextsTyped
<1> HIDE DEF n
<1>2. ASSUME NEW s \in {"frame", "interframe"}, Compile(s)
      PROVE  StartInv'
  <2>1. UNCHANGED <<context, pipeline, queue>>
    BY <1>2 DEF Compile
  <2>2. images'.evaluating = images.evaluating
    <3>1. images \in ImagesType
      BY DEF TypeInv
    <3> QED BY <1>2, <3>1 DEF Compile, ImagesType
  <2> QED BY <1>1, <2>1, <2>2, CalmStart DEF n
<1>3. NumberOf("frame") \in Nat /\ NumberOf("interframe") \in Nat
  BY NumberOfTyped
<1>4. CASE FrameCompiled
  <2> DEFINE c == FrameStage!Compiled(context.frame, images.compiled.frame = "yes", NumberOf("frame"))
  <2>1. c \in FrameContext(BOOLEAN, TRUE)
    BY <1>1, <1>3, FrameStepsTyped
  <2>2. c.exists = context.frame.exists /\ c.waiting = context.frame.waiting /\ c.eff.calls \in Queues(ToPipeline)
    <3>1. \A b : LET d == FrameStage!Compiled(context.frame, b, NumberOf("frame"))
                  IN  /\ d.exists = context.frame.exists
                      /\ d.waiting = context.frame.waiting
                      /\ d.eff.calls \in Queues(ToPipeline)
      BY <1>1, CompiledPosts
    <3> QED BY <3>1
  <2>3. Continue("frame", c)
    BY <1>4 DEF FrameCompiled
  <2> HIDE DEF c
  <2> QED BY <2>1, <2>2, <2>3, ContinueStart
<1>5. CASE InterframeCompiled
  <2> DEFINE c == InterStage!Compiled(context.interframe, images.compiled.interframe = "yes",
                                      NumberOf("interframe"))
  <2>1. c \in InterContext(BOOLEAN, TRUE)
    BY <1>1, <1>3, InterCompiledTyped
  <2>2. /\ c.exists = context.interframe.exists /\ c.waiting = context.interframe.waiting
        /\ c.eff.calls \in Queues(ToPipeline)
    <3>1. \A b : LET d == InterStage!Compiled(context.interframe, b, NumberOf("interframe"))
                  IN  /\ d.exists = context.interframe.exists
                      /\ d.waiting = context.interframe.waiting
                      /\ d.eff.calls \in Queues(ToPipeline)
      BY <1>1, CompiledPosts
    <3> QED BY <3>1
  <2>3. Continue("interframe", c)
    BY <1>5 DEF InterframeCompiled
  <2> HIDE DEF c
  <2> QED BY <2>1, <2>2, <2>3, ContinueStart
<1>6. ASSUME NEW job \in images.evaluating, EvaluationDone(job)
      PROVE  StartInv'
  <2>1. PICK m \in AllCalls : /\ m.callee = job.stage /\ m.op \in {"evaluated", "failed"}
                              /\ queue' = Posted(queue, m)
    BY <1>6, EvaluationPosts
  <2>2. job.stage \in There /\ job.stage \in {"frame", "interframe"}
    BY DEF StartInv, TypeInv, ImagesType, Jobs
  <2>3. m \in Justified(There) /\ m \in Safe(n)
    BY <1>1, <2>1, <2>2 DEF Justified, Safe
  <2>4. QueuesInv(There, Posted(queue, m), n)
    BY <1>1, <2>3, PostedKeepsOrder
  <2>5. UNCHANGED <<context, pipeline>> /\ images'.evaluating \subseteq images.evaluating
    BY <1>6 DEF EvaluationDone, TypeInv, ImagesType
  <2> QED BY <2>1, <2>4, <2>5, CalmStart DEF n
<1> QED BY <1>2, <1>4, <1>5, <1>6 DEF ImageProcessor

(* Nobody is there before the launch.                                      *)
LEMMA StartInit ==
    ASSUME Init
    PROVE  StartInv
<1>1. TypeInv
  BY TypeInit
<1>2. There = {} /\ context.source.waiting = 0 /\ context.frame.waiting = 0 /\ context.interframe.waiting = 0
  BY DEF Init, There, Stage, Source!NoContext, FrameStage!NoContext, InterStage!NoContext, Sink!NoContext
<1>3. images.evaluating = {} /\ pipeline.launched = 0 /\ \A t \in Thread : queue[t] = <<>>
  BY DEF Init
<1>4. QueuesInv(There, queue, pipeline.launched)
  <2>1. Launched(0) = {}
    BY DEF Launched
  <2>2. \A s \in Stage : ThreadOf(s) \in Thread
    BY DEF Stage, ThreadOf, Thread
  <2>3. queue \in Queues(Justified(There))
    <3>1. queue = NoEffects.calls
      BY DEF Init, NoEffects
    <3>2. Justified(There) \in SUBSET AllCalls
      BY DEF Justified
    <3> QED BY <3>1, <3>2, QuietTyped DEF Effect
  <2>4. Ordered(There, queue)
    BY <1>3, <2>2 DEF Ordered, InOrder
  <2>5. Known(There, queue) = {}
    BY <1>2, <1>3, <2>2 DEF Known, HasInit
  <2> QED BY <1>3, <2>1, <2>3, <2>4, <2>5 DEF QueuesInv
<1> QED BY <1>2, <1>3, <1>4 DEF StartInv

(* Every step keeps the order.                                             *)
LEMMA StartStep ==
    ASSUME TypeInv, StartInv, [Next]_vars
    PROVE  StartInv'
<1>1. CASE UNCHANGED vars
  <2>1. There' = There /\ UNCHANGED <<context, queue, pipeline, images>>
    BY <1>1 DEF vars, There
  <2>2. QueuesInv(There, queue, pipeline.launched)'
    BY <2>1 DEF StartInv
  <2> QED BY <2>1, <2>2 DEF StartInv
<1>2. CASE PipelineThread
  BY <1>2, PipelineThreadStart
<1>3. CASE SourceThread
  BY <1>3, SourceThreadStart
<1>4. CASE ProcessorsThread
  BY <1>4, FrameStageStart, InterStageStart DEF ProcessorsThread
<1>5. CASE SinkThread
  BY <1>5, SinkThreadStart
<1>6. CASE WriterThread
  BY <1>6, WriterThreadStart
<1>7. CASE ImageProcessor
  BY <1>7, ImageProcessorStart
<1>8. CASE Terminated
  BY <1>1, <1>8 DEF Terminated
<1> QED BY <1>1, <1>2, <1>3, <1>4, <1>5, <1>6, <1>7, <1>8 DEF Next

(* It implies what the runs check.                                         *)
LEMMA StartInvFindsContext ==
    ASSUME StartInv
    PROVE  CallsFindContext
<1>1. \A s \in Stage : context[s].exists \/ InOrder(queue[ThreadOf(s)], s)
  BY DEF StartInv, QueuesInv, Ordered, There
<1> QED BY <1>1 DEF CallsFindContext, InOrder, Early

(* The calls between the stages are never lost: whatever fails and however *)
(* the threads interleave, when a stage is told to start, asked for        *)
(* frames, handed frames or given results, its init was posted to the same *)
(* queue before, so that it finds its context. The handlers would drop     *)
(* such a call silently. Only the frame size can come too early.           *)
THEOREM NoCallTooEarly == Spec => []CallsFindContext
<1>1. Init => TypeInv /\ StartInv
  BY TypeInit, StartInit
<1>2. TypeInv /\ StartInv /\ [Next]_vars => (TypeInv /\ StartInv)'
  BY TypeStep, StartStep
<1>3. TypeInv /\ StartInv => CallsFindContext
  BY StartInvFindsContext
<1> QED BY <1>1, <1>2, <1>3, PTL DEF Spec

===============================================================================
