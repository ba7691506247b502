------------------------------ MODULE FileSink ------------------------------
(***************************************************************************)
(* sinks::file, the last stage: it encodes the frames on a worker thread   *)
(* of its own and writes the encoded entries to the file.                  *)
(*                                                                         *)
(* The encoder is external: it takes images in and gives entries out in    *)
(* the same order, keeping back the last Lookahead ones until it is        *)
(* drained. It refuses everything as long as it is not opened, which       *)
(* happens when the frame size arrives (params).                           *)
(***************************************************************************)
EXTENDS DataHandler, Stages

CONSTANTS
    MaxWrite,   \* m_max_frames_write_buffer
    Lookahead   \* images that the encoder keeps back

(* buffer is buffer.data as a set, written the images in the file.         *)
NoContext ==
    [exists |-> FALSE, sdh |-> EmptyHandler, prevFinished |-> FALSE,
     codecOpen |-> FALSE, buffer |-> {}, started |-> FALSE, nextEntry |-> 0,
     written |-> <<>>, finished |-> FALSE, eff |-> NoEffects]

-----------------------------------------------------------------------------
(* The callbacks of the handler. The sink accepts as much as its own queue *)
(* has room for.                                                           *)

Accepts(c) == Free(c.sdh, MaxWrite)

Trigger(c) == Send(c, CallNext("interframe", Free(c.sdh, MaxWrite)))

(* A batch with the flush frame makes the worker drain the encoder; the    *)
(* frames of that batch are not passed to it.                              *)
Deliver(c, frames) ==
    IF HasFlush(frames)
    THEN Send(c, Call("writer", "last"))
    ELSE Send(c, CallWith("writer", "frames", frames))

Flush(c)           == TryFlush(c, MaxWrite, Accepts, Deliver, Trigger)
AddAll(c, entries) == AddEntries(c, entries, MaxWrite, Accepts, Deliver, Trigger)

-----------------------------------------------------------------------------
Init(c) ==
    Flush(Send([c EXCEPT !.exists = TRUE], Call("pipeline", "initialized")))

(* params opens the encoder; it throws when the sink is not initialised    *)
(* yet, and the frame size is lost.                                        *)
Params(c) == IF c.exists THEN [c EXCEPT !.codecOpen = TRUE] ELSE c

Start(c) ==
    IF c.exists /\ ~c.prevFinished
    THEN Send(c, CallNext("interframe", Free(c.sdh, MaxWrite))) ELSE c

Process(c, frames) ==
    IF c.exists THEN AddAll(c, Range(frames)) ELSE c

-----------------------------------------------------------------------------
(* The worker thread. An encoder is a record: held are the images it keeps *)
(* back, received counts the entries it gave out (frames_received).        *)

NewEncoder == [held |-> <<>>, received |-> 0]

(* The first n held images come out as entries; the number of an entry is  *)
(* its id.                                                                 *)
EntriesOut(encoder, n) ==
    [i \in 1 .. n |-> Frame(encoder.received + i - 1, encoder.held[i])]

EncoderAfter(encoder, n) ==
    [held |-> SubSeq(encoder.held, n + 1, Len(encoder.held)),
     received |-> encoder.received + n]

(* write_frames_task: the encoder takes the images, flush frames left out. *)
TakenIn(encoder, frames) ==
    LET places == {i \in DOMAIN frames : ~IsFlush(frames[i])}
        place(k) == CHOOSE i \in places : Cardinality({j \in places : j <= i}) = k
    IN  [encoder EXCEPT !.held = @ \o [k \in 1 .. Cardinality(places) |->
                                           frames[place(k)].image]]

EntriesReady(encoder) == Max({0, Len(encoder.held) - Lookahead})

-----------------------------------------------------------------------------
(* try_flush_buffer: write the entries whose ids follow each other, from   *)
(* the smallest id of the first entries on.                                *)
FlushBuffer(c, entries) ==
    LET data  == c.buffer \union Range(entries)
        first == IF c.started \/ data = {} THEN c.nextEntry
                 ELSE IF c.buffer = {} THEN entries[1].number ELSE Min(NumbersOf(data))
        next  == Min((first .. first + Cardinality(data)) \ NumbersOf(data))
    IN  [c EXCEPT !.buffer = {e \in data : e.number \notin first .. next - 1},
                  !.started = @ \/ data # {},
                  !.nextEntry = next,
                  !.written = @ \o [i \in 1 .. next - first |->
                                        Numbered(data, first + i - 1).image]]

(* The callbacks of the two tasks, back on the thread of the sink. *)
FramesWrittenWithoutTrigger(c, entries) == FlushBuffer(c, entries)

FramesWritten(c, entries) == Trigger(FlushBuffer(c, entries))

(* A mutant: the callback forgets the entries that were kept back.         *)
LastWrittenUnflushed(c, entries) == Report([c EXCEPT !.finished = TRUE], "finished")

LastWritten(c, entries) ==
    Report([FlushBuffer(c, entries) EXCEPT !.finished = TRUE], "finished")

WriteFailed(c) == Report(c, "failed")

=============================================================================
