----------------------------- MODULE FileSource -----------------------------
(***************************************************************************)
(* sources::file, the first stage: it reads and decodes a video file and   *)
(* passes the images on as numbered frames.                                *)
(*                                                                         *)
(* The video is external: the number of its packets, how many images the   *)
(* first k of them decode to (a packet that the decoder only takes in, or  *)
(* cannot decode, adds none), and what av_read_frame returns after the     *)
(* last packet, "eof" or "error".                                          *)
(***************************************************************************)
EXTENDS DataHandler, Stages

CONSTANT MaxRead    \* m_max_frames_read_buffer

NoContext ==
    [exists |-> FALSE, opened |-> FALSE, sdh |-> EmptyHandler, waiting |-> 0,
     loaded |-> 0, processed |-> 0, eofReached |-> FALSE, eofFlushed |-> FALSE,
     eff |-> NoEffects]

-----------------------------------------------------------------------------
(* The callbacks of the handler. *)

Accepts(c) == c.waiting

Trigger(c) == Send(c, Call("source", "start"))

Deliver(c, frames) ==
    LET d == Send([c EXCEPT !.waiting = 0], CallWith("frame", "process", frames))
    IN  IF HasFlush(frames)
        THEN Send([d EXCEPT !.eofFlushed = TRUE], Call("frame", "finish"))
        ELSE Trigger(d)

Flush(c)         == TryFlush(c, MaxRead, Accepts, Deliver, Trigger)
AddAll(c, frames) == AddEntries(c, frames, MaxRead, Accepts, Deliver, Trigger)

-----------------------------------------------------------------------------
(* init: a video that cannot be opened leaves a context behind that cannot *)
(* be read from. Else the frame size is pushed down the pipeline.          *)
Init(c, opened) ==
    IF opened
    THEN Send(Send([c EXCEPT !.exists = TRUE, !.opened = TRUE],
                   Call("frame", "params")),
              Call("pipeline", "initialized"))
    ELSE Report([c EXCEPT !.exists = TRUE], "failed")

(* decode_packet, for the next count packets: how many images they give.   *)
Decoded(video, loaded, count) ==
    video.decoded[loaded + count] - video.decoded[loaded]

(* The frames made of the images <<k>> for k in from .. to - 1. *)
FramesOf(from, to) == {Frame(k, <<k>>) : k \in from .. to - 1}

(* start: read as many packets as the handler has places, number their     *)
(* images, and add the flush frame behind the last image. Reading from a   *)
(* context that was not opened is undefined: the process ends.             *)
Start(c, video) ==
    LET want   == Free(c.sdh, MaxRead)
        left   == video.packets - c.loaded
        count  == Min({want, left})
        ended  == want > left
        images == Decoded(video, c.loaded, count)
        read   == [c EXCEPT !.loaded = @ + count,
                            !.eofReached = ended /\ video.end = "eof"]
        added  == AddAll([read EXCEPT !.processed = @ + images],
                         FramesOf(c.processed, c.processed + images))
    IN  IF ~c.exists \/ c.eofReached \/ Full(c.sdh, MaxRead)
        THEN c
        ELSE IF ~c.opened
        THEN Report(c, "crashed")
        ELSE IF ended /\ video.end = "error"
        THEN Report(read, "failed")
        ELSE IF images = 0
        THEN read
        ELSE IF added.eofReached /\ ~added.eofFlushed
        THEN AddAll([added EXCEPT !.processed = @ + 1], {FlushFrame(added.processed)})
        ELSE added

(* next: the frame stage accepts up to amount frames. *)
Next(c, amount) ==
    IF c.exists THEN Flush([c EXCEPT !.waiting = amount]) ELSE c

=============================================================================
