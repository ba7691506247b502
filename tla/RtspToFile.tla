----------------------------- MODULE RtspToFile -----------------------------
(***************************************************************************)
(* The pipeline rtsp_to_file and its source sources::rtsp. The source was  *)
(* copied from sources::file and differs in how the stream is opened (the  *)
(* network is initialised first, av_read_play follows at the end), neither *)
(* of which shows in its calls: its handlers are those of FileSource. The  *)
(* pipeline differs in one callback: when the last stage has finished,     *)
(* there is no next stage to tell, and the user is not told either.        *)
(***************************************************************************)
EXTENDS DataHandler, Stages

CONSTANT MaxRead    \* m_max_frames_read_buffer

File == INSTANCE FileSource

-----------------------------------------------------------------------------
(* The source. What it reads comes from the network; it ends like a file,  *)
(* when the server closes the stream, or with an error.                    *)
NoContext == File!NoContext

Accepts(c) == File!Accepts(c)

Deliver(c, frames) == File!Deliver(c, frames)

Init(c, opened) == File!Init(c, opened)

Decoded(stream, loaded, count) == File!Decoded(stream, loaded, count)

Start(c, stream) == File!Start(c, stream)

Next(c, amount) == File!Next(c, amount)

-----------------------------------------------------------------------------
(* The callbacks of the pipeline: failed reaches the user, finished only   *)
(* the next stage.                                                         *)
Reported(result) == IF result = "finished" THEN "none" ELSE result

=============================================================================
