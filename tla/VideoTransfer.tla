--------------------------- MODULE VideoTransfer ---------------------------
(***************************************************************************)
(* What the pipeline file_to_file promises to its user: a file that grows  *)
(* by one entry for every two successive images of the video, in their     *)
(* order and without gaps, and one result, after which, if it is           *)
(* "finished", the file does not change. The file is complete then up to   *)
(* the last batch: entries at the end may be missing, at most MaxMissing,  *)
(* since the sink drops what comes in one batch with the flush frame       *)
(* (sinks/file.cpp:442, see EveryPairWritten).                             *)
(*                                                                         *)
(* The k-th entry is made of the images k - 1 and k. An entry made of the  *)
(* image k - 1 alone is allowed: it is what the pipeline writes when the   *)
(* inter-frame stage evaluates too early (see PairsUseTheirScript).        *)
(***************************************************************************)
EXTENDS Integers, Sequences

CONSTANT MaxMissing

VARIABLES
    imageCount, \* how many images the video has
    file,       \* the entries of the file
    result      \* what the user was told: "none", "finished" or "failed"

Entries(k) == {<<k - 1>>, <<k - 1, k>>}

Init == imageCount \in Nat /\ file = <<>> /\ result = "none"

(* The new file has all entries of the old one, and the next ones behind.  *)
Extends(old, new) ==
    /\ Len(old) <= Len(new) /\ SubSeq(new, 1, Len(old)) = old
    /\ \A k \in Len(old) + 1 .. Len(new) : new[k] \in Entries(k)

WriteEntries ==
    /\ result # "finished"
    /\ Extends(file, file')
    /\ UNCHANGED <<imageCount, result>>

(* The last entries are written together with the result.                  *)
Finish ==
    /\ result = "none" /\ result' = "finished"
    /\ Extends(file, file')
    /\ Len(file') >= imageCount - 1 - MaxMissing
    /\ UNCHANGED imageCount

Fail ==
    /\ result = "none" /\ result' = "failed"
    /\ UNCHANGED <<imageCount, file>>

Next == WriteEntries \/ Finish \/ Fail

Spec == Init /\ [][Next]_<<imageCount, file, result>>

=============================================================================
