------------------------ MODULE MCStageDataHandler ------------------------
(* A stream of six numbers, two possible payloads for the middle one, so  *)
(* that it shows which entry was handed over, and room for two.            *)
EXTENDS StageDataHandler

MCEntry ==
    [number : {0, 1, 3, 4, 5}, image : {"a"}] \union [number : {2}, image : {"a", "b"}]

MCAmount == 0 .. 3

=============================================================================
