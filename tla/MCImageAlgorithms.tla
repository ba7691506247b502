------------------------- MODULE MCImageAlgorithms -------------------------
(* The two algorithms that chain passes of tasks, k_means and hog_image, on   *)
(* small images. A behaviour runs one of them, as the task of a script item   *)
(* does; the variables of the other keep their first values.                  *)
EXTENDS KMeans, Hog

VARIABLE algorithm   \* the one that runs

all_vars == <<algorithm, vars, hog_vars>>
---------------------------------------------------------------------------
MCPixels == 1 .. 4

Levels == {0, 4, 5, 255}
Colours == {<<0, 0, 0>>, <<9, 7, 1>>, <<20, 3, 9>>}

\* The order of the pixels makes no difference: the images are sorted.
InOrder(data) == \A p \in 1 .. 3 : data[p][1] <= data[p + 1][1]

MCImages ==
    {[type |-> "gray", data |-> d] : d \in {e \in [MCPixels -> {<<v, 0, 0>> : v \in Levels}] : InOrder(e)}}
    \cup {[type |-> "rgb", data |-> d] : d \in {e \in [MCPixels -> Colours] : InOrder(e)}}

\* Random centres that are equal, near, far, and 256 away from black.
MCStarts == [1 .. K -> {<<0, 0, 0>>, <<4, 0, 0>>, <<5, 20, 10>>, <<255, 7, 0>>, <<0, 181, 182>>}]

\* 256 is 0 as an std::uint8_t.
MCEpsValues == {1, 200, 256}

\* Images smaller than a cell, of whole cells, and with pixels left over.
MCSizes == {<<1, 2>>, <<4, 2>>, <<5, 3>>, <<7, 5>>, <<9, 5>>, <<6, 8>>}
---------------------------------------------------------------------------
AlgorithmIs(a) == algorithm = a /\ UNCHANGED algorithm

MCInit == \/ /\ algorithm = "k_means"
             /\ width = 1 /\ height = 2
             /\ Init /\ HogInit
          \/ /\ algorithm = "hog_image"
             /\ image = [type |-> "gray", data |-> [p \in Pixels |-> Black]]
             /\ centers = [i \in Clusters |-> Black]
             /\ eps = 1
             /\ Init /\ HogInit

MCNext == \/ AlgorithmIs("k_means") /\ Next /\ UNCHANGED hog_vars
          \/ AlgorithmIs("hog_image") /\ HogNext /\ UNCHANGED vars

\* The fairness of the two, each for the behaviours that are its own.
MCSpec ==
    /\ MCInit /\ [][MCNext]_all_vars
    /\ WF_phase(algorithm = "k_means" /\ Continues)
    /\ WF_hog_vars(algorithm = "hog_image" /\ HogNext)

\* The result comes in the end: k_means runs max_iterations at most, whatever
\* the eps of the script has become, and every task of hog_image gets the
\* results of its parts. An image narrower than a cell gives no result.
ResultIsSet ==
    <>(IF algorithm = "k_means" THEN phase = "done"
                                ELSE tree = "done" \/ width < CellDimension)
=============================================================================
