------------------------------- MODULE KMeans -------------------------------
(* k_means.cpp: the colours of an image are reduced to k. A chain of          *)
(* continuations repeats two passes over the image, each a tiling of its own: *)
(* determine_cluster gives every pixel the number of the centre it is nearest *)
(* to, calculate_cluster_means makes new centres of the pixels of each        *)
(* cluster. When the centres stand still, or after max_iterations, a third    *)
(* pass paints every pixel with the centre of its cluster.                    *)
(*                                                                            *)
(* That a tiling treats every pixel exactly once, whatever the order of its   *)
(* tiles, is shown by module Tiling; here a pass is one step. A grey pixel is *)
(* a point on the first axis. The numbers keep the widths of the code.        *)
EXTENDS Integers, FiniteSets, FiniteSetsExt

CONSTANTS Pixels,       \* of the image
          K,            \* number of clusters, a parameter of the script
          MaxIterations,
          Images,       \* a set of [type : {"gray", "rgb"}, data : [Pixels -> Point]]
          Starts,       \* the random centres, a set of [1 .. K -> Point]
          EpsValues     \* the eps of a script

Byte == 0 .. 255
Point == Byte \X Byte \X Byte
Black == <<0, 0, 0>>

IsImage(i) == /\ i.type \in {"gray", "rgb"}
              /\ i.data \in [Pixels -> Point]
              /\ i.type = "gray" => \A p \in Pixels : i.data[p][2] = 0 /\ i.data[p][3] = 0

ASSUME ParametersAssumption ==
    /\ K \in 1 .. 255
    /\ MaxIterations \in Nat \ {0}
    /\ EpsValues \subseteq 1 .. 441

ASSUME ImagesAssumption ==
    /\ IsFiniteSet(Pixels)
    /\ Starts \subseteq [1 .. K -> Point]
    /\ \A i \in Images : IsImage(i)

VARIABLES image,
          eps,
          iteration,
          old_centers,   \* the centres an iteration begins with
          centers,       \* the centres it has found
          clusters,      \* the number of the cluster of each pixel, from 1
          result,
          phase          \* the continuation that is next

vars == <<image, eps, iteration, old_centers, centers, clusters, result, phase>>

Clusters == 1 .. K
Phases == {"determine_cluster", "calculate_cluster_means", "create_result_image", "done"}
---------------------------------------------------------------------------
\* The whole part of a square root: the conversion of std::sqrt to an integer.
Root(n) == CHOOSE r \in 0 .. 441 : r * r <= n /\ \A s \in r + 1 .. 441 : n < s * s

Squares(a, b) == (a[1] - b[1]) * (a[1] - b[1])
                 + (a[2] - b[2]) * (a[2] - b[2])
                 + (a[3] - b[3]) * (a[3] - b[3])

\* distances[i] of the two determine_cluster functions: the grey one looks at
\* the first axis only, though the random centres have three.
Distance(type, a, b) == IF type = "gray" THEN IF a[1] < b[1] THEN b[1] - a[1] ELSE a[1] - b[1]
                                         ELSE Root(Squares(a, b))

\* How far a centre has moved, as std::uint8_t. Up to 441 are possible, and the
\* conversion of more than 255 is undefined; builds for x86 keep the low byte.
Moved(a, b) == Root(Squares(a, b)) % 256

\* A mutant: std::max_element.
FarthestClusterOf(type, point, cs) ==
    LET largest == Max({Distance(type, point, cs[i]) : i \in Clusters})
    IN  Min({i \in Clusters : Distance(type, point, cs[i]) = largest})

\* std::min_element finds the first of the smallest distances.
ClusterOf(type, point, cs) ==
    LET smallest == Min({Distance(type, point, cs[i]) : i \in Clusters})
    IN  Min({i \in Clusters : Distance(type, point, cs[i]) = smallest})

Members(i) == {p \in Pixels : clusters[p] = i}

\* The sum of the values, counted out: a pixel of value v counts v times.
SumOf(members, axis) ==
    Cardinality(UNION {{p} \X (1 .. image.data[p][axis]) : p \in members})

\* A mutant: one entry too many.
MeanOfOneMore(members, axis) == SumOf(members, axis) \div (Cardinality(members) + 1)

\* sum_histogram over the merged histograms: sum adds up each bin times its
\* entries, entries is the number of the pixels.
Mean(members, axis) ==
    IF members = {} THEN 0 ELSE SumOf(members, axis) \div Cardinality(members)

NewCenters == [i \in Clusters |->
    IF image.type = "gray"
    THEN <<Mean(Members(i), 1), 0, 0>>
    ELSE <<Mean(Members(i), 1), Mean(Members(i), 2), Mean(Members(i), 3)>>]

\* A mutant: the next iteration is created with the number of this one.
SameIteration == iteration

NextIteration == iteration + 1

\* A mutant: one centre that stands still is enough.
SomeCenterSteady(old, new) == \E i \in Clusters : Moved(old[i], new[i]) < (eps % 256)

\* eps is an std::int32_t in the script and an std::uint8_t here: 256 becomes 0,
\* and no distance is below it.
AllCentersSteady(old, new) == \A i \in Clusters : Moved(old[i], new[i]) < (eps % 256)
---------------------------------------------------------------------------
\* k_means_task::operator(): random centres on all three axes for both types.
Init == /\ image \in Images
        /\ eps \in EpsValues
        /\ iteration = 0
        /\ old_centers = [i \in Clusters |-> Black]
        /\ centers \in Starts
        /\ clusters = [p \in Pixels |-> 0]
        /\ result = [p \in Pixels |-> Black]
        /\ phase = "determine_cluster"

\* k_means_iteration_task::operator() and determine_cluster.
DetermineCluster ==
    /\ phase = "determine_cluster"
    /\ old_centers' = centers
    /\ clusters' = [p \in Pixels |-> ClusterOf(image.type, image.data[p], centers)]
    /\ phase' = "calculate_cluster_means"
    /\ UNCHANGED <<image, eps, iteration, centers, result>>

\* calculate_cluster_means and the continuation that compares the centres.
CalculateClusterMeans ==
    /\ phase = "calculate_cluster_means"
    /\ centers' = NewCenters
    /\ IF NextIteration >= MaxIterations \/ AllCentersSteady(old_centers, centers')
       THEN phase' = "create_result_image" /\ UNCHANGED iteration
       ELSE phase' = "determine_cluster" /\ iteration' = NextIteration
    /\ UNCHANGED <<image, eps, old_centers, clusters, result>>

\* A mutant: the centres the clusters were determined with.
OldCenterOf(p) == old_centers[clusters[p]]

\* centers.at(cluster_number) of the create_cluster_result functions.
CenterOf(p) == centers[clusters[p]]

CreateResultImage ==
    /\ phase = "create_result_image"
    /\ result' = [p \in Pixels |-> CenterOf(p)]
    /\ phase' = "done"
    /\ UNCHANGED <<image, eps, iteration, old_centers, centers, clusters>>

Next == DetermineCluster \/ CalculateClusterMeans \/ CreateResultImage

\* The pool runs whatever is pending, and what follows is run by its
\* continuation: while there is a next step, the phase changes at some time.
Continues == phase # "done" /\ phase' \in Phases \ {phase}

Spec == Init /\ [][Next]_vars /\ WF_phase(Continues)
---------------------------------------------------------------------------
TypeOK == /\ IsImage(image)
          /\ eps \in EpsValues
          /\ iteration \in 0 .. MaxIterations - 1
          /\ old_centers \in [Clusters -> Point]
          /\ centers \in [Clusters -> Point]
          /\ clusters \in [Pixels -> 0 .. K]
          /\ result \in [Pixels -> Point]
          /\ phase \in Phases

\* A pixel gets a colour between the darkest and the brightest of its cluster,
\* on each axis: the clusters are those of the last iteration, the centres the
\* ones made of them (k_means.cpp:754 hands new_centers to the painting), and
\* no empty or stale centre ever shows.
WithinItsCluster ==
    phase = "done" =>
        \A p \in Pixels : \A axis \in 1 .. 3 :
            /\ \E q \in Members(clusters[p]) : image.data[q][axis] <= result[p][axis]
            /\ \E q \in Members(clusters[p]) : image.data[q][axis] >= result[p][axis]

\* In a grey image a pixel that is not darker than another does not become so:
\* the nearest centres of two values cannot be in the wrong order, whichever
\* centres coincide or are equally near, and the means keep the order.
KeepsOrder ==
    phase = "done" /\ image.type = "gray" =>
        \A p, q \in Pixels :
            image.data[p][1] <= image.data[q][1] => result[p][1] <= result[q][1]

\* With an eps of 1 a grey image whose iterations end early is a fixed point:
\* painted with its own result for centres, every pixel keeps its cluster. It
\* is not so in the first iteration, where the random second and third
\* coordinates count as a movement, up to the 256 that becomes 0.
EarlyEndIsFixedPoint ==
    /\ phase \in {"create_result_image", "done"}
    /\ image.type = "gray" /\ eps = 1
    /\ iteration > 0 /\ iteration < MaxIterations - 1
    => \A p \in Pixels : clusters[p] = ClusterOf(image.type, image.data[p], centers)

\* The sum of the squared distances of the pixels to their centres.
Cost == MapThenSumSet(LAMBDA p : Squares(image.data[p], centers[clusters[p]]), Pixels)

\* No pass makes a grey image worse: determining the clusters anew never adds
\* to the squared distances, and new centres add less than one for each pixel,
\* as a mean is cut to its whole part.
NeverFarther ==
    [][image.type = "gray" /\ (iteration > 0 \/ phase = "calculate_cluster_means")
       => Cost' <= Cost + IF centers' = centers THEN 0 ELSE Cardinality(Pixels)]_<<centers, clusters>>
=============================================================================
