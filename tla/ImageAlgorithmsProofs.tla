----------------------- MODULE ImageAlgorithmsProofs -----------------------
(* The proofs about the two algorithms that chain passes of tasks, k_means    *)
(* and hog_image. Part 1 is about KMeans, part 2 about Hog.                   *)
EXTENDS KMeans, Hog, FiniteSetTheorems, SequenceTheorems, WellFoundedInduction, TLAPS

-----------------------------------------------------------------------------
(* Part 1: k_means.                                                           *)
(*                                                                            *)
(* For every image, every number of clusters and all random centres: the      *)
(* means of k_means are bytes, pixels get a colour of their cluster, a grey   *)
(* image keeps the order of its pixels, and its early end with an eps of 1 is *)
(* a fixed point.                                                             *)

\* A non-empty set of numbers has a smallest element, and Min is it.
LEMMA SmallestNumber ==
    ASSUME NEW S \in SUBSET Nat, S # {}
    PROVE  Min(S) \in S /\ \A y \in S : Min(S) <= y
<1> DEFINE Below == {ss \in Nat \X Nat : ss[1] < ss[2]}
<1>1. IsWellFoundedOn(Below, Nat)
  BY NatLessThanWellFounded DEF OpToRel
<1>2. PICK x \in S : \A y \in S : ~ (<<y, x>> \in Below)
  BY <1>1, WFMin
<1>3. ASSUME NEW y \in S PROVE x <= y
  <2>1. <<y, x>> \notin Below
    BY <1>2
  <2>2. x \in Nat /\ y \in Nat
    OBVIOUS
  <2> HIDE DEF Below
  <2>3. <<y, x>> \in Below <=> y < x
    BY <2>2 DEF Below
  <2> QED  BY <2>1, <2>2, <2>3
<1> QED  BY <1>3 DEF Min

\* Up to 255 * 255.
ByteSquares == {q \in Nat : q <= 65025}

\* The square of the difference of two bytes.
LEMMA SquareOfDifference ==
    ASSUME NEW c \in Byte, NEW d \in Byte
    PROVE  /\ (c - d) * (c - d) \in ByteSquares
           /\ c = d => (c - d) * (c - d) = 0
           /\ (c - d) * (c - d) < 1 => c = d
<1> DEFINE e == c - d
<1>1. e \in Int /\ -255 <= e /\ e <= 255 /\ (e = 0 <=> c = d)
  BY DEF Byte
<1>2. (c - d) * (c - d) = e * e
  OBVIOUS
<1> HIDE DEF e
<1>3. e * e >= 0
  BY <1>1, SMTT(10)
<1>4. (255 - e) * (255 + e) >= 0
  BY <1>1, SMTT(10)
<1>5. (255 - e) * (255 + e) = 65025 - e * e
  BY <1>1, SMTT(10)
<1>6. e * e \in ByteSquares
  <2> DEFINE q == e * e
             r == (255 - e) * (255 + e)
  <2>1. q \in Int /\ r \in Int
    BY <1>1
  <2>2. q >= 0 /\ r >= 0 /\ r = 65025 - q
    BY <1>3, <1>4, <1>5
  <2> HIDE DEF q, r
  <2>3. q \in ByteSquares
    BY <2>1, <2>2 DEF ByteSquares
  <2> QED  BY <2>3 DEF q
<1>7. c = d => e * e = 0
  BY <1>1, SMTT(10)
<1>8. e * e < 1 => c = d
  BY <1>1, SMTT(10)
<1> QED  BY <1>2, <1>6, <1>7, <1>8, Zenon

\* Every number has a root among the numbers Root chooses from: the largest one
\* whose square it reaches.
LEMMA RootIsLargest ==
    ASSUME NEW n \in Nat
    PROVE  /\ Root(n) \in 0 .. 441
           /\ Root(n) * Root(n) <= n
           /\ \A s \in Root(n) + 1 .. 441 : n < s * s
<1> DEFINE Rests == {t \in 0 .. 441 : (441 - t) * (441 - t) <= n}
<1>1. 441 \in Rests /\ Rests \in SUBSET Nat
  BY SMTT(10)
<1>2. PICK t \in Rests : \A u \in Rests : t <= u
  <2> HIDE DEF Rests
  <2>1. Rests # {}
    BY <1>1
  <2>2. Min(Rests) \in Rests /\ \A u \in Rests : Min(Rests) <= u
    BY <1>1, <2>1, SmallestNumber, Zenon
  <2> QED  BY <2>2, Zenon
<1> DEFINE r == 441 - t
<1>3. r \in 0 .. 441 /\ r * r <= n
  BY <1>2
<1>4. ASSUME NEW s \in r + 1 .. 441 PROVE n < s * s
  <2>1. 441 - s \in 0 .. 441 /\ 441 - s < t /\ 441 - (441 - s) = s
    BY <1>2
  <2>2. 441 - s \notin Rests
    <3> HIDE DEF Rests
    <3> QED  BY <1>1, <1>2, <2>1
  <2>3. ~ (s * s <= n)
    BY <2>1, <2>2
  <2>4. s \in Int /\ s * s \in Int
    BY <1>3
  <2> QED  BY <2>3, <2>4
<1> HIDE DEF r, Rests
<1> QED  BY <1>3, <1>4, ZenonT(40) DEF Root

LEMMA ByteSquaresAreNaturals == ByteSquares \subseteq Nat
  BY SMTT(10) DEF ByteSquares

LEMMA SumOfThree ==
    ASSUME NEW u \in ByteSquares, NEW v \in ByteSquares, NEW w \in ByteSquares
    PROVE  /\ u + v + w \in Nat
           /\ v = 0 /\ w = 0 => u + v + w \in ByteSquares
           /\ u + v + w < 1 => u < 1
<1>1. u \in Nat /\ v \in Nat /\ w \in Nat
  BY ByteSquaresAreNaturals, Zenon
<1>2. u + v + w \in Nat /\ (u + v + w < 1 => u < 1)
  BY <1>1
<1>3. v = 0 /\ w = 0 => u + v + w = u
  BY <1>1
<1> QED  BY <1>2, <1>3, Zenon

\* The squares of the distances of points: no sum is negative, and on one axis
\* none is above 255 * 255.
LEMMA SquaresOfPoints ==
    ASSUME NEW a \in Point, NEW b \in Point
    PROVE  /\ Squares(a, b) \in Nat
           /\ a[2] = b[2] /\ a[3] = b[3] => Squares(a, b) \in ByteSquares
           /\ Squares(a, b) < 1 => a[1] = b[1]
<1>1. /\ a[1] \in Byte /\ a[2] \in Byte /\ a[3] \in Byte
      /\ b[1] \in Byte /\ b[2] \in Byte /\ b[3] \in Byte
  BY DEF Point
<1>2. /\ (a[1] - b[1]) * (a[1] - b[1]) \in ByteSquares
      /\ (a[1] - b[1]) * (a[1] - b[1]) < 1 => a[1] = b[1]
  BY <1>1, SquareOfDifference, Zenon
<1>3. /\ (a[2] - b[2]) * (a[2] - b[2]) \in ByteSquares
      /\ a[2] = b[2] => (a[2] - b[2]) * (a[2] - b[2]) = 0
  BY <1>1, SquareOfDifference, Zenon
<1>4. /\ (a[3] - b[3]) * (a[3] - b[3]) \in ByteSquares
      /\ a[3] = b[3] => (a[3] - b[3]) * (a[3] - b[3]) = 0
  BY <1>1, SquareOfDifference, Zenon
<1> QED  BY <1>2, <1>3, <1>4, SumOfThree, Zenon DEF Squares

LEMMA DistanceIsNatural ==
    ASSUME NEW type, NEW a \in Point, NEW b \in Point
    PROVE  Distance(type, a, b) \in Nat
<1>1. a[1] \in Byte /\ b[1] \in Byte
  BY DEF Point
<1>2. Squares(a, b) \in Nat
  BY SquaresOfPoints
<1>3. Root(Squares(a, b)) \in 0 .. 441
  BY <1>2, RootIsLargest, Zenon
<1> DEFINE low == a[1]
           high == b[1]
           root == Root(Squares(a, b))
<1>4. Distance(type, a, b) = IF type = "gray"
                             THEN IF low < high THEN high - low ELSE low - high
                             ELSE root
  BY Zenon DEF Distance
<1> HIDE DEF low, high, root
<1>5. low \in Byte /\ high \in Byte /\ root \in 0 .. 441
  BY <1>1, <1>3, Zenon DEF low, high, root
<1> QED  BY <1>4, <1>5 DEF Byte

\* The cluster is the first one of those whose centres are nearest.
LEMMA ClusterOfIsNearest ==
    ASSUME NEW type, NEW point \in Point, NEW cs \in [Clusters -> Point]
    PROVE  /\ ClusterOf(type, point, cs) \in Clusters
           /\ \A i \in Clusters :
                  /\ Distance(type, point, cs[ClusterOf(type, point, cs)])
                     <= Distance(type, point, cs[i])
                  /\ i < ClusterOf(type, point, cs)
                     => Distance(type, point, cs[ClusterOf(type, point, cs)])
                        # Distance(type, point, cs[i])
<1> DEFINE distance(i) == Distance(type, point, cs[i])
           distances == {distance(i) : i \in Clusters}
           nearest == {i \in Clusters : distance(i) = Min(distances)}
           first == ClusterOf(type, point, cs)
<1>1. distances \in SUBSET Nat /\ distances # {}
  <2>1. 1 \in Clusters
    BY ParametersAssumption DEF Clusters
  <2>2. \A i \in Clusters : distance(i) \in Nat
    BY DistanceIsNatural
  <2> QED  BY <2>1, <2>2
<1>2. Min(distances) \in distances /\ \A y \in distances : Min(distances) <= y
  <2> HIDE DEF distances
  <2> QED  BY <1>1, SmallestNumber, Zenon
<1>3. nearest \in SUBSET Nat /\ nearest # {}
  <2>1. PICK i \in Clusters : distance(i) = Min(distances)
    BY <1>2, Zenon
  <2>2. nearest # {}
    BY <2>1, Zenon
  <2>3. Clusters \subseteq Nat
    BY ParametersAssumption DEF Clusters
  <2> QED  BY <2>2, <2>3, Zenon
<1>4. Min(nearest) \in nearest /\ \A y \in nearest : Min(nearest) <= y
  <2> HIDE DEF nearest
  <2> QED  BY <1>3, SmallestNumber, Zenon
<1>5. first = Min(nearest)
  BY Zenon DEF ClusterOf
<1>6. first \in Clusters /\ distance(first) = Min(distances)
  BY <1>4, <1>5, Zenon
<1>7. ASSUME NEW i \in Clusters
      PROVE  /\ distance(first) <= distance(i)
             /\ i < first => distance(first) # distance(i)
  <2>1. distance(first) <= distance(i)
    BY <1>2, <1>6, Zenon
  <2>2. distance(first) = distance(i) => first <= i
    <3>1. distance(first) = distance(i) => i \in nearest
      BY <1>6, Zenon
    <3> QED  BY <1>4, <1>5, <3>1, Zenon
  <2>3. i \in Int /\ first \in Int
    BY <1>6 DEF Clusters
  <2> HIDE DEF distance, first
  <2> QED  BY <2>1, <2>2, <2>3
<1> QED  BY <1>6, <1>7, Zenon

LEMMA ClusterOfIsCluster ==
    ASSUME NEW type, NEW point \in Point, NEW cs \in [Clusters -> Point]
    PROVE  ClusterOf(type, point, cs) \in Clusters
  BY ClusterOfIsNearest, Zenon

\* The mean of m bytes is a byte.
LEMMA QuotientIsByte ==
    ASSUME NEW sum \in Nat, NEW m \in Nat, m # 0, sum <= m * 255
    PROVE  sum \div m \in Byte
<1> DEFINE q == sum \div m
<1>1. q \in Int /\ m * q <= sum /\ sum < m * q + m
  BY SMTT(10)
<1> HIDE DEF q
<1>2. q >= 0
  <2> SUFFICES ASSUME q <= -1 PROVE FALSE
    BY <1>1
  <2>1. m * q <= m * (-1)
    BY <1>1, SMTT(10)
  <2> QED  BY <1>1, <2>1, SMTT(10)
<1>3. q <= 255
  <2> SUFFICES ASSUME q >= 256 PROVE FALSE
    BY <1>1
  <2>1. m * q >= m * 256
    BY <1>1, SMTT(10)
  <2> QED  BY <1>1, <2>1, SMTT(10)
<1> QED  BY <1>1, <1>2, <1>3 DEF q, Byte

LEMMA MeanIsByte ==
    ASSUME IsImage(image), NEW members \in SUBSET Pixels, NEW axis \in 1 .. 3
    PROVE  Mean(members, axis) \in Byte
<1> DEFINE n == Cardinality(members)
           counted == UNION {{p} \X (1 .. image.data[p][axis]) : p \in members}
<1>1. \A p \in Pixels : image.data[p][axis] \in Byte
  BY DEF IsImage, Point
<1>2. counted \subseteq members \X (1 .. 255)
  <2>1. \A p \in members : 1 .. image.data[p][axis] \subseteq 1 .. 255
    BY <1>1, SMTT(40) DEF Byte
  <2>2. \A p \in members : {p} \X (1 .. image.data[p][axis]) \subseteq members \X (1 .. 255)
    BY <2>1, SMTT(40)
  <2> QED  BY <2>2, SMTT(40)
<1>3. IsFiniteSet(members) /\ n \in Nat
  BY ImagesAssumption, FS_Subset, FS_CardinalityType
<1>4. IsFiniteSet(1 .. 255) /\ Cardinality(1 .. 255) = 255
  <2>1. 1 \in Int /\ 255 \in Int /\ 255 - 1 + 1 = 255 /\ ~ (1 > 255)
    OBVIOUS
  <2>2. /\ IsFiniteSet(1 .. 255)
        /\ Cardinality(1 .. 255) = IF 1 > 255 THEN 0 ELSE 255 - 1 + 1
    BY <2>1, FS_Interval, ZenonT(40)
  <2> QED  BY <2>1, <2>2, ZenonT(40)
<1>5. IsFiniteSet(members \X (1 .. 255)) /\ Cardinality(members \X (1 .. 255)) = n * 255
  BY <1>3, <1>4, FS_Product
<1>6. IsFiniteSet(counted) /\ Cardinality(counted) <= n * 255
  <2> DEFINE all == members \X (1 .. 255)
  <2>1. IsFiniteSet(all) /\ Cardinality(all) = n * 255 /\ counted \in SUBSET all
    BY <1>2, <1>5, Zenon
  <2> HIDE DEF counted, n, all
  <2>2. IsFiniteSet(counted) /\ Cardinality(counted) <= Cardinality(all)
    BY <2>1, FS_Subset, ZenonT(30)
  <2> QED  BY <2>1, <2>2, Zenon
<1>7. members # {} => n # 0
  BY <1>3, FS_EmptySet
<1>8. SumOf(members, axis) = Cardinality(counted)
  BY Zenon DEF SumOf
<1>9. Cardinality(counted) \in Nat
  <2> HIDE DEF counted
  <2> QED  BY <1>6, FS_CardinalityType
<1> DEFINE sum == SumOf(members, axis)
<1>10. sum \in Nat /\ sum <= n * 255
  BY <1>6, <1>8, <1>9, Zenon
<1> HIDE DEF sum, n, counted
<1>11. members # {} => sum \div n \in Byte
  BY <1>3, <1>7, <1>10, QuotientIsByte
<1>12. CASE members = {}
  BY <1>12 DEF Mean, Byte
<1>13. CASE members # {}
  BY <1>11, <1>13, Zenon DEF Mean, sum, n
<1> QED  BY <1>12, <1>13

\* m values above q are together more than m * q, m values below q fewer.
LEMMA QuotientIsBetween ==
    ASSUME NEW sum \in Nat, NEW m \in Nat, m # 0
    PROVE  /\ sum \div m \in Nat
           /\ sum < m * (sum \div m + 1)
           /\ sum \div m > 0 => sum > m * (sum \div m - 1)
<1> DEFINE q == sum \div m
<1>1. q \in Int /\ m * q <= sum /\ sum < m * q + m
  BY SMTT(10)
<1> HIDE DEF q
<1>2. q >= 0
  <2> SUFFICES ASSUME q <= -1 PROVE FALSE
    BY <1>1
  <2>1. m * q <= m * (-1)
    BY <1>1, SMTT(10)
  <2> QED  BY <1>1, <2>1, SMTT(10)
<1>3. m * (q + 1) = m * q + m /\ m * (q - 1) = m * q - m
  BY <1>1, SMTT(10)
<1>4. m * q \in Int
  BY <1>1
<1> QED  BY <1>1, <1>2, <1>3, <1>4 DEF q

\* A mean lies between values it is the mean of.
LEMMA MeanIsBetween ==
    ASSUME IsImage(image), NEW members \in SUBSET Pixels, members # {}, NEW axis \in 1 .. 3
    PROVE  /\ \E q \in members : image.data[q][axis] <= Mean(members, axis)
           /\ \E q \in members : image.data[q][axis] >= Mean(members, axis)
<1> DEFINE n == Cardinality(members)
           value(p) == image.data[p][axis]
           counted == UNION {{p} \X (1 .. value(p)) : p \in members}
           sum == SumOf(members, axis)
           mean == Mean(members, axis)
<1>1. \A p \in members : value(p) \in Nat /\ value(p) <= 255
  <2>1. \A p \in members : value(p) \in Byte
    BY DEF IsImage, Point
  <2> HIDE DEF value
  <2> QED  BY <2>1 DEF Byte
<1>2. IsFiniteSet(members) /\ n \in Nat /\ n # 0
  BY ImagesAssumption, FS_Subset, FS_CardinalityType, FS_EmptySet
<1>3. sum = Cardinality(counted) /\ mean = sum \div n
  BY Zenon DEF SumOf, Mean
\* The cardinality of as many times v as there are members.
<1>4. ASSUME NEW v \in Nat
      PROVE  IsFiniteSet(members \X (1 .. v)) /\ Cardinality(members \X (1 .. v)) = n * v
  <2>1. IsFiniteSet(1 .. v) /\ Cardinality(1 .. v) = v
    BY FS_Interval
  <2> QED  BY <1>2, <2>1, FS_Product
<1>5. IsFiniteSet(counted) /\ sum \in Nat
  <2>1. counted \subseteq members \X (1 .. 255)
    <3> HIDE DEF value
    <3> QED  BY <1>1
  <2>2. IsFiniteSet(members \X (1 .. 255))
    <3>1. 255 \in Nat
      OBVIOUS
    <3> QED  BY <1>4, <3>1, Zenon
  <2> HIDE DEF counted, sum
  <2> QED  BY <1>3, <2>1, <2>2, FS_Subset, FS_CardinalityType, Zenon
<1>6. mean \in Nat /\ sum < n * (mean + 1) /\ (mean > 0 => sum > n * (mean - 1))
  <2> HIDE DEF n, sum, mean
  <2> QED  BY <1>2, <1>3, <1>5, QuotientIsBetween, Zenon
<1>7. \E q \in members : value(q) <= mean
  <2> SUFFICES ASSUME \A q \in members : ~ (value(q) <= mean) PROVE FALSE
    BY Zenon
  <2>1. members \X (1 .. mean + 1) \subseteq counted
    <3>1. ASSUME NEW p \in members, NEW i \in 1 .. mean + 1 PROVE <<p, i>> \in counted
      <4>1. i \in 1 .. value(p)
        <5> HIDE DEF mean, value
        <5> QED  BY <1>1, <1>6
      <4> QED  BY <4>1
    <3> HIDE DEF counted, mean
    <3> QED  BY <3>1
  <2>2. n * (mean + 1) <= sum
    <3> HIDE DEF counted, mean, n, sum
    <3>1. mean + 1 \in Nat
      BY <1>6
    <3>2. Cardinality(members \X (1 .. mean + 1)) <= Cardinality(counted)
      BY <1>5, <2>1, FS_Subset, Zenon
    <3> QED  BY <1>3, <1>4, <3>1, <3>2, Zenon
  <2> HIDE DEF mean, n, sum
  <2>3. n * (mean + 1) \in Int
    BY <1>2, <1>6
  <2> QED  BY <1>5, <1>6, <2>2, <2>3
<1>8. \E q \in members : value(q) >= mean
  <2> SUFFICES ASSUME \A q \in members : ~ (value(q) >= mean) PROVE FALSE
    BY Zenon
  <2>1. mean > 0
    <3>1. PICK q \in members : TRUE
      OBVIOUS
    <3> HIDE DEF mean, value
    <3> QED  BY <1>1, <1>6, <3>1
  <2>2. mean - 1 \in Nat
    <3> HIDE DEF mean
    <3> QED  BY <1>6, <2>1
  <2>3. counted \subseteq members \X (1 .. mean - 1)
    <3>1. ASSUME NEW p \in members, NEW i \in 1 .. value(p) PROVE i \in 1 .. mean - 1
      <4> HIDE DEF mean, value
      <4> QED  BY <1>1, <1>6
    <3> HIDE DEF mean, value
    <3> QED  BY <3>1
  <2>4. sum <= n * (mean - 1)
    <3> HIDE DEF counted, mean, n, sum
    <3>1. Cardinality(counted) <= Cardinality(members \X (1 .. mean - 1))
      BY <1>4, <2>2, <2>3, FS_Subset, Zenon
    <3> QED  BY <1>3, <1>4, <2>2, <3>1, Zenon
  <2> HIDE DEF mean, n, sum
  <2>5. n * (mean - 1) \in Int
    BY <1>2, <2>2
  <2> QED  BY <1>5, <1>6, <2>1, <2>4, <2>5
<1> QED  BY <1>7, <1>8, Zenon

\* On an axis of their own, points that do not move by one are the same: the
\* distance is below 256, so that its low byte is the distance.
LEMMA SteadyIsEqual ==
    ASSUME NEW a \in Point, NEW b \in Point, a[2] = b[2], a[3] = b[3], Moved(a, b) < 1 % 256
    PROVE  a = b
<1> DEFINE n == Squares(a, b)
           r == Root(n)
<1>1. n \in Nat /\ n \in ByteSquares
  BY SquaresOfPoints, Zenon
<1>2. r \in 0 .. 441 /\ r * r <= n /\ \A s \in r + 1 .. 441 : n < s * s
  BY <1>1, RootIsLargest, ZenonT(40)
<1>3. r % 256 < 1 % 256
  BY Zenon DEF Moved
<1>4. n < 1 => a[1] = b[1]
  BY SquaresOfPoints, Zenon
<1> HIDE DEF n, r
<1>5. n <= 65025
  BY <1>1 DEF ByteSquares
<1>6. r <= 255
  <2> SUFFICES ASSUME r >= 256 PROVE FALSE
    BY <1>2
  <2>1. r * r >= 256 * r
    BY <1>2, SMTT(10)
  <2> QED  BY <1>1, <1>2, <1>5, <2>1, SMTT(10)
<1>7. r = 0
  BY <1>2, <1>3, <1>6
<1>8. n < 1 * 1
  BY <1>2, <1>7
<1>9. a[1] = b[1]
  BY <1>1, <1>4, <1>8
<1> QED  BY <1>9 DEF Point
---------------------------------------------------------------------------
OnFirstAxis(cs) == \A i \in Clusters : cs[i][2] = 0 /\ cs[i][3] = 0

\* The means of a grey image lie on the first axis, unlike the random centres.
GrayMeans ==
    image.type = "gray" =>
        /\ iteration > 0 \/ phase \in {"create_result_image", "done"} => OnFirstAxis(centers)
        /\ iteration > 0 /\ phase # "determine_cluster" => OnFirstAxis(old_centers)

\* The clusters are those of the centres an iteration began with.
ClustersOfOldCenters ==
    phase # "determine_cluster" =>
        clusters = [p \in Pixels |-> ClusterOf(image.type, image.data[p], old_centers)]

\* Only centres that stand still end the iterations early.
EndsSteady ==
    phase \in {"create_result_image", "done"} /\ iteration < MaxIterations - 1 =>
        AllCentersSteady(old_centers, centers)

\* What is painted are the means of the last clusters.
PaintsMeans ==
    /\ phase \in {"create_result_image", "done"} => centers = NewCenters
    /\ phase = "done" => result = [p \in Pixels |-> centers[clusters[p]]]

MeansInv == TypeOK /\ GrayMeans /\ ClustersOfOldCenters /\ EndsSteady /\ PaintsMeans

\* NewCenters is made of the image and the clusters only.
LEMMA NewCentersOfImageAndClusters ==
    ASSUME image' = image, clusters' = clusters
    PROVE  NewCenters' = NewCenters
<1>1. \A i : Members(i)' = Members(i)
  BY Zenon DEF Members
<1>2. \A members, axis : SumOf(members, axis)' = SumOf(members, axis)
  BY Zenon DEF SumOf
<1>3. \A members, axis : Mean(members, axis)' = Mean(members, axis)
  BY <1>2, Zenon DEF Mean
<1> QED  BY <1>1, <1>3, Zenon DEF NewCenters, Clusters

LEMMA InitEstablishesInvariant == Init => MeansInv
<1> SUFFICES ASSUME Init PROVE MeansInv
  OBVIOUS
<1>1. TypeOK
  <2>1. Black \in Point
    BY DEF Black, Point, Byte
  <2>2. image \in Images /\ IsImage(image) /\ eps \in EpsValues
    BY ImagesAssumption DEF Init
  <2>3. iteration \in 0 .. MaxIterations - 1
    BY ParametersAssumption DEF Init
  <2>4. old_centers \in [Clusters -> Point] /\ centers \in [Clusters -> Point]
    BY <2>1, ImagesAssumption DEF Init, Clusters
  <2>5. clusters \in [Pixels -> 0 .. K] /\ result \in [Pixels -> Point]
    BY <2>1, ParametersAssumption DEF Init
  <2>6. phase \in Phases
    BY DEF Init, Phases
  <2> QED  BY <2>2, <2>3, <2>4, <2>5, <2>6, Zenon DEF TypeOK
<1>2. GrayMeans /\ ClustersOfOldCenters /\ EndsSteady /\ PaintsMeans
  BY DEF Init, GrayMeans, ClustersOfOldCenters, EndsSteady, PaintsMeans
<1> QED  BY <1>1, <1>2 DEF MeansInv

\* The new centres are points, and those of a grey image on the first axis.
LEMMA NewCentersArePoints ==
    ASSUME IsImage(image)
    PROVE  /\ NewCenters \in [Clusters -> Point]
           /\ image.type = "gray" => OnFirstAxis(NewCenters)
<1>1. ASSUME NEW i \in Clusters
      PROVE  /\ Mean(Members(i), 1) \in Byte
             /\ Mean(Members(i), 2) \in Byte
             /\ Mean(Members(i), 3) \in Byte
  <2>1. Members(i) \in SUBSET Pixels
    BY DEF Members
  <2>2. 1 \in 1 .. 3 /\ 2 \in 1 .. 3 /\ 3 \in 1 .. 3
    OBVIOUS
  <2> QED  BY <2>1, <2>2, MeanIsByte, Zenon
<1>2. 0 \in Byte
  BY DEF Byte
<1> QED  BY <1>1, <1>2 DEF NewCenters, Point, OnFirstAxis

LEMMA StepKeepsInvariant == MeansInv /\ [Next]_vars => MeansInv'
<1> SUFFICES ASSUME MeansInv, [Next]_vars PROVE MeansInv'
  OBVIOUS
<1>1. CASE DetermineCluster
  <2>1. /\ image' = image /\ eps' = eps /\ iteration' = iteration
        /\ centers' = centers /\ result' = result /\ old_centers' = centers
        /\ phase' = "calculate_cluster_means"
    BY <1>1, Zenon DEF DetermineCluster
  <2>2. clusters' = [p \in Pixels |-> ClusterOf(image.type, image.data[p], centers)]
    BY <1>1, Zenon DEF DetermineCluster
  <2>3. \A p \in Pixels : ClusterOf(image.type, image.data[p], centers) \in 0 .. K
    <3>1. \A p \in Pixels : image.data[p] \in Point
      BY DEF MeansInv, TypeOK, IsImage
    <3>2. centers \in [Clusters -> Point]
      BY DEF MeansInv, TypeOK
    <3>3. Clusters \subseteq 0 .. K
      BY ParametersAssumption DEF Clusters
    <3> QED  BY <3>1, <3>2, <3>3, ClusterOfIsCluster, Zenon
  <2>4. TypeOK'
    <3>1. clusters' \in [Pixels -> 0 .. K]
      BY <2>2, <2>3, Zenon
    <3>2. phase' \in Phases
      BY <2>1 DEF Phases
    <3> QED  BY <2>1, <3>1, <3>2, Zenon DEF MeansInv, TypeOK
  <2>5. GrayMeans'
    BY <2>1 DEF MeansInv, GrayMeans, OnFirstAxis
  <2>6. ClustersOfOldCenters'
    BY <2>1, <2>2, Zenon DEF ClustersOfOldCenters
  <2>7. EndsSteady' /\ PaintsMeans'
    BY <2>1 DEF EndsSteady, PaintsMeans
  <2> QED  BY <2>4, <2>5, <2>6, <2>7, Zenon DEF MeansInv
<1>2. CASE CalculateClusterMeans
  <2>1. /\ image' = image /\ eps' = eps /\ old_centers' = old_centers
        /\ clusters' = clusters /\ result' = result /\ centers' = NewCenters
        /\ phase = "calculate_cluster_means"
    BY <1>2, Zenon DEF CalculateClusterMeans
  <2>2. \/ /\ phase' = "create_result_image" /\ iteration' = iteration
           /\ iteration + 1 >= MaxIterations \/ AllCentersSteady(old_centers, centers')
        \/ /\ phase' = "determine_cluster" /\ iteration' = iteration + 1
           /\ ~ (iteration + 1 >= MaxIterations)
    BY <1>2, Zenon DEF CalculateClusterMeans, NextIteration
  <2>3. iteration \in 0 .. MaxIterations - 1 /\ IsImage(image)
    BY DEF MeansInv, TypeOK
  <2>4. TypeOK'
    <3>1. iteration' \in 0 .. MaxIterations - 1
      BY <2>2, <2>3, ParametersAssumption
    <3>2. centers' \in [Clusters -> Point]
      BY <2>1, <2>3, NewCentersArePoints, Zenon
    <3>3. phase' \in Phases
      BY <2>2 DEF Phases
    <3> QED  BY <2>1, <3>1, <3>2, <3>3, Zenon DEF MeansInv, TypeOK
  <2>5. GrayMeans'
    <3>1. image.type = "gray" => OnFirstAxis(centers')
      BY <2>1, <2>3, NewCentersArePoints, Zenon
    <3>2. image.type = "gray" /\ iteration > 0 => OnFirstAxis(old_centers)
      BY <2>1 DEF MeansInv, GrayMeans
    <3>3. phase' # "determine_cluster" => iteration' = iteration
      BY <2>2
    <3> QED  BY <2>1, <3>1, <3>2, <3>3, Zenon DEF GrayMeans, OnFirstAxis, Clusters
  <2>6. ClustersOfOldCenters'
    <3>1. clusters = [p \in Pixels |-> ClusterOf(image.type, image.data[p], old_centers)]
      BY <2>1 DEF MeansInv, ClustersOfOldCenters
    <3> QED  BY <2>1, <3>1, Zenon DEF ClustersOfOldCenters
  <2>7. EndsSteady'
    <3> SUFFICES ASSUME phase' \in {"create_result_image", "done"},
                        iteration' < MaxIterations - 1
                 PROVE  AllCentersSteady(old_centers, centers)'
      BY Zenon DEF EndsSteady
    <3>1. AllCentersSteady(old_centers, centers')
      BY <2>2, <2>3, ParametersAssumption
    <3> QED  BY <2>1, <3>1, Zenon DEF AllCentersSteady, Clusters
  <2>8. PaintsMeans'
    <3>1. centers' = NewCenters'
      BY <2>1, NewCentersOfImageAndClusters, Zenon
    <3>2. phase' # "done"
      BY <2>2
    <3> QED  BY <3>1, <3>2, Zenon DEF PaintsMeans
  <2> QED  BY <2>4, <2>5, <2>6, <2>7, <2>8, Zenon DEF MeansInv
<1>3. CASE CreateResultImage
  <2>1. /\ image' = image /\ eps' = eps /\ iteration' = iteration
        /\ old_centers' = old_centers /\ centers' = centers /\ clusters' = clusters
        /\ phase = "create_result_image" /\ phase' = "done"
        /\ result' = [p \in Pixels |-> CenterOf(p)]
    BY <1>3, Zenon DEF CreateResultImage
  <2>2. TypeOK'
    <3>1. \A p \in Pixels : clusters[p] \in Clusters
      <4>1. clusters = [p \in Pixels |-> ClusterOf(image.type, image.data[p], old_centers)]
        BY <2>1 DEF MeansInv, ClustersOfOldCenters
      <4>2. \A p \in Pixels : image.data[p] \in Point
        BY DEF MeansInv, TypeOK, IsImage
      <4>3. old_centers \in [Clusters -> Point]
        BY DEF MeansInv, TypeOK
      <4> QED  BY <4>1, <4>2, <4>3, ClusterOfIsCluster, Zenon
    <3>2. result' \in [Pixels -> Point]
      <4>1. centers \in [Clusters -> Point]
        BY DEF MeansInv, TypeOK
      <4> QED  BY <2>1, <3>1, <4>1, Zenon DEF CenterOf
    <3>3. phase' \in Phases
      BY <2>1 DEF Phases
    <3> QED  BY <2>1, <3>2, <3>3, Zenon DEF MeansInv, TypeOK
  <2>3. GrayMeans'
    BY <2>1 DEF MeansInv, GrayMeans, OnFirstAxis
  <2>4. ClustersOfOldCenters'
    <3>1. clusters = [p \in Pixels |-> ClusterOf(image.type, image.data[p], old_centers)]
      BY <2>1 DEF MeansInv, ClustersOfOldCenters
    <3> QED  BY <2>1, <3>1, Zenon DEF ClustersOfOldCenters
  <2>5. EndsSteady'
    BY <2>1, Zenon DEF MeansInv, EndsSteady, AllCentersSteady, Clusters
  <2>6. PaintsMeans'
    <3>1. centers' = NewCenters'
      BY <2>1, NewCentersOfImageAndClusters, Zenon DEF MeansInv, PaintsMeans
    <3>2. result' = [p \in Pixels |-> centers'[clusters'[p]]]
      BY <2>1, Zenon DEF CenterOf
    <3> QED  BY <3>1, <3>2, Zenon DEF PaintsMeans
  <2> QED  BY <2>2, <2>3, <2>4, <2>5, <2>6, Zenon DEF MeansInv
<1>4. CASE UNCHANGED vars
  <2>1. /\ image' = image /\ eps' = eps /\ iteration' = iteration
        /\ old_centers' = old_centers /\ centers' = centers /\ clusters' = clusters
        /\ result' = result /\ phase' = phase
    BY <1>4 DEF vars
  <2>2. TypeOK'
    BY <2>1, Zenon DEF MeansInv, TypeOK
  <2>3. GrayMeans'
    BY <2>1, Zenon DEF MeansInv, GrayMeans, OnFirstAxis, Clusters
  <2>4. ClustersOfOldCenters'
    <3>1. CASE phase = "determine_cluster"
      BY <2>1, <3>1, Zenon DEF ClustersOfOldCenters
    <3>2. CASE phase # "determine_cluster"
      <4>1. clusters = [p \in Pixels |-> ClusterOf(image.type, image.data[p], old_centers)]
        BY <3>2, Zenon DEF MeansInv, ClustersOfOldCenters
      <4> QED  BY <2>1, <4>1, Zenon DEF ClustersOfOldCenters
    <3> QED  BY <3>1, <3>2, Zenon
  <2>5. EndsSteady'
    BY <2>1, Zenon DEF MeansInv, EndsSteady, AllCentersSteady, Clusters
  <2>6. PaintsMeans'
    BY <2>1, NewCentersOfImageAndClusters, Zenon DEF MeansInv, PaintsMeans
  <2> QED  BY <2>2, <2>3, <2>4, <2>5, <2>6, Zenon DEF MeansInv
<1> QED  BY <1>1, <1>2, <1>3, <1>4, Zenon DEF Next

LEMMA MeansInvariant == Spec => []MeansInv
  BY InitEstablishesInvariant, StepKeepsInvariant, PTL DEF Spec
---------------------------------------------------------------------------
\* Whatever the image, the means of clusters, empty ones included, are bytes,
\* every pixel has the number of a centre that exists when it is painted
\* (centers.at(cluster_number)), and there are at most max_iterations.
THEOREM MeansTypeCorrect == Spec => []TypeOK
  BY MeansInvariant, PTL DEF MeansInv

\* A grey image whose iterations end early with an eps of 1 is a fixed point
\* (the comparison of the centres in calculate_cluster_means): centres on the
\* first axis that move by less than one do not move, so the clusters, those of
\* the centres before, are also those of the centres that are painted.
THEOREM EndsInFixedPoint == Spec => []EarlyEndIsFixedPoint
<1>1. MeansInv => EarlyEndIsFixedPoint
  <2> SUFFICES ASSUME MeansInv,
                      phase \in {"create_result_image", "done"},
                      image.type = "gray", eps = 1,
                      iteration > 0, iteration < MaxIterations - 1,
                      NEW p \in Pixels
               PROVE  clusters[p] = ClusterOf(image.type, image.data[p], centers)
    BY DEF EarlyEndIsFixedPoint
  <2>1. phase # "determine_cluster"
    OBVIOUS
  <2>2. OnFirstAxis(centers) /\ OnFirstAxis(old_centers)
    BY <2>1, Zenon DEF MeansInv, GrayMeans
  <2>3. ASSUME NEW i \in Clusters PROVE old_centers[i] = centers[i]
    <3>1. old_centers[i] \in Point /\ centers[i] \in Point
      BY DEF MeansInv, TypeOK
    <3>2. Moved(old_centers[i], centers[i]) < 1 % 256
      BY Zenon DEF MeansInv, EndsSteady, AllCentersSteady
    <3>3. old_centers[i][2] = centers[i][2] /\ old_centers[i][3] = centers[i][3]
      BY <2>2 DEF OnFirstAxis
    <3> QED  BY <3>1, <3>2, <3>3, SteadyIsEqual, Zenon
  <2>4. old_centers = centers
    <3>1. old_centers \in [Clusters -> Point] /\ centers \in [Clusters -> Point]
      BY DEF MeansInv, TypeOK
    <3> QED  BY <2>3, <3>1
  <2>5. clusters[p] = ClusterOf(image.type, image.data[p], old_centers)
    BY <2>1, Zenon DEF MeansInv, ClustersOfOldCenters
  <2> QED  BY <2>4, <2>5, Zenon
<1> QED  BY <1>1, MeansInvariant, PTL

\* The colour of a pixel lies between those of its cluster on every axis
\* (create_cluster_result): it belongs to a cluster that is not empty, and what
\* is painted is the mean of that very cluster.
THEOREM PaintsWithinCluster == Spec => []WithinItsCluster
<1>1. MeansInv => WithinItsCluster
  <2> SUFFICES ASSUME MeansInv, phase = "done", NEW p \in Pixels, NEW axis \in 1 .. 3
               PROVE  /\ \E q \in Members(clusters[p]) : image.data[q][axis] <= result[p][axis]
                      /\ \E q \in Members(clusters[p]) : image.data[q][axis] >= result[p][axis]
    BY Zenon DEF WithinItsCluster
  <2> DEFINE c == clusters[p]
             members == Members(c)
  <2>1. IsImage(image)
    BY Zenon DEF MeansInv, TypeOK
  <2>2. members \in SUBSET Pixels /\ p \in members
    BY DEF Members
  <2>3. c \in Clusters
    <3>1. clusters = [q \in Pixels |-> ClusterOf(image.type, image.data[q], old_centers)]
      BY DEF MeansInv, ClustersOfOldCenters
    <3>2. image.data[p] \in Point
      BY <2>1 DEF IsImage
    <3>3. old_centers \in [Clusters -> Point]
      BY Zenon DEF MeansInv, TypeOK
    <3> QED  BY <3>1, <3>2, <3>3, ClusterOfIsCluster, Zenon
  <2>4. result[p] = NewCenters[c]
    <3>1. centers = NewCenters /\ result = [q \in Pixels |-> centers[clusters[q]]]
      BY DEF MeansInv, PaintsMeans
    <3> QED  BY <3>1, Zenon
  <2>5. /\ \E q \in members : image.data[q][axis] <= Mean(members, axis)
        /\ \E q \in members : image.data[q][axis] >= Mean(members, axis)
    <3> HIDE DEF members
    <3>1. members # {}
      BY <2>2
    <3> QED  BY <2>1, <2>2, <3>1, MeanIsBetween, Zenon
  <2>6. CASE result[p][axis] = Mean(members, axis)
    BY <2>5, <2>6, Zenon
  <2>7. CASE result[p][axis] # Mean(members, axis)
    <3> HIDE DEF members, c
    <3>1. image.type = "gray" /\ axis # 1 /\ result[p][axis] = 0
      <4>1. NewCenters[c] = IF image.type = "gray"
                            THEN <<Mean(members, 1), 0, 0>>
                            ELSE <<Mean(members, 1), Mean(members, 2), Mean(members, 3)>>
        BY <2>3, Zenon DEF NewCenters, members
      <4> QED  BY <2>4, <2>7, <4>1
    <3>2. image.data[p][axis] = 0
      BY <2>1, <3>1 DEF IsImage
    <3>3. \E q \in members : image.data[q][axis] = 0
      BY <2>2, <3>2, Zenon
    <3>4. \E q \in members : image.data[q][axis] <= 0 /\ image.data[q][axis] >= 0
      BY <3>3
    <3> QED  BY <3>1, <3>4, Zenon DEF members, c
  <2> QED  BY <2>6, <2>7, Zenon
<1> QED  BY <1>1, MeansInvariant, PTL

\* The distance of two values.
Apart(u, v) == IF u < v THEN v - u ELSE u - v

\* Two centres A and B, the first of them the nearest of the values a and x,
\* the second of b and y, where only one of the two clusters is given the
\* values in the middle: as a is below b, x is not above y.
LEMMA NearestKeepsOrder ==
    ASSUME NEW A \in Nat, NEW B \in Nat, NEW a \in Nat, NEW b \in Nat,
           NEW x \in Nat, NEW y \in Nat,
           \/ /\ Apart(a, A) <= Apart(a, B) /\ Apart(x, A) <= Apart(x, B)
              /\ Apart(b, B) < Apart(b, A) /\ Apart(y, B) < Apart(y, A)
           \/ /\ Apart(a, A) < Apart(a, B) /\ Apart(x, A) < Apart(x, B)
              /\ Apart(b, B) <= Apart(b, A) /\ Apart(y, B) <= Apart(y, A),
           a < b
    PROVE  x <= y
  BY SMTT(60) DEF Apart

LEMMA PointIsNatural == \A a \in Point : a[1] \in Nat
  BY DEF Point, Byte

\* The values of one cluster of a grey image are not above those of another
\* that has a value above one of its own.
LEMMA ClustersKeepOrder ==
    ASSUME NEW a \in Point, NEW b \in Point, NEW x \in Point, NEW y \in Point,
           NEW cs \in [Clusters -> Point],
           ClusterOf("gray", x, cs) = ClusterOf("gray", a, cs),
           ClusterOf("gray", y, cs) = ClusterOf("gray", b, cs),
           ClusterOf("gray", a, cs) # ClusterOf("gray", b, cs),
           a[1] < b[1]
    PROVE  x[1] <= y[1]
<1> DEFINE c == ClusterOf("gray", a, cs)
           d == ClusterOf("gray", b, cs)
<1>1. \A u, v \in Point : Distance("gray", u, v) = Apart(u[1], v[1])
  BY Zenon DEF Distance, Apart
<1>2. c \in Clusters /\ d \in Clusters
  BY ClusterOfIsCluster, Zenon
<1>3. cs[c] \in Point /\ cs[d] \in Point
  BY <1>2
<1>4. ASSUME NEW u \in Point, ClusterOf("gray", u, cs) = c
      PROVE  /\ Apart(u[1], cs[c][1]) <= Apart(u[1], cs[d][1])
             /\ d < c => Apart(u[1], cs[c][1]) # Apart(u[1], cs[d][1])
  <2>1. /\ Distance("gray", u, cs[c]) <= Distance("gray", u, cs[d])
        /\ d < c => Distance("gray", u, cs[c]) # Distance("gray", u, cs[d])
    BY <1>2, <1>4, ClusterOfIsNearest, Zenon
  <2>2. /\ Distance("gray", u, cs[c]) = Apart(u[1], cs[c][1])
        /\ Distance("gray", u, cs[d]) = Apart(u[1], cs[d][1])
    BY <1>1, <1>3, Zenon
  <2> QED  BY <2>1, <2>2, Zenon
<1>5. ASSUME NEW u \in Point, ClusterOf("gray", u, cs) = d
      PROVE  /\ Apart(u[1], cs[d][1]) <= Apart(u[1], cs[c][1])
             /\ c < d => Apart(u[1], cs[d][1]) # Apart(u[1], cs[c][1])
  <2>1. /\ Distance("gray", u, cs[d]) <= Distance("gray", u, cs[c])
        /\ c < d => Distance("gray", u, cs[d]) # Distance("gray", u, cs[c])
    BY <1>2, <1>5, ClusterOfIsNearest, Zenon
  <2>2. /\ Distance("gray", u, cs[c]) = Apart(u[1], cs[c][1])
        /\ Distance("gray", u, cs[d]) = Apart(u[1], cs[d][1])
    BY <1>1, <1>3, Zenon
  <2> QED  BY <2>1, <2>2, Zenon
<1>7. \A u, v \in Nat : Apart(u, v) \in Nat
  BY DEF Apart
<1> DEFINE A == cs[c][1]
           B == cs[d][1]
<1>8. A \in Nat /\ B \in Nat /\ a[1] \in Nat /\ b[1] \in Nat /\ x[1] \in Nat /\ y[1] \in Nat
  BY <1>3, PointIsNatural, Zenon
<1>9. c < d \/ d < c
  <2>1. c \in Int /\ d \in Int /\ c # d
    BY <1>2 DEF Clusters
  <2> QED  BY <2>1
<1>10. /\ Apart(a[1], A) <= Apart(a[1], B) /\ Apart(x[1], A) <= Apart(x[1], B)
       /\ Apart(b[1], B) <= Apart(b[1], A) /\ Apart(y[1], B) <= Apart(y[1], A)
       /\ c < d => Apart(b[1], B) # Apart(b[1], A) /\ Apart(y[1], B) # Apart(y[1], A)
       /\ d < c => Apart(a[1], A) # Apart(a[1], B) /\ Apart(x[1], A) # Apart(x[1], B)
  BY <1>4, <1>5, Zenon
<1>11. ASSUME NEW u \in Nat, NEW v \in Nat, NEW w \in Nat,
              Apart(u, v) <= Apart(u, w), Apart(u, v) # Apart(u, w)
       PROVE  Apart(u, v) < Apart(u, w)
  <2>1. Apart(u, v) \in Nat /\ Apart(u, w) \in Nat
    BY <1>7
  <2> HIDE DEF c, d
  <2> QED  BY <1>11, <2>1
<1>12. CASE c < d
  <2>1. Apart(b[1], B) < Apart(b[1], A) /\ Apart(y[1], B) < Apart(y[1], A)
    BY <1>8, <1>10, <1>11, <1>12
  <2> HIDE DEF A, B
  <2> QED  BY <1>8, <1>10, <2>1, NearestKeepsOrder
<1>13. CASE d < c
  <2>1. Apart(a[1], A) < Apart(a[1], B) /\ Apart(x[1], A) < Apart(x[1], B)
    BY <1>8, <1>10, <1>11, <1>13
  <2> HIDE DEF A, B
  <2> QED  BY <1>8, <1>10, <2>1, NearestKeepsOrder
<1> QED  BY <1>9, <1>12, <1>13, Zenon

\* A grey image keeps the order of its pixels (determine_cluster and
\* calculate_cluster_means): the clusters are intervals of the grey values,
\* also where centres coincide or are equally near, and the mean of one whose
\* values are not above those of another is not above the mean of the other.
THEOREM PaintsInOrder == Spec => []KeepsOrder
<1>1. MeansInv => KeepsOrder
  <2> SUFFICES ASSUME MeansInv, phase = "done", image.type = "gray",
                      NEW p \in Pixels, NEW q \in Pixels,
                      image.data[p][1] <= image.data[q][1]
               PROVE  result[p][1] <= result[q][1]
    BY Zenon DEF KeepsOrder
  <2> DEFINE value(r) == image.data[r][1]
             mean(i) == Mean(Members(i), 1)
  <2>1. IsImage(image) /\ old_centers \in [Clusters -> Point]
    BY Zenon DEF MeansInv, TypeOK
  <2>2. \A r \in Pixels : /\ image.data[r] \in Point
                          /\ image.data[r][2] = 0 /\ image.data[r][3] = 0
    BY <2>1 DEF IsImage
  <2>3. clusters = [r \in Pixels |-> ClusterOf("gray", image.data[r], old_centers)]
    BY Zenon DEF MeansInv, ClustersOfOldCenters
  <2>4. \A r \in Pixels : /\ clusters[r] = ClusterOf("gray", image.data[r], old_centers)
                          /\ clusters[r] \in Clusters
    BY <2>1, <2>2, <2>3, ClusterOfIsCluster, Zenon
  <2>5. \A r \in Pixels : result[r][1] = mean(clusters[r])
    <3>1. centers = NewCenters /\ result = [r \in Pixels |-> centers[clusters[r]]]
      BY Zenon DEF MeansInv, PaintsMeans
    <3>2. \A i \in Clusters : NewCenters[i] = <<mean(i), 0, 0>>
      BY Zenon DEF NewCenters
    <3>3. \A r \in Pixels : result[r] = <<mean(clusters[r]), 0, 0>>
      BY <2>4, <3>1, <3>2, Zenon
    <3> HIDE DEF mean
    <3> QED  BY <3>3
  <2>6. ASSUME NEW i \in Clusters
        PROVE  Members(i) \in SUBSET Pixels /\ mean(i) \in Nat
    <3>1. Members(i) \in SUBSET Pixels
      BY DEF Members
    <3>2. mean(i) \in Byte
      BY <2>1, <3>1, MeanIsByte
    <3> HIDE DEF mean
    <3> QED  BY <3>1, <3>2 DEF Byte
  <2>7. CASE clusters[p] = clusters[q]
    <3>1. result[p][1] = result[q][1] /\ result[p][1] \in Nat
      <4> HIDE DEF mean
      <4>1. result[p][1] = mean(clusters[p]) /\ result[q][1] = mean(clusters[q])
        BY <2>5
      <4>2. mean(clusters[p]) \in Nat
        BY <2>4, <2>6
      <4> QED  BY <2>7, <4>1, <4>2, Zenon
    <3> QED  BY <3>1
  <2>8. CASE clusters[p] # clusters[q]
    <3> DEFINE low == Members(clusters[p])
               high == Members(clusters[q])
    <3>1. value(p) < value(q)
      <4>1. value(p) # value(q)
        <5> SUFFICES ASSUME value(p) = value(q) PROVE image.data[p] = image.data[q]
          BY <2>4, <2>8, Zenon
        <5> QED  BY <2>2 DEF Point
      <4>2. value(p) \in Nat /\ value(q) \in Nat
        BY <2>2, PointIsNatural
      <4> QED  BY <4>1, <4>2
    <3>2. ASSUME NEW x \in low, NEW y \in high PROVE value(x) <= value(y)
      <4>1. /\ x \in Pixels /\ clusters[x] = clusters[p]
            /\ y \in Pixels /\ clusters[y] = clusters[q]
        BY DEF Members
      <4> DEFINE cluster(r) == ClusterOf("gray", image.data[r], old_centers)
      <4>2. /\ cluster(x) = cluster(p) /\ cluster(y) = cluster(q)
            /\ cluster(p) # cluster(q)
        <5> HIDE DEF cluster
        <5>1. \A r \in Pixels : clusters[r] = cluster(r)
          BY <2>4 DEF cluster
        <5> QED  BY <2>8, <4>1, <5>1
      <4>3. /\ image.data[p] \in Point /\ image.data[q] \in Point
            /\ image.data[x] \in Point /\ image.data[y] \in Point
        BY <2>2, <4>1, Zenon
      <4> QED  BY <2>1, <3>1, <4>2, <4>3, ClustersKeepOrder, Zenon
    <3>3. low \in SUBSET Pixels /\ p \in low /\ high \in SUBSET Pixels /\ q \in high
      BY DEF Members
    <3>4. \E x \in low : value(x) >= mean(clusters[p])
      BY <2>1, <3>3, MeanIsBetween
    <3>5. \E y \in high : value(y) <= mean(clusters[q])
      BY <2>1, <3>3, MeanIsBetween
    <3>6. PICK x \in low, y \in high :
              value(x) >= mean(clusters[p]) /\ value(y) <= mean(clusters[q])
      BY <3>4, <3>5, Zenon
    <3>7. mean(clusters[p]) \in Nat /\ mean(clusters[q]) \in Nat
      BY <2>4, <2>6, Zenon
    <3>8. value(x) \in Nat /\ value(y) \in Nat
      <4>1. x \in Pixels /\ y \in Pixels
        BY <3>3, Zenon
      <4> QED  BY <2>2, <4>1, PointIsNatural
    <3>9. value(x) <= value(y)
      BY <3>2, <3>6, Zenon
    <3> HIDE DEF value, mean
    <3>10. mean(clusters[p]) <= mean(clusters[q])
      BY <3>6, <3>7, <3>8, <3>9
    <3> QED  BY <2>5, <3>10
  <2> QED  BY <2>7, <2>8, Zenon
<1> QED  BY <1>1, MeansInvariant, PTL

-----------------------------------------------------------------------------
(* Part 2: hog_image.                                                         *)
(*                                                                            *)
(* For images, cells and runs of cells of every size: the histograms come in  *)
(* the order of the rows, whatever the order of the tasks, and every cell of  *)
(* the finished image is painted once, with the histogram of its own pixels.  *)
(*                                                                            *)
(* The invariant HogInv has two parts. The structure says that the tasks that   *)
(* are to run and those that have a result (the frontier) share no cell, that *)
(* they come from the parts of the tasks that wait, and that each task but    *)
(* the one at the root is waited for: so no task is created twice, and when   *)
(* nothing is left to run the root has a result. The data says that a result  *)
(* has the histograms of the cells of its task row by row, and that a cell of *)
(* the image is painted as soon as no pending task has it. The order of the   *)
(* rows survives a join since the halves of a task begin at a border between  *)
(* cells: this is what the lemmas about quotients are for.                    *)

\* A task that has columns and rows: no border is before the one it begins at.
Nonempty(task) == task.from_x <= task.to_x /\ task.from_y <= task.to_y

\* The task s lies within t and is no step of the tree above it.
Within(s, t) ==
    /\ t.from_x <= s.from_x /\ s.to_x <= t.to_x
    /\ t.from_y <= s.from_y /\ s.to_y <= t.to_y
    /\ \/ s.kind = t.kind
       \/ t.kind = "row" /\ s.kind = "col"
       \/ t.kind = "image_row" /\ s.kind = "image_col"

\* The tasks s and t have neither a column nor a row in common.
Separate(s, t) == \/ s.to_x < t.from_x \/ t.to_x < s.from_x
                  \/ s.to_y < t.from_y \/ t.to_y < s.from_y

Parts(task) == ToSet(PartsOf(task))

\* The task s comes from a part of t.
Below(s, t) == \E u \in Parts(t) : Within(s, u)

\* Cells from the top to the bottom and from left to right. The last row takes
\* what is left over, and a task that is lower than a cell is a row as well.
RowsIn(task) == LET cells == (task.to_y - task.from_y + 1) \div CellDimension
                IN  IF cells = 0 THEN 1 ELSE cells
ColumnsIn(task) == (task.to_x - task.from_x + 1) \div CellDimension

Area == [from_x : Int, to_x : Int, from_y : Int, to_y : Int]

\* The area of the cell in row r and column c of a task, both from 0.
CellArea(task, r, c) ==
    [from_x |-> task.from_x + c * CellDimension,
     to_x   |-> task.from_x + (c + 1) * CellDimension - 1,
     from_y |-> task.from_y + r * CellDimension,
     to_y   |-> IF r = RowsIn(task) - 1 THEN task.to_y
                ELSE task.from_y + (r + 1) * CellDimension - 1]

\* The sequence has the cells of the task row by row.
InOrderOfRows(task, sequence) ==
    /\ sequence \in Seq(Area)
    /\ Len(sequence) = RowsIn(task) * ColumnsIn(task)
    /\ \A r \in 0 .. RowsIn(task) - 1 : \A c \in 0 .. ColumnsIn(task) - 1 :
           sequence[r * ColumnsIn(task) + c + 1] = CellArea(task, r, c)

\* The tasks at the roots of the two trees.
HogRoot == Rectangle("row", 0, width - 1, 0, height - 1)
ImageRoot == Rectangle("image_row", 0, CellsPerRow - 1, 0, RowsIn(HogRoot) - 1)
TreeRoot == IF tree = "hog" THEN HogRoot ELSE ImageRoot

\* The tasks that are to run or have run, and have no task above them yet.
Frontier == pending \cup DOMAIN results
Tasks == Frontier \cup waiting

Covers(task, c) == /\ task.from_x <= c[1] /\ c[1] <= task.to_x
                   /\ task.from_y <= c[2] /\ c[2] <= task.to_y

\* Rows are as wide as the image, columns have one row of cells.
Shaped(task) ==
    CASE task.kind = "row"       -> task.from_x = 0 /\ task.to_x = width - 1
      [] task.kind = "col"       -> (task.to_y - task.from_y + 1) \div CellDimension <= 1
      [] task.kind = "image_row" -> TRUE
      [] task.kind = "image_col" -> task.from_y = task.to_y
---------------------------------------------------------------------------
Typed == /\ <<width, height>> \in Sizes
         /\ tree \in {"hog", "hog_image", "done", "divided_by_zero"}
         /\ tree \in {"hog_image", "done"} => CellsPerRow > 0
         /\ \A t \in Tasks : t \in HogTask /\ Nonempty(t) /\ Shaped(t) /\ Within(t, TreeRoot)

\* What is to run and what has run share no cell: no task is created twice.
FrontierApart ==
    /\ pending \cap DOMAIN results = {}
    /\ \A s, t \in Frontier : s = t \/ Separate(s, t)

\* The tasks of the frontier come from the parts of those that wait.
WaitingAbove ==
    \A w \in waiting :
        /\ PartsOf(w) # <<>>
        /\ \A t \in Frontier : Separate(t, w) \/ Below(t, w)

\* Of two tasks that wait for the same cells one comes from a part of the other.
WaitingNested ==
    \A v, w \in waiting : v = w \/ Separate(v, w) \/ Below(v, w) \/ Below(w, v)

\* Every task but the one at the root is waited for.
WaitedFor == \A t \in Tasks : t = TreeRoot \/ \E w \in waiting : t \in Parts(w)

SomethingLeft == tree \in {"hog", "hog_image"} => Frontier # {}

ResultsInOrder ==
    tree = "hog" => \A t \in DOMAIN results : InOrderOfRows(t, results[t])

HistogramsInOrder == tree \in {"hog_image", "done"} => InOrderOfRows(HogRoot, histograms)

\* A cell of the image is still to be painted or shows its histogram, and it
\* is still to be painted if a task has it that has not run.
CellsPainted ==
    IF tree \in {"hog", "divided_by_zero"} THEN painted = [c \in {} |-> <<>>]
    ELSE /\ DOMAIN painted = (0 .. CellsPerRow - 1) \X (0 .. RowsIn(HogRoot) - 1)
         /\ \A c \in DOMAIN painted :
                painted[c] = IF \E t \in pending : Covers(t, c) THEN <<>>
                             ELSE <<CellArea(HogRoot, c[2], c[1])>>

Finished == tree \in {"done", "divided_by_zero"} => pending = {} /\ waiting = {}

HogInv == /\ Typed
        /\ FrontierApart /\ WaitingAbove /\ WaitingNested /\ WaitedFor /\ SomethingLeft
        /\ ResultsInOrder /\ HistogramsInOrder /\ CellsPainted /\ Finished
---------------------------------------------------------------------------
\* The borders of a task are numbers, and its kind is one of four.
LEMMA TaskBorders ==
    ASSUME NEW t \in HogTask
    PROVE  /\ t.from_x \in Nat /\ t.to_x \in Nat /\ t.from_y \in Nat /\ t.to_y \in Nat
           /\ t.kind \in {"row", "col", "image_row", "image_col"}
  BY DEF HogTask

LEMMA SeparateIsSymmetric ==
    ASSUME NEW s, NEW t
    PROVE  Separate(s, t) <=> Separate(t, s)
  BY DEF Separate

LEMMA WithinIsTransitive ==
    ASSUME NEW r \in HogTask, NEW s \in HogTask, NEW t \in HogTask, Within(r, s), Within(s, t)
    PROVE  Within(r, t)
  BY TaskBorders DEF Within

LEMMA WithinIsReflexive ==
    ASSUME NEW t \in HogTask
    PROVE  Within(t, t)
  BY TaskBorders DEF Within

\* What lies within a task is separate from what the task is separate from.
LEMMA WithinKeepsSeparate ==
    ASSUME NEW r \in HogTask, NEW s \in HogTask, NEW t \in HogTask, Within(r, s), Separate(s, t)
    PROVE  Separate(r, t)
  BY TaskBorders DEF Within, Separate

\* A task is not separate from one it lies within.
LEMMA WithinIsNotSeparate ==
    ASSUME NEW s \in HogTask, NEW t \in HogTask, Nonempty(s), Within(s, t)
    PROVE  ~ Separate(s, t) /\ ~ Separate(t, s)
  BY TaskBorders DEF Within, Separate, Nonempty

\* A quotient is the only number of its kind.
LEMMA QuotientIsUnique ==
    ASSUME NEW d \in Nat \ {0}, NEW m \in Int, NEW q \in Int, d * q <= m, m < d * q + d
    PROVE  m \div d = q
<1> DEFINE r == m \div d
<1>1. r \in Int /\ d * r <= m /\ m < d * r + d
  BY SMTT(10)
<1> HIDE DEF r
<1>2. ~ (r >= q + 1)
  <2> SUFFICES ASSUME r >= q + 1 PROVE FALSE
    OBVIOUS
  <2>1. d * r >= d * (q + 1)
    BY <1>1, SMTT(10)
  <2>2. d * (q + 1) = d * q + d
    BY SMTT(10)
  <2> QED  BY <1>1, <2>1, <2>2
<1>3. ~ (q >= r + 1)
  <2> SUFFICES ASSUME q >= r + 1 PROVE FALSE
    OBVIOUS
  <2>1. d * q >= d * (r + 1)
    BY <1>1, SMTT(10)
  <2>2. d * (r + 1) = d * r + d
    BY <1>1, SMTT(10)
  <2> QED  BY <1>1, <2>1, <2>2
<1>4. r = q
  BY <1>1, <1>2, <1>3
<1> QED  BY <1>4 DEF r

LEMMA QuotientIsNatural ==
    ASSUME NEW d \in Nat \ {0}, NEW m \in Nat
    PROVE  m \div d \in Nat
<1> DEFINE q == m \div d
<1>1. q \in Int /\ m < d * q + d
  BY SMTT(10)
<1> HIDE DEF q
<1>2. q >= 0
  <2> SUFFICES ASSUME q <= -1 PROVE FALSE
    BY <1>1
  <2>1. d * q <= d * (-1)
    BY <1>1, SMTT(10)
  <2> QED  BY <1>1, <2>1, SMTT(10)
<1> QED  BY <1>1, <1>2 DEF q

LEMMA ProductOfDifference ==
    ASSUME NEW a \in Int, NEW b \in Int, NEW c \in Int
    PROVE  a * (b - c) = a * b - c * a
  BY SMTT(10)

\* Half of the cells, when there are at least two: it is a cell or more and not
\* all of them, and the cells of the halves add up.
LEMMA HalfOfCells ==
    ASSUME NEW d \in Nat \ {0}, NEW m \in Nat, m \div d > 1
    PROVE  /\ m \div d \in Nat /\ (m \div d) \div 2 \in Nat
           /\ 1 <= (m \div d) \div 2 /\ (m \div d) \div 2 < m \div d
           /\ ((m \div d) \div 2) * d \in Nat
           /\ 1 <= ((m \div d) \div 2) * d /\ ((m \div d) \div 2) * d < m
           /\ (((m \div d) \div 2) * d) \div d = (m \div d) \div 2
           /\ (m - ((m \div d) \div 2) * d) \div d = m \div d - (m \div d) \div 2
<1> DEFINE cells == m \div d
           half == cells \div 2
<1>1. cells \in Int /\ d * cells <= m /\ m < d * cells + d
  BY SMTT(10)
<1>0. cells > 1
  OBVIOUS
<1> HIDE DEF cells
<1>2. half \in Nat /\ 1 <= half /\ half < cells
  BY <1>0, <1>1
<1> HIDE DEF half
<1> DEFINE size == half * d
           all == d * cells
           rest == d * (cells - half)
<1>3. size \in Nat /\ d * half = size
  BY <1>2, SMTT(10)
<1>4. size >= d
  BY <1>2, SMTT(10)
<1>5. rest >= d /\ rest \in Int
  BY <1>1, <1>2, SMTT(10)
<1>6. rest = all - size
  <2>1. d \in Int /\ cells \in Int /\ half \in Int
    BY <1>1, <1>2
  <2> QED  BY <2>1, ProductOfDifference, Zenon
<1>7. all \in Int /\ all <= m /\ m < all + d
  BY <1>1
<1>8. 1 <= size /\ size < m
  <2> HIDE DEF size, all, rest
  <2> QED  BY <1>3, <1>4, <1>5, <1>6, <1>7
<1>9. size \div d = half
  <2>1. d * half <= size /\ size < d * half + d
    <3> HIDE DEF size
    <3> QED  BY <1>3
  <2> QED  BY <1>2, <1>3, <2>1, QuotientIsUnique
<1>10. (m - size) \div d = cells - half
  <2>1. m - size \in Int /\ rest <= m - size /\ m - size < rest + d
    <3> HIDE DEF size, all, rest
    <3> QED  BY <1>3, <1>5, <1>6, <1>7
  <2>2. cells - half \in Int
    BY <1>1, <1>2
  <2> HIDE DEF size
  <2> QED  BY <2>1, <2>2, QuotientIsUnique
<1>11. cells \in Nat
  BY <1>1, <1>2
<1> QED  BY <1>2, <1>3, <1>8, <1>9, <1>10, <1>11, Zenon DEF cells, half

\* A task that cuts does so within its borders.
LEMMA HalfIsInside ==
    ASSUME NEW task \in HogTask, Nonempty(task), HogCuts(task)
    PROVE  /\ Half(task) \in Nat
           /\ IsRow(task) => task.from_y < Half(task) /\ Half(task) <= task.to_y
           /\ ~ IsRow(task) => task.from_x < Half(task) /\ Half(task) <= task.to_x
<1> DEFINE rows == task.to_y - task.from_y + 1
           columns == task.to_x - task.from_x + 1
           extent == IF IsRow(task) THEN rows ELSE columns
           unit == IF task.kind \in {"row", "col"} THEN CellDimension ELSE 1
           half == CellsOf(task) \div 2
<1>1. extent \in Nat
  BY TaskBorders DEF Nonempty
<1>2. unit \in Nat \ {0}
  BY HogAssumption
<1>3. CellsOf(task) = extent \div unit
  <2>1. rows \in Nat /\ columns \in Nat
    BY TaskBorders DEF Nonempty
  <2>2. \A n \in Nat : n \div 1 = n
    OBVIOUS
  <2> HIDE DEF rows, columns
  <2>3. CellsOf(task) = CASE task.kind = "row"       -> rows \div CellDimension
                          [] task.kind = "col"       -> columns \div CellDimension
                          [] task.kind = "image_row" -> rows
                          [] task.kind = "image_col" -> columns
    BY DEF CellsOf, rows, columns
  <2> QED  BY <2>1, <2>2, <2>3, TaskBorders DEF IsRow
<1>4. CellsOf(task) > 1
  <2>1. CellsOf(task) \in Int
    BY <1>1, <1>2, <1>3
  <2> QED  BY <2>1, HogAssumption DEF HogCuts
<1>5. half * unit \in Nat /\ 1 <= half * unit /\ half * unit < extent
  <2>1. half = (extent \div unit) \div 2 /\ extent \div unit > 1
    BY <1>3, <1>4
  <2> HIDE DEF extent, unit, half
  <2> DEFINE size == ((extent \div unit) \div 2) * unit
  <2>2. size \in Nat /\ 1 <= size /\ size < extent
    BY <1>1, <1>2, <2>1, HalfOfCells, Zenon
  <2> QED  BY <2>1, <2>2, Zenon
<1>6. Half(task) = (IF IsRow(task) THEN task.from_y ELSE task.from_x) + half * unit
  BY DEF Half
<1> DEFINE size == half * unit
<1> HIDE DEF size
<1>7. size \in Nat /\ 1 <= size /\ size < extent
  BY <1>5 DEF size
<1>8. Half(task) = (IF IsRow(task) THEN task.from_y ELSE task.from_x) + size
  BY <1>6 DEF size
<1> QED  BY <1>7, <1>8, TaskBorders

\* The parts of a task.
FirstPart(task) == IF IsRow(task) THEN [task EXCEPT !.to_y = Half(task) - 1]
                                  ELSE [task EXCEPT !.to_x = Half(task) - 1]
SecondPart(task) == IF IsRow(task) THEN [task EXCEPT !.from_y = Half(task)]
                                   ELSE [task EXCEPT !.from_x = Half(task)]
OnlyPart(task) == IF task.kind = "row" THEN [task EXCEPT !.kind = "col"]
                                       ELSE [task EXCEPT !.kind = "image_col"]

LEMMA PartsByKind ==
    ASSUME NEW task \in HogTask
    PROVE  /\ HogCuts(task) => /\ PartsOf(task) = <<FirstPart(task), SecondPart(task)>>
                               /\ Parts(task) = {FirstPart(task), SecondPart(task)}
           /\ ~ HogCuts(task) /\ IsRow(task) => /\ PartsOf(task) = <<OnlyPart(task)>>
                                                /\ Parts(task) = {OnlyPart(task)}
           /\ ~ HogCuts(task) /\ ~ IsRow(task) => PartsOf(task) = <<>>
<1>1. ASSUME NEW a, NEW b PROVE ToSet(<<a, b>>) = {a, b}
  BY DEF ToSet
<1>2. ASSUME NEW a PROVE ToSet(<<a>>) = {a}
  BY DEF ToSet
<1>3. CASE HogCuts(task)
  <2>1. PartsOf(task) = <<FirstPart(task), SecondPart(task)>>
    BY <1>3 DEF PartsOf, FirstPart, SecondPart
  <2> QED  BY <1>1, <1>3, <2>1 DEF Parts
<1>4. CASE ~ HogCuts(task) /\ IsRow(task)
  <2>1. PartsOf(task) = <<OnlyPart(task)>>
    BY <1>4 DEF PartsOf, OnlyPart, IsRow
  <2> QED  BY <1>2, <1>4, <2>1 DEF Parts
<1>5. CASE ~ HogCuts(task) /\ ~ IsRow(task)
  BY <1>5 DEF PartsOf, IsRow
<1> QED  BY <1>3, <1>4, <1>5

\* The parts of a task are tasks of the same tree that are not empty, lie
\* within it, are separate and have all of its cells.
LEMMA PartsOfTask ==
    ASSUME NEW task \in HogTask, Nonempty(task), Shaped(task), PartsOf(task) # <<>>
    PROVE  /\ Parts(task) # {}
           /\ \A u \in Parts(task) : /\ u \in HogTask /\ Nonempty(u) /\ Shaped(u)
                                     /\ Within(u, task) /\ ~ Within(task, u)
           /\ \A u, v \in Parts(task) : u = v \/ Separate(u, v)
           /\ \A c \in Int \X Int : Covers(task, c) <=> \E u \in Parts(task) : Covers(u, c)
<1>1. CASE HogCuts(task)
  <2> DEFINE first == FirstPart(task)
             second == SecondPart(task)
  <2>1. Parts(task) = {first, second}
    BY <1>1, PartsByKind
  <2>2. Half(task) \in Nat
    BY <1>1, HalfIsInside
  <2>3. CASE IsRow(task)
    <3>1. task.from_y < Half(task) /\ Half(task) <= task.to_y
      BY <1>1, <2>3, HalfIsInside
    <3>2. /\ first = [task EXCEPT !.to_y = Half(task) - 1]
          /\ second = [task EXCEPT !.from_y = Half(task)]
      BY <2>3 DEF FirstPart, SecondPart
    <3> HIDE DEF first, second
    <3>3. first \in HogTask /\ second \in HogTask
      BY <2>2, <3>1, <3>2 DEF HogTask
    <3>4. /\ first.kind = task.kind /\ first.from_x = task.from_x /\ first.to_x = task.to_x
          /\ first.from_y = task.from_y /\ first.to_y = Half(task) - 1
          /\ second.kind = task.kind /\ second.from_x = task.from_x /\ second.to_x = task.to_x
          /\ second.from_y = Half(task) /\ second.to_y = task.to_y
      BY <3>2 DEF HogTask
    <3>5. Nonempty(first) /\ Nonempty(second) /\ Separate(first, second)
      BY <2>2, <3>1, <3>4, TaskBorders DEF Nonempty, Separate
    <3>6. /\ Within(first, task) /\ ~ Within(task, first)
          /\ Within(second, task) /\ ~ Within(task, second)
      BY <2>2, <3>1, <3>4, TaskBorders, SMTT(40) DEF Within
    <3>7. Shaped(first) /\ Shaped(second)
      BY <2>3, <3>4, TaskBorders DEF Shaped, IsRow
    <3>8. \A c \in Int \X Int : Covers(task, c) <=> Covers(first, c) \/ Covers(second, c)
      BY <2>2, <3>1, <3>4, TaskBorders DEF Covers
    <3> QED  BY <2>1, <3>3, <3>5, <3>6, <3>7, <3>8, SeparateIsSymmetric
  <2>4. CASE ~ IsRow(task)
    <3>1. task.from_x < Half(task) /\ Half(task) <= task.to_x
      BY <1>1, <2>4, HalfIsInside
    <3>2. /\ first = [task EXCEPT !.to_x = Half(task) - 1]
          /\ second = [task EXCEPT !.from_x = Half(task)]
      BY <2>4 DEF FirstPart, SecondPart
    <3> HIDE DEF first, second
    <3>3. first \in HogTask /\ second \in HogTask
      BY <2>2, <3>1, <3>2 DEF HogTask
    <3>4. /\ first.kind = task.kind /\ first.from_x = task.from_x /\ first.to_x = Half(task) - 1
          /\ first.from_y = task.from_y /\ first.to_y = task.to_y
          /\ second.kind = task.kind /\ second.from_x = Half(task) /\ second.to_x = task.to_x
          /\ second.from_y = task.from_y /\ second.to_y = task.to_y
      BY <3>2 DEF HogTask
    <3>5. Nonempty(first) /\ Nonempty(second) /\ Separate(first, second)
      BY <2>2, <3>1, <3>4, TaskBorders DEF Nonempty, Separate
    <3>6. /\ Within(first, task) /\ ~ Within(task, first)
          /\ Within(second, task) /\ ~ Within(task, second)
      BY <2>2, <3>1, <3>4, TaskBorders, SMTT(40) DEF Within
    <3>7. Shaped(first) /\ Shaped(second)
      BY <2>4, <3>4, TaskBorders DEF Shaped, IsRow
    <3>8. \A c \in Int \X Int : Covers(task, c) <=> Covers(first, c) \/ Covers(second, c)
      BY <2>2, <3>1, <3>4, TaskBorders DEF Covers
    <3> QED  BY <2>1, <3>3, <3>5, <3>6, <3>7, <3>8, SeparateIsSymmetric
  <2> QED  BY <2>3, <2>4
<1>2. CASE ~ HogCuts(task)
  <2> DEFINE part == OnlyPart(task)
  <2>1. IsRow(task) /\ Parts(task) = {part}
    BY <1>2, PartsByKind
  <2>2. /\ part = [task EXCEPT !.kind = part.kind]
        /\ \/ task.kind = "row" /\ part.kind = "col"
           \/ task.kind = "image_row" /\ part.kind = "image_col"
    BY <2>1 DEF OnlyPart, IsRow, HogTask
  <2> HIDE DEF part
  <2>3. part \in HogTask
    BY <2>2 DEF HogTask
  <2>4. /\ part.from_x = task.from_x /\ part.to_x = task.to_x
        /\ part.from_y = task.from_y /\ part.to_y = task.to_y
    BY <2>2 DEF HogTask
  <2>5. Nonempty(part) /\ Within(part, task) /\ ~ Within(task, part)
    BY <2>2, <2>4, TaskBorders DEF Nonempty, Within
  <2>6. \A c : Covers(task, c) <=> Covers(part, c)
    BY <2>4 DEF Covers
  <2>7. Shaped(part)
    <3>1. CellsOf(task) <= 1
      <4>1. CellsOf(task) \in Int
        BY <2>2, TaskBorders, HogAssumption DEF CellsOf
      <4> QED  BY <1>2, <2>2, <4>1 DEF HogCuts
    <3>2. CASE task.kind = "row"
      BY <2>2, <2>4, <3>1, <3>2 DEF Shaped, CellsOf
    <3>3. CASE task.kind = "image_row"
      <4>1. CellsOf(task) = task.to_y - task.from_y + 1 /\ part.kind = "image_col"
        BY <2>2, <3>3 DEF CellsOf
      <4>2. task.from_y = task.to_y
        BY <3>1, <4>1, TaskBorders DEF Nonempty
      <4> QED  BY <2>4, <4>1, <4>2 DEF Shaped
    <3> QED  BY <2>2, <3>2, <3>3, Zenon
  <2> QED  BY <2>1, <2>3, <2>5, <2>6, <2>7
<1> QED  BY <1>1, <1>2
---------------------------------------------------------------------------
\* The image has a row of cells, and a cell in it if it is wide enough.
LEMMA RootsAreTasks ==
    ASSUME <<width, height>> \in Sizes
    PROVE  /\ HogRoot \in HogTask /\ Nonempty(HogRoot) /\ Shaped(HogRoot)
           /\ CellsPerRow \in Nat /\ ColumnsIn(HogRoot) = CellsPerRow
           /\ RowsIn(HogRoot) \in Nat \ {0}
           /\ CellsPerRow > 0 => ImageRoot \in HogTask /\ Nonempty(ImageRoot) /\ Shaped(ImageRoot)
<1>1. width \in Nat \ {0} /\ height \in Nat \ {0, 1}
  BY HogAssumption
<1>2. HogRoot = [kind |-> "row", from_x |-> 0, to_x |-> width - 1, from_y |-> 0, to_y |-> height - 1]
  BY DEF HogRoot, Rectangle
<1>3. HogRoot \in HogTask /\ Nonempty(HogRoot) /\ Shaped(HogRoot)
  BY <1>1, <1>2 DEF HogTask, Nonempty, Shaped
<1>4. \A n \in Nat : n \div CellDimension \in Nat
  BY QuotientIsNatural, HogAssumption
<1>5. CellsPerRow \in Nat /\ ColumnsIn(HogRoot) = CellsPerRow
  <2>1. width - 1 - 0 + 1 = width
    BY <1>1
  <2> QED  BY <1>1, <1>2, <1>4, <2>1 DEF CellsPerRow, ColumnsIn
<1>6. RowsIn(HogRoot) \in Nat \ {0}
  <2>1. height - 1 - 0 + 1 = height
    BY <1>1
  <2> QED  BY <1>1, <1>2, <1>4, <2>1 DEF RowsIn
<1>7. ASSUME CellsPerRow > 0
      PROVE  ImageRoot \in HogTask /\ Nonempty(ImageRoot) /\ Shaped(ImageRoot)
  <2>1. ImageRoot = [kind |-> "image_row", from_x |-> 0, to_x |-> CellsPerRow - 1,
                     from_y |-> 0, to_y |-> RowsIn(HogRoot) - 1]
    BY DEF ImageRoot, Rectangle
  <2> QED  BY <1>5, <1>6, <1>7, <2>1 DEF HogTask, Nonempty, Shaped
<1> QED  BY <1>3, <1>5, <1>6, <1>7
---------------------------------------------------------------------------
\* The tasks and what waits for what, without what they have found.
Structure == /\ Typed
             /\ FrontierApart /\ WaitingAbove /\ WaitingNested /\ WaitedFor /\ SomethingLeft
             /\ Finished

\* Everything that is said of the size of the image stays as it is.
SameImage == width' = width /\ height' = height /\ tree' = tree

LEMMA SameRoots ==
    ASSUME width' = width, height' = height
    PROVE  /\ HogRoot' = HogRoot /\ ImageRoot' = ImageRoot /\ CellsPerRow' = CellsPerRow
           /\ \A t : Shaped(t)' <=> Shaped(t)
<1>1. HogRoot' = HogRoot /\ CellsPerRow' = CellsPerRow
  BY DEF HogRoot, CellsPerRow
<1>2. ImageRoot' = ImageRoot
  BY <1>1 DEF ImageRoot
<1>3. ASSUME NEW t PROVE Shaped(t)' <=> Shaped(t)
  BY DEF Shaped
<1> QED  BY <1>1, <1>2, <1>3

LEMMA SameRoot ==
    ASSUME SameImage
    PROVE  TreeRoot' = TreeRoot
  BY SameRoots DEF SameImage, TreeRoot

LEMMA RootIsTask ==
    ASSUME Structure, tree # "divided_by_zero"
    PROVE  TreeRoot \in HogTask /\ Nonempty(TreeRoot)
  BY RootsAreTasks DEF Structure, Typed, TreeRoot

LEMMA TasksAreTasks ==
    ASSUME Structure
    PROVE  \A t \in Tasks : t \in HogTask /\ Nonempty(t) /\ Shaped(t) /\ Within(t, TreeRoot)
  BY DEF Structure, Typed

\* The parts of a task that waits.
LEMMA PartsOfWaiting ==
    ASSUME Structure, NEW w \in waiting
    PROVE  /\ Parts(w) # {}
           /\ \A u \in Parts(w) : /\ u \in HogTask /\ Nonempty(u) /\ Shaped(u)
                                  /\ Within(u, w) /\ ~ Within(w, u)
<1>1. w \in HogTask /\ Nonempty(w) /\ Shaped(w) /\ PartsOf(w) # <<>>
  BY TasksAreTasks DEF Structure, WaitingAbove, Tasks
<1> QED  BY <1>1, PartsOfTask

\* What comes from a part of a task lies within it, but is not the task.
LEMMA BelowIsWithin ==
    ASSUME Structure, NEW w \in waiting, NEW s \in HogTask, Below(s, w)
    PROVE  Within(s, w) /\ ~ Within(w, s)
<1>1. PICK u \in Parts(w) : Within(s, u)
  BY DEF Below
<1>2. u \in HogTask /\ Within(u, w) /\ ~ Within(w, u) /\ w \in HogTask
  BY PartsOfWaiting, TasksAreTasks DEF Tasks
<1>3. Within(s, w)
  BY <1>1, <1>2, WithinIsTransitive
<1>4. ~ Within(w, s)
  BY <1>1, <1>2, WithinIsTransitive
<1> QED  BY <1>3, <1>4

\* A task that waits is not to run and has no result.
LEMMA WaitingIsNotFrontier ==
    ASSUME Structure, NEW w \in waiting
    PROVE  w \notin Frontier
<1> SUFFICES ASSUME w \in Frontier PROVE FALSE
  OBVIOUS
<1>1. w \in HogTask /\ Nonempty(w)
  BY TasksAreTasks DEF Tasks
<1>2. Within(w, w)
  BY <1>1, WithinIsReflexive
<1>3. Below(w, w)
  BY <1>1, <1>2, WithinIsNotSeparate DEF Structure, WaitingAbove
<1> QED  BY <1>1, <1>2, <1>3, BelowIsWithin

\* A task that cuts is replaced by its parts, which are new.
LEMMA CutKeepsStructure ==
    ASSUME Structure, NEW task \in pending, Cut(task)
    PROVE  Structure'
<1>1. /\ PartsOf(task) # <<>>
      /\ pending' = (pending \ {task}) \cup Parts(task)
      /\ waiting' = waiting \cup {task}
      /\ SameImage /\ results' = results
  BY DEF Cut, Parts, SameImage
<1>2. /\ task \in HogTask /\ Nonempty(task) /\ Shaped(task) /\ Within(task, TreeRoot)
      /\ task \in Frontier /\ task \notin DOMAIN results /\ task \notin waiting
  BY TasksAreTasks, WaitingIsNotFrontier DEF Tasks, Frontier, Structure, FrontierApart
<1>3. /\ Parts(task) # {}
      /\ \A u \in Parts(task) : /\ u \in HogTask /\ Nonempty(u) /\ Shaped(u)
                                /\ Within(u, task) /\ ~ Within(task, u)
      /\ \A u, v \in Parts(task) : u = v \/ Separate(u, v)
  BY <1>1, <1>2, PartsOfTask
<1>4. Frontier' = (Frontier \ {task}) \cup Parts(task)
  BY <1>1, <1>2 DEF Frontier
<1>5. Tasks' = Tasks \cup Parts(task)
  BY <1>1, <1>2, <1>4 DEF Tasks
<1>6. TreeRoot' = TreeRoot
  BY <1>1, SameRoot
<1>7. Typed'
  <2>1. ASSUME NEW u \in Parts(task) PROVE Within(u, TreeRoot)
    <3>1. TreeRoot \in HogTask
      BY RootIsTask DEF Structure, Finished
    <3> QED  BY <1>2, <1>3, <2>1, <3>1, WithinIsTransitive
  <2>2. CellsPerRow' = CellsPerRow /\ \A t : Shaped(t)' <=> Shaped(t)
    BY <1>1, SameRoots DEF SameImage
  <2>3. \A t \in Tasks' : t \in HogTask /\ Nonempty(t) /\ Shaped(t) /\ Within(t, TreeRoot)
    BY <1>3, <1>5, <2>1, TasksAreTasks
  <2> QED  BY <1>1, <1>6, <2>2, <2>3 DEF Structure, Typed, SameImage
<1>8. ASSUME NEW t \in Frontier \ {task}, NEW u \in Parts(task)
      PROVE  Separate(u, t) /\ Separate(t, u)
  <2>1. Separate(task, t) /\ t \in HogTask
    BY <1>2, TasksAreTasks DEF Tasks, Structure, FrontierApart
  <2> QED  BY <1>2, <1>3, <2>1, WithinKeepsSeparate, SeparateIsSymmetric
<1>9. FrontierApart'
  <2>1. ASSUME NEW u \in Parts(task) PROVE u \notin DOMAIN results
    <3> SUFFICES ASSUME u \in DOMAIN results PROVE FALSE
      OBVIOUS
    <3>1. Separate(u, u)
      BY <1>2, <1>8 DEF Frontier
    <3> QED  BY <1>3, <3>1, WithinIsReflexive, WithinIsNotSeparate
  <2>2. pending' \cap DOMAIN results' = {}
    BY <1>1, <2>1 DEF Structure, FrontierApart
  <2>3. \A s, t \in Frontier' : s = t \/ Separate(s, t)
    BY <1>3, <1>4, <1>8 DEF Structure, FrontierApart
  <2> QED  BY <2>2, <2>3 DEF FrontierApart
<1>10. ASSUME NEW w \in waiting, NEW u \in Parts(task)
       PROVE  Separate(u, w) \/ Below(u, w)
  <2>1. w \in HogTask
    BY TasksAreTasks DEF Tasks
  <2>2. CASE Separate(task, w)
    BY <1>2, <1>3, <2>1, <2>2, WithinKeepsSeparate
  <2>3. CASE Below(task, w)
    BY <1>2, <1>3, <2>3, PartsOfWaiting, WithinIsTransitive DEF Below
  <2> QED  BY <1>2, <2>2, <2>3 DEF Structure, WaitingAbove
<1>11. WaitingAbove'
  <2>1. ASSUME NEW w \in waiting, NEW t \in Frontier' PROVE Separate(t, w) \/ Below(t, w)
    BY <1>4, <1>10 DEF Structure, WaitingAbove
  <2>2. ASSUME NEW t \in Frontier' PROVE Separate(t, task) \/ Below(t, task)
    <3>1. CASE t \in Parts(task)
      BY <1>3, <3>1, WithinIsReflexive DEF Below
    <3>2. CASE t \in Frontier \ {task}
      BY <1>2, <3>2 DEF Structure, FrontierApart
    <3> QED  BY <1>4, <3>1, <3>2
  <2> QED  BY <1>1, <2>1, <2>2 DEF Structure, WaitingAbove
<1>12. WaitingNested'
  <2>1. ASSUME NEW w \in waiting PROVE Separate(task, w) \/ Below(task, w)
    BY <1>2 DEF Structure, WaitingAbove
  <2>2. ASSUME NEW w \in waiting
        PROVE  (Separate(w, task) /\ Separate(task, w)) \/ Below(task, w)
    BY <2>1, SeparateIsSymmetric
  <2> QED  BY <1>1, <2>2 DEF Structure, WaitingNested
<1>13. WaitedFor'
  BY <1>1, <1>5, <1>6 DEF Structure, WaitedFor
<1>14. SomethingLeft' /\ Finished'
  BY <1>1, <1>3, <1>4 DEF Structure, SomethingLeft, Finished, SameImage
<1> QED  BY <1>7, <1>9, <1>11, <1>12, <1>13, <1>14 DEF Structure

\* A task that gets its result without others stays in the frontier.
LEMMA FinishKeepsStructure ==
    ASSUME Structure, NEW task \in pending, SameImage, waiting' = waiting,
           pending' = pending \ {task}, DOMAIN results' = DOMAIN results \cup {task}
    PROVE  Structure'
<1>1. Frontier' = Frontier /\ Tasks' = Tasks
  BY DEF Frontier, Tasks
<1>2. TreeRoot' = TreeRoot
  BY SameRoot
<1>3. Typed'
  <2>1. CellsPerRow' = CellsPerRow /\ \A t : Shaped(t)' <=> Shaped(t)
    BY SameRoots DEF SameImage
  <2> QED  BY <1>1, <1>2, <2>1 DEF Structure, Typed, SameImage
<1>4. FrontierApart' /\ WaitingAbove' /\ WaitingNested'
  BY <1>1 DEF Structure, FrontierApart, WaitingAbove, WaitingNested
<1>5. WaitedFor' /\ SomethingLeft' /\ Finished'
  BY <1>1, <1>2 DEF Structure, WaitedFor, SomethingLeft, Finished, SameImage
<1> QED  BY <1>3, <1>4, <1>5 DEF Structure

\* A task whose parts have their results takes their place.
LEMMA JoinKeepsStructure ==
    ASSUME Structure, NEW task \in waiting, Join(task)
    PROVE  Structure'
<1>1. /\ Parts(task) \subseteq DOMAIN results
      /\ DOMAIN results' = (DOMAIN results \ Parts(task)) \cup {task}
      /\ waiting' = waiting \ {task} /\ pending' = pending /\ SameImage
  BY DEF Join, SetResult, Parts, SameImage
<1>2. /\ task \in HogTask /\ Nonempty(task) /\ task \in Tasks
      /\ task \notin Frontier /\ task \notin Parts(task)
  BY <1>1, TasksAreTasks, WaitingIsNotFrontier DEF Tasks, Frontier
<1>3. \A u \in Parts(task) : u \in HogTask /\ u \in Frontier /\ u \notin pending /\ u \notin waiting
  BY <1>1, PartsOfWaiting, WaitingIsNotFrontier DEF Structure, FrontierApart, Frontier
<1>4. Frontier' = (Frontier \ Parts(task)) \cup {task}
  BY <1>1, <1>3 DEF Frontier
<1>5. Tasks' = Tasks \ Parts(task)
  BY <1>1, <1>2, <1>3, <1>4 DEF Tasks
<1>6. TreeRoot' = TreeRoot
  BY <1>1, SameRoot
<1>7. Typed'
  <2>1. CellsPerRow' = CellsPerRow /\ \A t : Shaped(t)' <=> Shaped(t)
    BY <1>1, SameRoots DEF SameImage
  <2> QED  BY <1>1, <1>5, <1>6, <2>1 DEF Structure, Typed, SameImage
<1>8. ASSUME NEW t \in Frontier \ Parts(task)
      PROVE  Separate(t, task) /\ Separate(task, t)
  <2>1. t \in HogTask /\ Nonempty(t)
    BY TasksAreTasks DEF Tasks
  <2>2. ~ Below(t, task)
    <3> SUFFICES ASSUME NEW u \in Parts(task), Within(t, u) PROVE FALSE
      BY DEF Below
    <3>1. Separate(t, u)
      BY <1>3 DEF Structure, FrontierApart
    <3> QED  BY <1>3, <2>1, <3>1, WithinIsNotSeparate
  <2> QED  BY <2>2, SeparateIsSymmetric DEF Structure, WaitingAbove
<1>9. FrontierApart'
  <2>1. pending' \cap DOMAIN results' = {}
    BY <1>1, <1>2 DEF Structure, FrontierApart, Frontier
  <2>2. \A s, t \in Frontier' : s = t \/ Separate(s, t)
    BY <1>4, <1>8 DEF Structure, FrontierApart
  <2> QED  BY <2>1, <2>2 DEF FrontierApart
<1>10. ASSUME NEW w \in waiting \ {task}
       PROVE  Separate(task, w) \/ Below(task, w)
  <2>1. w \in HogTask /\ Nonempty(w)
    BY TasksAreTasks DEF Tasks
  <2>2. ~ Below(w, task)
    <3> SUFFICES ASSUME NEW u \in Parts(task), Within(w, u) PROVE FALSE
      BY DEF Below
    <3>1. u \in HogTask /\ u \in Frontier
      BY <1>3
    <3>2. ~ Separate(u, w)
      BY <2>1, <3>1, WithinIsNotSeparate
    <3>3. Below(u, w)
      BY <3>1, <3>2 DEF Structure, WaitingAbove
    <3>4. ~ Within(w, u)
      BY <3>1, <3>3, BelowIsWithin
    <3> QED  BY <3>4
  <2>3. Separate(w, task) => Separate(task, w)
    BY SeparateIsSymmetric
  <2> QED  BY <2>2, <2>3 DEF Structure, WaitingNested
<1>11. WaitingAbove'
  <2>1. ASSUME NEW w \in waiting \ {task}, NEW t \in Frontier'
        PROVE  Separate(t, w) \/ Below(t, w)
    BY <1>4, <1>10 DEF Structure, WaitingAbove
  <2> QED  BY <1>1, <2>1 DEF Structure, WaitingAbove
<1>12. WaitingNested'
  BY <1>1 DEF Structure, WaitingNested
<1>13. WaitedFor'
  <2> SUFFICES ASSUME NEW t \in Tasks', t # TreeRoot
               PROVE  \E w \in waiting \ {task} : t \in Parts(w)
    BY <1>1, <1>6 DEF WaitedFor
  <2>1. t \in Tasks /\ t \notin Parts(task)
    BY <1>5
  <2> QED  BY <2>1 DEF Structure, WaitedFor
<1>14. SomethingLeft' /\ Finished'
  BY <1>1, <1>4 DEF Structure, SomethingLeft, Finished, SameImage
<1> QED  BY <1>7, <1>9, <1>11, <1>12, <1>13, <1>14 DEF Structure

\* When nothing is to run and nothing waits, the root has its result.
LEMMA OnlyRootIsLeft ==
    ASSUME Structure, RootFinished, tree \in {"hog", "hog_image"}
    PROVE  DOMAIN results = {TreeRoot} /\ ResultOfRoot = results[TreeRoot]
<1>1. DOMAIN results = {TreeRoot}
  <2>1. DOMAIN results # {} /\ \A t \in DOMAIN results : t = TreeRoot
    BY DEF Structure, RootFinished, SomethingLeft, WaitedFor, Frontier, Tasks
  <2> QED  BY <2>1
<1>2. (CHOOSE t \in {TreeRoot} : TRUE) = TreeRoot
  OBVIOUS
<1> QED  BY <1>1, <1>2 DEF ResultOfRoot

\* The second tree begins with a task for all cells.
LEMMA HogImageKeepsStructure ==
    ASSUME Structure, HogImage,
           CellsPerRow > 0 => RowsIn(HogRoot) = Len(ResultOfRoot) \div CellsPerRow
    PROVE  Structure'
<1>1. /\ tree = "hog" /\ waiting = {} /\ pending = {}
      /\ waiting' = {} /\ DOMAIN results' = {} /\ width' = width /\ height' = height
  BY DEF HogImage, RootFinished
<1>2. <<width, height>> \in Sizes /\ CellsPerRow \in Nat
  BY RootsAreTasks DEF Structure, Typed
<1>3. /\ HogRoot' = HogRoot /\ ImageRoot' = ImageRoot /\ CellsPerRow' = CellsPerRow
      /\ \A t : Shaped(t)' <=> Shaped(t)
  BY <1>1, SameRoots
<1>4. CASE CellsPerRow = 0
  <2>1. tree' = "divided_by_zero" /\ pending' = {}
    BY <1>1, <1>4 DEF HogImage
  <2>2. Frontier' = {} /\ Tasks' = {}
    BY <1>1, <2>1 DEF Frontier, Tasks
  <2>3. Typed'
    BY <1>1, <1>2, <2>1, <2>2 DEF Typed
  <2>4. FrontierApart' /\ WaitingAbove' /\ WaitingNested'
    BY <1>1, <2>1, <2>2 DEF FrontierApart, WaitingAbove, WaitingNested
  <2>5. WaitedFor' /\ SomethingLeft' /\ Finished'
    BY <1>1, <2>1, <2>2 DEF WaitedFor, SomethingLeft, Finished
  <2> QED  BY <2>3, <2>4, <2>5 DEF Structure
<1>5. CASE CellsPerRow > 0
  <2>1. tree' = "hog_image" /\ pending' = {ImageRoot}
    BY <1>5, <1>2 DEF HogImage, ImageRoot
  <2>2. Frontier' = {ImageRoot} /\ Tasks' = {ImageRoot}
    BY <1>1, <2>1 DEF Frontier, Tasks
  <2>3. TreeRoot' = ImageRoot
    BY <1>3, <2>1 DEF TreeRoot
  <2>4. ImageRoot \in HogTask /\ Nonempty(ImageRoot) /\ Shaped(ImageRoot)
    BY <1>2, <1>5, RootsAreTasks
  <2>5. Typed'
    <3>1. Within(ImageRoot, ImageRoot)
      BY <2>4, WithinIsReflexive
    <3> QED  BY <1>1, <1>2, <1>3, <1>5, <2>1, <2>2, <2>3, <2>4, <3>1 DEF Typed
  <2>6. FrontierApart' /\ WaitingAbove' /\ WaitingNested'
    BY <1>1, <2>1, <2>2 DEF FrontierApart, WaitingAbove, WaitingNested
  <2>7. WaitedFor' /\ SomethingLeft' /\ Finished'
    BY <1>1, <2>1, <2>2, <2>3 DEF WaitedFor, SomethingLeft, Finished
  <2> QED  BY <2>5, <2>6, <2>7 DEF Structure
<1> QED  BY <1>2, <1>4, <1>5

LEMMA HogDoneKeepsStructure ==
    ASSUME Structure, HogDone
    PROVE  Structure'
<1>1. /\ tree = "hog_image" /\ tree' = "done" /\ waiting = {} /\ pending = {}
      /\ waiting' = {} /\ pending' = {} /\ results' = results
      /\ width' = width /\ height' = height
  BY DEF HogDone, RootFinished
<1>2. Frontier' = Frontier /\ Tasks' = Tasks
  BY <1>1 DEF Frontier, Tasks
<1>3. TreeRoot' = TreeRoot /\ CellsPerRow' = CellsPerRow /\ \A t : Shaped(t)' <=> Shaped(t)
  BY <1>1, SameRoots DEF TreeRoot
<1>4. Typed'
  BY <1>1, <1>2, <1>3 DEF Structure, Typed
<1>5. FrontierApart' /\ WaitingAbove' /\ WaitingNested'
  BY <1>1, <1>2 DEF Structure, FrontierApart, WaitingAbove, WaitingNested
<1>6. WaitedFor' /\ SomethingLeft' /\ Finished'
  BY <1>1, <1>2, <1>3 DEF Structure, WaitedFor, SomethingLeft, Finished
<1> QED  BY <1>4, <1>5, <1>6 DEF Structure
---------------------------------------------------------------------------
\* The place of a cell in a sequence that has the cells row by row.
LEMMA PlaceInRows ==
    ASSUME NEW rows \in Nat, NEW columns \in Nat,
           NEW r \in 0 .. rows - 1, NEW c \in 0 .. columns - 1
    PROVE  r * columns + c + 1 \in 1 .. rows * columns
<1>1. r \in Nat /\ c \in Nat /\ r + 1 <= rows /\ c + 1 <= columns
  OBVIOUS
<1> DEFINE before == r * columns
           all == rows * columns
           upto == (r + 1) * columns
<1>2. upto = before + columns
  BY <1>1, SMTT(10)
<1>3. upto <= all
  BY <1>1, SMTT(10)
<1>4. before >= 0
  BY <1>1, SMTT(10)
<1>5. before \in Int /\ all \in Int /\ upto \in Int
  BY <1>1
<1> HIDE DEF before, all, upto
<1>6. before + c + 1 \in 1 .. all
  BY <1>1, <1>2, <1>3, <1>4, <1>5
<1> QED  BY <1>6 DEF before, all

\* Rows that follow others come behind all of their cells.
LEMMA PlaceAfterRows ==
    ASSUME NEW above \in Nat, NEW columns \in Nat, NEW r \in Int, NEW c \in Int
    PROVE  (above + r) * columns + c + 1 = above * columns + (r * columns + c + 1)
<1>1. (above + r) * columns = above * columns + r * columns
  BY SMTT(10)
<1> QED  BY <1>1

\* The sequence has rows of cells of the task, those from a given row on.
RowsFrom(sequence, from, rows, columns, task) ==
    /\ sequence \in Seq(Area)
    /\ Len(sequence) = rows * columns
    /\ \A r \in 0 .. rows - 1 : \A c \in 0 .. columns - 1 :
           sequence[r * columns + c + 1] = CellArea(task, from + r, c)

\* Two sequences of rows of the same width, one behind the other.
LEMMA RowsBehindRows ==
    ASSUME NEW above \in Nat, NEW below \in Nat, NEW columns \in Nat, NEW task, NEW s, NEW t,
           RowsFrom(s, 0, above, columns, task), RowsFrom(t, above, below, columns, task)
    PROVE  RowsFrom(s \o t, 0, above + below, columns, task)
<1>0. /\ s \in Seq(Area) /\ Len(s) = above * columns
      /\ t \in Seq(Area) /\ Len(t) = below * columns
  BY Zenon DEF RowsFrom
<1>1. /\ s \o t \in Seq(Area) /\ Len(s \o t) = Len(s) + Len(t)
      /\ \A i \in 1 .. Len(s) + Len(t) : (s \o t)[i] = IF i <= Len(s) THEN s[i] ELSE t[i - Len(s)]
  BY <1>0, ConcatProperties
<1>2. above * columns + below * columns = (above + below) * columns
  BY SMTT(10)
<1>3. ASSUME NEW r \in 0 .. (above + below) - 1, NEW c \in 0 .. columns - 1
      PROVE  (s \o t)[r * columns + c + 1] = CellArea(task, 0 + r, c)
  <2> DEFINE i == r * columns + c + 1
             first == above * columns
             both == (above + below) * columns
  <2>1. i \in 1 .. both
    BY PlaceInRows
  <2>2. first \in Nat
    BY SMTT(10)
  <2>3. CASE r < above
    <3>1. r \in 0 .. above - 1
      BY <2>3
    <3>2. i \in 1 .. first
      BY <3>1, PlaceInRows
    <3>3. s[i] = CellArea(task, 0 + r, c)
      BY <3>1, Zenon DEF RowsFrom
    <3>4. i \in 1 .. Len(s) + Len(t) /\ i <= Len(s)
      <4> HIDE DEF i, first, both
      <4>1. Len(s) = first /\ Len(s) + Len(t) = both
        BY <1>0, <1>2 DEF first, both
      <4> QED  BY <2>1, <3>2, <4>1
    <3> HIDE DEF i
    <3>5. (s \o t)[i] = s[i]
      BY <1>1, <3>4, Zenon
    <3> QED  BY <3>3, <3>5 DEF i
  <2>4. CASE r >= above
    <3> DEFINE q == r - above
               j == q * columns + c + 1
    <3>1. q \in 0 .. below - 1 /\ r = above + q /\ q \in Int /\ c \in Int
      BY <2>4
    <3>2. i = first + j
      <4> HIDE DEF q
      <4> QED  BY <3>1, PlaceAfterRows
    <3>3. t[j] = CellArea(task, 0 + r, c)
      <4> HIDE DEF q
      <4>1. t[j] = CellArea(task, above + q, c)
        BY <3>1, Zenon DEF RowsFrom
      <4>2. 0 + r = above + q
        BY <3>1
      <4> QED  BY <4>1, <4>2, Zenon
    <3>4. j >= 1 /\ j \in Int
      <4>1. j \in 1 .. below * columns
        <5> HIDE DEF q
        <5> QED  BY <3>1, PlaceInRows
      <4> HIDE DEF j
      <4> QED  BY <4>1
    <3>5. i \in 1 .. Len(s) + Len(t) /\ ~ (i <= Len(s)) /\ i - Len(s) = j
      <4>1. Len(s) = first /\ Len(s) + Len(t) = both
        BY <1>0, <1>2 DEF first, both
      <4> HIDE DEF i, first, both, j
      <4> QED  BY <2>1, <2>2, <3>2, <3>4, <4>1
    <3> HIDE DEF i, j
    <3>6. (s \o t)[i] = t[j]
      BY <1>1, <3>5, Zenon
    <3> QED  BY <3>3, <3>6 DEF i
  <2>5. r < above \/ r >= above
    OBVIOUS
  <2> QED  BY <2>3, <2>4, <2>5, Zenon
<1>4. Len(s \o t) = (above + below) * columns
  BY <1>0, <1>1, <1>2, Zenon
<1> QED  BY <1>1, <1>3, <1>4, Zenon DEF RowsFrom

\* The halves of rows have the rows of the task, the second after the first.
LEMMA RowsOfHalves ==
    ASSUME NEW task \in HogTask, Nonempty(task), HogCuts(task), task.kind = "row"
    PROVE  /\ RowsIn(FirstPart(task)) \in Nat /\ RowsIn(SecondPart(task)) \in Nat
           /\ RowsIn(FirstPart(task)) + RowsIn(SecondPart(task)) = RowsIn(task)
           /\ ColumnsIn(task) \in Nat
           /\ ColumnsIn(FirstPart(task)) = ColumnsIn(task)
           /\ ColumnsIn(SecondPart(task)) = ColumnsIn(task)
           /\ \A r \in 0 .. RowsIn(FirstPart(task)) - 1 : \A c \in Int :
                  CellArea(FirstPart(task), r, c) = CellArea(task, r, c)
           /\ \A r \in 0 .. RowsIn(SecondPart(task)) - 1 : \A c \in Int :
                  CellArea(SecondPart(task), r, c)
                  = CellArea(task, RowsIn(FirstPart(task)) + r, c)
<1> DEFINE first == FirstPart(task)
           second == SecondPart(task)
           d == CellDimension
<1>0. d \in Nat \ {0}
  BY HogAssumption
<1> DEFINE m == task.to_y - task.from_y + 1
           n == m \div d
           h == n \div 2
           size == h * d
<1>1. m \in Nat /\ n > 1
  BY TaskBorders DEF Nonempty, HogCuts, CellsOf
<1>2. /\ n \in Nat /\ h \in Nat /\ 1 <= h /\ h < n
      /\ size \in Nat /\ 1 <= size /\ size < m
      /\ size \div d = h /\ (m - size) \div d = n - h
  <2> HIDE DEF m, d
  <2> QED  BY <1>0, <1>1, HalfOfCells, Zenon
<1>3. Half(task) = task.from_y + size
  BY <1>2 DEF Half, IsRow, CellsOf
<1>4. /\ first = [task EXCEPT !.to_y = Half(task) - 1]
      /\ second = [task EXCEPT !.from_y = Half(task)]
  <2>1. IsRow(task)
    BY DEF IsRow
  <2> QED  BY <2>1 DEF FirstPart, SecondPart
<1> HIDE DEF first, second
<1>5. /\ first.from_x = task.from_x /\ first.to_x = task.to_x
      /\ first.from_y = task.from_y /\ first.to_y = task.from_y + size - 1
      /\ second.from_x = task.from_x /\ second.to_x = task.to_x
      /\ second.from_y = task.from_y + size /\ second.to_y = task.to_y
  <2>1. /\ first.from_x = task.from_x /\ first.to_x = task.to_x
        /\ first.from_y = task.from_y /\ first.to_y = Half(task) - 1
        /\ second.from_x = task.from_x /\ second.to_x = task.to_x
        /\ second.from_y = Half(task) /\ second.to_y = task.to_y
    BY <1>4 DEF HogTask
  <2> HIDE DEF size
  <2> QED  BY <1>2, <1>3, <2>1, TaskBorders
<1>6. ColumnsIn(first) = ColumnsIn(task) /\ ColumnsIn(second) = ColumnsIn(task)
  BY <1>5 DEF ColumnsIn
<1>7. ColumnsIn(task) \in Nat
  <2>1. task.to_x - task.from_x + 1 \in Nat
    BY TaskBorders DEF Nonempty
  <2> QED  BY <1>0, <2>1, QuotientIsNatural DEF ColumnsIn
<1>8. RowsIn(first) = h /\ RowsIn(second) = n - h /\ RowsIn(task) = n
  <2> HIDE DEF size, h, n
  <2>1. first.to_y - first.from_y + 1 = size
    BY <1>2, <1>5, TaskBorders
  <2>2. second.to_y - second.from_y + 1 = m - size
    BY <1>2, <1>5, TaskBorders
  <2>3. RowsIn(first) = IF size \div d = 0 THEN 1 ELSE size \div d
    BY <2>1 DEF RowsIn
  <2>4. RowsIn(second) = IF (m - size) \div d = 0 THEN 1 ELSE (m - size) \div d
    BY <2>2 DEF RowsIn
  <2>5. RowsIn(task) = IF n = 0 THEN 1 ELSE n
    BY DEF RowsIn, n
  <2> QED  BY <1>2, <2>3, <2>4, <2>5
<1>9. \A r \in Int : (h + r) * d = size + r * d
  BY <1>0, <1>2, SMTT(10)
<1>10. ASSUME NEW r \in 0 .. RowsIn(first) - 1, NEW c \in Int
       PROVE  CellArea(first, r, c) = CellArea(task, r, c)
  <2>1. r \in Int /\ r # n - 1 /\ (r = h - 1 => (r + 1) * d = size)
    BY <1>2, <1>8
  <2> HIDE DEF size, h, n
  <2>2. CASE r = h - 1
    BY <1>2, <1>5, <1>8, <2>1, <2>2, TaskBorders DEF CellArea
  <2>3. CASE r # h - 1
    BY <1>2, <1>5, <1>8, <2>1, <2>3 DEF CellArea
  <2> QED  BY <2>2, <2>3
<1>11. ASSUME NEW r \in 0 .. RowsIn(second) - 1, NEW c \in Int
       PROVE  CellArea(second, r, c) = CellArea(task, h + r, c)
  <2> HIDE DEF size, h, n
  <2>1. r \in Int /\ h + r \in Int /\ (h + r = n - 1 <=> r = n - h - 1)
    BY <1>2, <1>8
  <2>2. (h + r) * d = size + r * d /\ (h + r + 1) * d = size + (r + 1) * d
    <3>1. h + r + 1 = h + (r + 1)
      BY <1>2, <2>1
    <3> QED  BY <1>9, <2>1, <3>1
  <2> DEFINE above == r * d
             upto == (r + 1) * d
  <2>3. above \in Int /\ upto \in Int
    BY <1>0, <2>1
  <2> HIDE DEF above, upto
  <2>4. (h + r) * d = size + above /\ (h + r + 1) * d = size + upto
    BY <2>2 DEF above, upto
  <2>5. CellArea(second, r, c) =
            [from_x |-> task.from_x + c * d,
             to_x   |-> task.from_x + (c + 1) * d - 1,
             from_y |-> task.from_y + size + above,
             to_y   |-> IF r = n - h - 1 THEN task.to_y ELSE task.from_y + size + upto - 1]
    BY <1>5, <1>8 DEF CellArea, above, upto
  <2>6. CellArea(task, h + r, c) =
            [from_x |-> task.from_x + c * d,
             to_x   |-> task.from_x + (c + 1) * d - 1,
             from_y |-> task.from_y + (size + above),
             to_y   |-> IF h + r = n - 1 THEN task.to_y ELSE task.from_y + (size + upto) - 1]
    BY <1>8, <2>4 DEF CellArea
  <2>7. /\ task.from_y + size + above = task.from_y + (size + above)
        /\ task.from_y + size + upto - 1 = task.from_y + (size + upto) - 1
    BY <1>2, <2>3, TaskBorders
  <2> QED  BY <2>1, <2>5, <2>6, <2>7
<1>12. RowsIn(first) \in Nat /\ RowsIn(second) \in Nat /\ RowsIn(task) \in Nat
       /\ RowsIn(first) + RowsIn(second) = RowsIn(task)
  <2> HIDE DEF h, n
  <2> QED  BY <1>2, <1>8
<1>13. RowsIn(first) = h
  BY <1>8
<1> HIDE DEF m, n, h, size
<1> QED  BY <1>6, <1>7, <1>10, <1>11, <1>12, <1>13 DEF first, second

LEMMA ColumnsHaveOneRow ==
    ASSUME NEW task \in HogTask, Nonempty(task), Shaped(task), task.kind = "col"
    PROVE  RowsIn(task) = 1
<1>1. task.to_y - task.from_y + 1 \in Nat
  BY TaskBorders DEF Nonempty
<1>2. (task.to_y - task.from_y + 1) \div CellDimension \in Nat
  BY <1>1, HogAssumption, QuotientIsNatural
<1>3. (task.to_y - task.from_y + 1) \div CellDimension <= 1
  BY DEF Shaped
<1> DEFINE cells == (task.to_y - task.from_y + 1) \div CellDimension
<1>4. RowsIn(task) = IF cells = 0 THEN 1 ELSE cells
  BY DEF RowsIn
<1> HIDE DEF cells
<1>5. cells \in Nat /\ cells <= 1
  BY <1>2, <1>3 DEF cells
<1> QED  BY <1>4, <1>5

\* The halves of columns have the columns of the task in one row.
LEMMA ColumnsOfHalves ==
    ASSUME NEW task \in HogTask, Nonempty(task), Shaped(task), HogCuts(task),
           task.kind = "col"
    PROVE  /\ RowsIn(FirstPart(task)) = 1 /\ RowsIn(SecondPart(task)) = 1
           /\ RowsIn(task) = 1
           /\ ColumnsIn(FirstPart(task)) \in Nat /\ ColumnsIn(SecondPart(task)) \in Nat
           /\ ColumnsIn(FirstPart(task)) + ColumnsIn(SecondPart(task)) = ColumnsIn(task)
           /\ \A c \in Int : CellArea(FirstPart(task), 0, c) = CellArea(task, 0, c)
           /\ \A c \in Int : CellArea(SecondPart(task), 0, c)
                             = CellArea(task, 0, ColumnsIn(FirstPart(task)) + c)
<1> DEFINE first == FirstPart(task)
           second == SecondPart(task)
           d == CellDimension
           m == task.to_x - task.from_x + 1
           n == m \div d
           h == n \div 2
           size == h * d
<1>1. d \in Nat \ {0}
  BY HogAssumption
<1>2. m \in Nat /\ n > 1
  <2>1. m \in Nat
    BY TaskBorders DEF Nonempty
  <2>2. n \in Nat
    BY <1>1, <2>1, QuotientIsNatural
  <2>3. n > SequentialCells
    BY DEF HogCuts, CellsOf
  <2> HIDE DEF n
  <2> QED  BY <2>1, <2>2, <2>3, HogAssumption
<1>3. /\ n \in Nat /\ h \in Nat /\ 1 <= h /\ h < n
      /\ size \in Nat /\ 1 <= size /\ size < m
      /\ size \div d = h /\ (m - size) \div d = n - h
  <2> HIDE DEF m, d
  <2> QED  BY <1>1, <1>2, HalfOfCells, Zenon
<1>4. Half(task) = task.from_x + size
  BY DEF Half, IsRow, CellsOf
<1>5. /\ first = [task EXCEPT !.to_x = Half(task) - 1]
      /\ second = [task EXCEPT !.from_x = Half(task)]
  <2>1. ~ IsRow(task)
    BY DEF IsRow
  <2> QED  BY <2>1 DEF FirstPart, SecondPart
<1>6. RowsIn(first) = 1 /\ RowsIn(second) = 1 /\ RowsIn(task) = 1
  <2>1. /\ first.from_y = task.from_y /\ first.to_y = task.to_y
        /\ second.from_y = task.from_y /\ second.to_y = task.to_y
    <3> HIDE DEF first, second
    <3> QED  BY <1>5 DEF HogTask
  <2>2. RowsIn(first) = RowsIn(task) /\ RowsIn(second) = RowsIn(task)
    BY <2>1 DEF RowsIn
  <2> QED  BY <2>2, ColumnsHaveOneRow
<1> HIDE DEF first, second
<1>7. /\ first.from_x = task.from_x /\ first.to_x = task.from_x + size - 1
      /\ first.from_y = task.from_y /\ first.to_y = task.to_y
      /\ second.from_x = task.from_x + size /\ second.to_x = task.to_x
      /\ second.from_y = task.from_y /\ second.to_y = task.to_y
  <2>1. /\ first.from_x = task.from_x /\ first.to_x = Half(task) - 1
        /\ first.from_y = task.from_y /\ first.to_y = task.to_y
        /\ second.from_x = Half(task) /\ second.to_x = task.to_x
        /\ second.from_y = task.from_y /\ second.to_y = task.to_y
    BY <1>5 DEF HogTask
  <2> HIDE DEF size
  <2> QED  BY <1>3, <1>4, <2>1, TaskBorders
<1>8. ColumnsIn(first) = h /\ ColumnsIn(second) = n - h /\ ColumnsIn(task) = n
  <2> HIDE DEF size, h, n
  <2>1. first.to_x - first.from_x + 1 = size
    BY <1>3, <1>7, TaskBorders
  <2>2. second.to_x - second.from_x + 1 = m - size
    BY <1>3, <1>7, TaskBorders
  <2>3. ColumnsIn(first) = size \div d /\ ColumnsIn(second) = (m - size) \div d
    BY <2>1, <2>2 DEF ColumnsIn
  <2>4. ColumnsIn(task) = n
    BY DEF ColumnsIn, n
  <2> QED  BY <1>3, <2>3, <2>4
<1>9. \A c \in Int : (h + c) * d = size + c * d
  BY <1>1, <1>3, SMTT(10)
<1>10. ASSUME NEW c \in Int PROVE CellArea(first, 0, c) = CellArea(task, 0, c)
  BY <1>6, <1>7 DEF CellArea
<1>11. ASSUME NEW c \in Int PROVE CellArea(second, 0, c) = CellArea(task, 0, h + c)
  <2> HIDE DEF size, h, n
  <2>1. (h + c) * d = size + c * d /\ (h + c + 1) * d = size + (c + 1) * d
    <3>1. h + c + 1 = h + (c + 1) /\ c + 1 \in Int
      BY <1>3
    <3> QED  BY <1>9, <3>1
  <2> DEFINE before == c * d
             upto == (c + 1) * d
  <2>2. before \in Int /\ upto \in Int
    BY <1>1
  <2> HIDE DEF before, upto
  <2>3. (h + c) * d = size + before /\ (h + c + 1) * d = size + upto
    BY <2>1 DEF before, upto
  <2>4. CellArea(second, 0, c) =
            [from_x |-> task.from_x + size + before,
             to_x   |-> task.from_x + size + upto - 1,
             from_y |-> task.from_y + 0 * d,
             to_y   |-> IF 0 = 1 - 1 THEN task.to_y ELSE task.from_y + (0 + 1) * d - 1]
    BY <1>6, <1>7 DEF CellArea, before, upto
  <2>5. CellArea(task, 0, h + c) =
            [from_x |-> task.from_x + (size + before),
             to_x   |-> task.from_x + (size + upto) - 1,
             from_y |-> task.from_y + 0 * d,
             to_y   |-> IF 0 = 1 - 1 THEN task.to_y ELSE task.from_y + (0 + 1) * d - 1]
    BY <1>6, <2>3 DEF CellArea
  <2>6. /\ task.from_x + size + before = task.from_x + (size + before)
        /\ task.from_x + size + upto - 1 = task.from_x + (size + upto) - 1
    BY <1>3, <2>2, TaskBorders
  <2> QED  BY <2>4, <2>5, <2>6
<1>12. /\ ColumnsIn(first) \in Nat /\ ColumnsIn(second) \in Nat
       /\ ColumnsIn(first) + ColumnsIn(second) = ColumnsIn(task)
  <2> HIDE DEF h, n
  <2> QED  BY <1>3, <1>8
<1>13. ColumnsIn(first) = h
  BY <1>8
<1> HIDE DEF m, n, h, size
<1> QED  BY <1>6, <1>10, <1>11, <1>12, <1>13 DEF first, second

\* One row in order.
LEMMA OneRowInOrder ==
    ASSUME NEW task, NEW sequence, RowsIn(task) = 1, ColumnsIn(task) \in Nat,
           InOrderOfRows(task, sequence)
    PROVE  /\ Len(sequence) = ColumnsIn(task)
           /\ \A c \in 0 .. ColumnsIn(task) - 1 : sequence[c + 1] = CellArea(task, 0, c)
<1> DEFINE columns == ColumnsIn(task)
<1>1. /\ Len(sequence) = 1 * columns
      /\ \A r \in 0 .. 1 - 1 : \A c \in 0 .. columns - 1 :
             sequence[r * columns + c + 1] = CellArea(task, r, c)
  BY DEF InOrderOfRows
<1>2. columns \in Nat
  OBVIOUS
<1> HIDE DEF columns
<1>3. 1 * columns = columns
  BY <1>2
<1>4. ASSUME NEW c \in 0 .. columns - 1 PROVE sequence[c + 1] = CellArea(task, 0, c)
  <2>1. 0 \in 0 .. 1 - 1
    OBVIOUS
  <2>2. sequence[0 * columns + c + 1] = CellArea(task, 0, c)
    BY <1>1, <2>1
  <2>3. 0 * columns + c + 1 = c + 1
    BY <1>2
  <2> QED  BY <2>2, <2>3
<1> QED  BY <1>1, <1>3, <1>4 DEF columns

LEMMA OneRowIsInOrder ==
    ASSUME NEW task, NEW sequence \in Seq(Area), RowsIn(task) = 1, ColumnsIn(task) \in Nat,
           Len(sequence) = ColumnsIn(task),
           \A c \in 0 .. ColumnsIn(task) - 1 : sequence[c + 1] = CellArea(task, 0, c)
    PROVE  InOrderOfRows(task, sequence)
<1> DEFINE columns == ColumnsIn(task)
<1>1. columns \in Nat
  OBVIOUS
<1>2. Len(sequence) = columns /\ \A c \in 0 .. columns - 1 : sequence[c + 1] = CellArea(task, 0, c)
  OBVIOUS
<1> HIDE DEF columns
<1>3. Len(sequence) = 1 * columns
  BY <1>1, <1>2
<1>4. ASSUME NEW r \in 0 .. 1 - 1, NEW c \in 0 .. columns - 1
      PROVE  sequence[r * columns + c + 1] = CellArea(task, r, c)
  <2>1. r = 0 /\ 0 * columns + c + 1 = c + 1
    BY <1>1
  <2> QED  BY <1>2, <2>1
<1> QED  BY <1>3, <1>4 DEF InOrderOfRows, columns

\* The histograms of the cells of one task, from left to right.
LEMMA HistogramsAreInOrder ==
    ASSUME NEW task \in HogTask, Nonempty(task), Shaped(task), task.kind = "col"
    PROVE  InOrderOfRows(task, HistogramsOf(task))
<1> DEFINE columns == ColumnsIn(task)
           cell(i) == [from_x |-> task.from_x + (i - 1) * CellDimension,
                       to_x   |-> task.from_x + i * CellDimension - 1,
                       from_y |-> task.from_y,
                       to_y   |-> task.to_y]
<1>1. RowsIn(task) = 1
  BY ColumnsHaveOneRow
<1>2. columns \in Nat
  <2>1. task.to_x - task.from_x + 1 \in Nat
    BY TaskBorders DEF Nonempty
  <2> QED  BY <2>1, HogAssumption, QuotientIsNatural DEF ColumnsIn
<1>3. HistogramsOf(task) = [i \in 1 .. columns |-> cell(i)]
  <2>1. CellsOf(task) = columns
    BY DEF CellsOf, ColumnsIn
  <2> QED  BY <2>1 DEF HistogramsOf
<1>4. \A i \in Int : cell(i) \in Area
  <2>1. \A i \in Int : i * CellDimension \in Int /\ (i - 1) * CellDimension \in Int
    BY HogAssumption
  <2> QED  BY <2>1, TaskBorders DEF Area
<1>5. ASSUME NEW c \in Int PROVE cell(c + 1) = CellArea(task, 0, c)
  <2>1. c + 1 - 1 = c
    OBVIOUS
  <2>2. task.from_y + 0 * CellDimension = task.from_y
    BY HogAssumption, TaskBorders
  <2> QED  BY <1>1, <2>1, <2>2 DEF CellArea
<1> HIDE DEF columns, cell
<1>6. HistogramsOf(task) \in Seq(Area) /\ Len(HistogramsOf(task)) = columns
  BY <1>2, <1>3, <1>4
<1>7. \A c \in 0 .. columns - 1 : HistogramsOf(task)[c + 1] = CellArea(task, 0, c)
  <2>1. ASSUME NEW c \in 0 .. columns - 1 PROVE HistogramsOf(task)[c + 1] = cell(c + 1)
    BY <1>2, <1>3
  <2> QED  BY <1>2, <1>5, <2>1
<1> QED  BY <1>1, <1>2, <1>6, <1>7, OneRowIsInOrder DEF columns
---------------------------------------------------------------------------
\* The first tree has rows and columns of pixels, the second of cells.
LEMMA KindsOfTree ==
    ASSUME Structure, NEW t \in Tasks
    PROVE  /\ tree = "hog" => t.kind \in {"row", "col"}
           /\ tree \in {"hog_image", "done"} => t.kind \in {"image_row", "image_col"}
<1>1. Within(t, TreeRoot)
  BY TasksAreTasks
<1>2. HogRoot.kind = "row" /\ ImageRoot.kind = "image_row"
  BY DEF HogRoot, ImageRoot, Rectangle
<1> QED  BY <1>1, <1>2 DEF Within, TreeRoot

\* What is said of the cells of a task depends on its borders only.
LEMMA SameBorders ==
    ASSUME NEW s, NEW t, NEW sequence,
           s.from_x = t.from_x, s.to_x = t.to_x, s.from_y = t.from_y, s.to_y = t.to_y,
           InOrderOfRows(s, sequence)
    PROVE  InOrderOfRows(t, sequence)
<1>1. RowsIn(s) = RowsIn(t) /\ ColumnsIn(s) = ColumnsIn(t)
  BY DEF RowsIn, ColumnsIn
<1>2. \A r, c : CellArea(s, r, c) = CellArea(t, r, c)
  BY <1>1 DEF CellArea
<1> QED  BY <1>1, <1>2, Zenon DEF InOrderOfRows

\* The continuation of a task that has cut makes a sequence in the order of the
\* rows of those of its parts.
LEMMA JoinedIsInOrder ==
    ASSUME Structure, ResultsInOrder, tree = "hog", NEW task \in waiting,
           Parts(task) \subseteq DOMAIN results
    PROVE  InOrderOfRows(task, Joined(task))
<1>1. /\ task \in HogTask /\ Nonempty(task) /\ Shaped(task) /\ PartsOf(task) # <<>>
      /\ task.kind \in {"row", "col"}
  BY TasksAreTasks, KindsOfTree DEF Tasks, Structure, WaitingAbove
<1>2. \A u \in Parts(task) : InOrderOfRows(u, results[u])
  BY DEF ResultsInOrder
<1>3. CASE HogCuts(task)
  <2> DEFINE first == FirstPart(task)
             second == SecondPart(task)
             s == results[first]
             t == results[second]
  <2>1. Joined(task) = s \o t
    <3>1. PartsOf(task)[1] = first /\ PartsOf(task)[2] = second
      <4>1. PartsOf(task) = <<first, second>>
        BY <1>1, <1>3, PartsByKind
      <4> HIDE DEF first, second
      <4> QED  BY <4>1
    <3> HIDE DEF first, second
    <3> QED  BY <1>3, <3>1 DEF Joined
  <2>2. InOrderOfRows(first, s) /\ InOrderOfRows(second, t)
    <3>1. Parts(task) = {first, second}
      BY <1>1, <1>3, PartsByKind
    <3> QED  BY <1>2, <3>1
  <2>3. s \in Seq(Area) /\ t \in Seq(Area)
    BY <2>2 DEF InOrderOfRows
  <2>4. CASE task.kind = "row"
    <3> DEFINE above == RowsIn(first)
               below == RowsIn(second)
               columns == ColumnsIn(task)
    <3>1. /\ above \in Nat /\ below \in Nat /\ above + below = RowsIn(task) /\ columns \in Nat
          /\ ColumnsIn(first) = columns /\ ColumnsIn(second) = columns
          /\ \A r \in 0 .. above - 1 : \A c \in Int : CellArea(first, r, c) = CellArea(task, r, c)
          /\ \A r \in 0 .. below - 1 : \A c \in Int :
                 CellArea(second, r, c) = CellArea(task, above + r, c)
      BY <1>1, <1>3, <2>4, RowsOfHalves, Zenon
    <3> HIDE DEF first, second, s, t
    <3>2. Len(s) = above * columns /\ Len(t) = below * columns
      BY <2>2, <3>1, Zenon DEF InOrderOfRows
    <3>3. ASSUME NEW r \in 0 .. above - 1, NEW c \in 0 .. columns - 1
          PROVE  s[r * columns + c + 1] = CellArea(task, 0 + r, c)
      <4>1. c \in Int /\ 0 + r = r
        OBVIOUS
      <4>2. s[r * columns + c + 1] = CellArea(first, r, c)
        BY <2>2, <3>1, Zenon DEF InOrderOfRows
      <4> QED  BY <3>1, <4>1, <4>2, Zenon
    <3>4. ASSUME NEW r \in 0 .. below - 1, NEW c \in 0 .. columns - 1
          PROVE  t[r * columns + c + 1] = CellArea(task, above + r, c)
      <4>1. c \in Int
        OBVIOUS
      <4>2. t[r * columns + c + 1] = CellArea(second, r, c)
        BY <2>2, <3>1, Zenon DEF InOrderOfRows
      <4> QED  BY <3>1, <4>1, <4>2, Zenon
    <3> HIDE DEF above, below, columns
    <3>5. RowsFrom(s, 0, above, columns, task) /\ RowsFrom(t, above, below, columns, task)
      BY <2>3, <3>2, <3>3, <3>4, Zenon DEF RowsFrom
    <3>6. RowsFrom(s \o t, 0, above + below, columns, task)
      BY <3>1, <3>5, RowsBehindRows
    <3>7. RowsFrom(s \o t, 0, RowsIn(task), columns, task)
      BY <3>1, <3>6, Zenon
    <3>8. ASSUME NEW r \in 0 .. RowsIn(task) - 1, NEW c \in 0 .. columns - 1
          PROVE  (s \o t)[r * columns + c + 1] = CellArea(task, r, c)
      <4>1. 0 + r = r
        BY <3>1
      <4> QED  BY <3>7, <4>1, Zenon DEF RowsFrom
    <3> QED  BY <2>1, <3>7, <3>8, Zenon DEF InOrderOfRows, RowsFrom, columns
  <2>5. CASE task.kind = "col"
    <3> DEFINE before == ColumnsIn(first)
               after == ColumnsIn(second)
               columns == ColumnsIn(task)
    <3>1. /\ RowsIn(first) = 1 /\ RowsIn(second) = 1 /\ RowsIn(task) = 1
          /\ before \in Nat /\ after \in Nat /\ before + after = columns
          /\ \A c \in Int : CellArea(first, 0, c) = CellArea(task, 0, c)
          /\ \A c \in Int : CellArea(second, 0, c) = CellArea(task, 0, before + c)
      BY <1>1, <1>3, <2>5, ColumnsOfHalves, Zenon
    <3> HIDE DEF first, second, s, t
    <3>2. ASSUME NEW part, NEW sequence, RowsIn(part) = 1, ColumnsIn(part) \in Nat,
                 InOrderOfRows(part, sequence)
          PROVE  /\ Len(sequence) = ColumnsIn(part)
                 /\ \A c \in 0 .. ColumnsIn(part) - 1 : sequence[c + 1] = CellArea(part, 0, c)
      BY <3>2, OneRowInOrder
    <3>3. Len(s) = before /\ Len(t) = after
      BY <2>2, <3>1, <3>2
    <3>4. \A c \in 0 .. before - 1 : s[c + 1] = CellArea(task, 0, c)
      <4>1. \A c \in 0 .. before - 1 : c \in Int /\ s[c + 1] = CellArea(first, 0, c)
        BY <2>2, <3>1, <3>2
      <4> QED  BY <3>1, <4>1, Zenon
    <3>5. \A c \in 0 .. after - 1 : t[c + 1] = CellArea(task, 0, before + c)
      <4>1. \A c \in 0 .. after - 1 : c \in Int /\ t[c + 1] = CellArea(second, 0, c)
        BY <2>2, <3>1, <3>2
      <4> QED  BY <3>1, <4>1, Zenon
    <3> HIDE DEF before, after, columns
    <3>6. /\ s \o t \in Seq(Area) /\ Len(s \o t) = columns
          /\ \A i \in 1 .. columns :
                 (s \o t)[i] = IF i <= before THEN s[i] ELSE t[i - before]
      BY <2>3, <3>1, <3>3, ConcatProperties
    <3>7. ASSUME NEW c \in 0 .. columns - 1
          PROVE  (s \o t)[c + 1] = CellArea(task, 0, c)
      <4>1. CASE c < before
        <5>1. c \in 0 .. before - 1 /\ c + 1 \in 1 .. columns /\ c + 1 <= before
          BY <3>1, <4>1
        <5> QED  BY <3>4, <3>6, <5>1
      <4>2. CASE c >= before
        <5> DEFINE e == c - before
        <5>1. /\ e \in 0 .. after - 1 /\ before + e = c
              /\ c + 1 \in 1 .. columns /\ ~ (c + 1 <= before) /\ (c + 1) - before = e + 1
          BY <3>1, <4>2
        <5> HIDE DEF e
        <5>2. (s \o t)[c + 1] = t[(c + 1) - before]
          <6> DEFINE i == c + 1
          <6>1. i \in 1 .. columns /\ ~ (i <= before)
            BY <5>1
          <6> HIDE DEF i
          <6>2. (s \o t)[i] = t[i - before]
            BY <3>6, <6>1, Zenon
          <6> QED  BY <6>2 DEF i
        <5>3. t[e + 1] = CellArea(task, 0, before + e)
          BY <3>5, <5>1, Zenon
        <5> QED  BY <5>1, <5>2, <5>3, Zenon
      <4>3. c < before \/ c >= before
        BY <3>1
      <4> QED  BY <4>1, <4>2, <4>3, Zenon
    <3>8. columns \in Nat
      BY <3>1
    <3> QED  BY <2>1, <3>1, <3>6, <3>7, <3>8, OneRowIsInOrder, Zenon DEF columns
  <2> QED  BY <1>1, <2>4, <2>5
<1>4. CASE ~ HogCuts(task)
  <2> DEFINE part == OnlyPart(task)
  <2>1. /\ PartsOf(task) = <<part>> /\ part \in Parts(task)
    BY <1>1, <1>4, PartsByKind
  <2>2. Joined(task) = results[part]
    <3>1. PartsOf(task)[1] = part
      BY <2>1
    <3> HIDE DEF part
    <3> QED  BY <1>4, <3>1 DEF Joined
  <2>3. /\ part.from_x = task.from_x /\ part.to_x = task.to_x
        /\ part.from_y = task.from_y /\ part.to_y = task.to_y
    BY <1>1 DEF OnlyPart, HogTask
  <2> HIDE DEF part
  <2> QED  BY <1>2, <2>1, <2>2, <2>3, SameBorders
<1> QED  BY <1>3, <1>4
---------------------------------------------------------------------------
\* What is kept of the histograms and of the image by a step that only changes
\* the tasks: every cell that was to be painted still is, and no other.
LEMMA HistogramsStay ==
    ASSUME HistogramsInOrder, SameImage, histograms' = histograms
    PROVE  HistogramsInOrder'
<1>1. HogRoot' = HogRoot
  BY SameRoots DEF SameImage
<1> QED  BY <1>1 DEF HistogramsInOrder, SameImage

LEMMA ImageStays ==
    ASSUME CellsPainted, SameImage, painted' = painted,
           \A c \in DOMAIN painted : (\E t \in pending' : Covers(t, c)) <=> \E t \in pending : Covers(t, c)
    PROVE  CellsPainted'
<1>1. HogRoot' = HogRoot /\ CellsPerRow' = CellsPerRow
  BY SameRoots DEF SameImage
<1>2. CASE tree \in {"hog", "divided_by_zero"}
  BY <1>2 DEF CellsPainted, SameImage
<1>3. CASE tree \notin {"hog", "divided_by_zero"}
  <2>1. /\ DOMAIN painted = (0 .. CellsPerRow - 1) \X (0 .. RowsIn(HogRoot) - 1)
        /\ \A c \in DOMAIN painted :
               painted[c] = IF \E t \in pending : Covers(t, c) THEN <<>>
                            ELSE <<CellArea(HogRoot, c[2], c[1])>>
    BY <1>3 DEF CellsPainted
  <2>2. ASSUME NEW c \in DOMAIN painted
        PROVE  painted[c] = IF \E t \in pending' : Covers(t, c) THEN <<>>
                            ELSE <<CellArea(HogRoot, c[2], c[1])>>
    BY <2>1, Zenon
  <2> QED  BY <1>1, <1>3, <2>1, <2>2 DEF CellsPainted, SameImage
<1> QED  BY <1>2, <1>3

LEMMA CutKeepsData ==
    ASSUME HogInv, NEW task \in pending, Cut(task)
    PROVE  ResultsInOrder' /\ HistogramsInOrder' /\ CellsPainted'
<1>0. Structure
  BY DEF HogInv, Structure
<1>1. /\ PartsOf(task) # <<>>
      /\ pending' = (pending \ {task}) \cup Parts(task)
      /\ SameImage /\ results' = results /\ histograms' = histograms /\ painted' = painted
  BY DEF Cut, Parts, SameImage
<1>2. ResultsInOrder'
  BY <1>1 DEF HogInv, ResultsInOrder, SameImage
<1>3. HistogramsInOrder'
  BY <1>1, HistogramsStay DEF HogInv
<1>4. CellsPainted'
  <2>1. \A c \in Int \X Int : Covers(task, c) <=> \E u \in Parts(task) : Covers(u, c)
    BY <1>0, <1>1, TasksAreTasks, PartsOfTask DEF Tasks, Frontier
  <2>2. DOMAIN painted \subseteq Int \X Int
    <3>1. CellsPerRow \in Nat /\ RowsIn(HogRoot) \in Nat
      BY RootsAreTasks DEF HogInv, Typed
    <3>2. \/ DOMAIN painted = {}
          \/ DOMAIN painted = (0 .. CellsPerRow - 1) \X (0 .. RowsIn(HogRoot) - 1)
      BY DEF HogInv, CellsPainted
    <3> QED  BY <3>1, <3>2
  <2>3. ASSUME NEW c \in DOMAIN painted
        PROVE  (\E t \in pending' : Covers(t, c)) <=> \E t \in pending : Covers(t, c)
    BY <1>1, <2>1, <2>2
  <2> QED  BY <1>1, <2>3, ImageStays DEF HogInv
<1> QED  BY <1>2, <1>3, <1>4

LEMMA CalcCellsKeepsData ==
    ASSUME HogInv, NEW task \in pending, CalcCells(task)
    PROVE  /\ SameImage /\ waiting' = waiting /\ pending' = pending \ {task}
           /\ DOMAIN results' = DOMAIN results \cup {task}
           /\ ResultsInOrder' /\ HistogramsInOrder' /\ CellsPainted'
<1>0. Structure
  BY DEF HogInv, Structure
<1>1. /\ task.kind = "col" /\ pending' = pending \ {task} /\ SameImage
      /\ waiting' = waiting /\ histograms' = histograms /\ painted' = painted
      /\ results' = [t \in (DOMAIN results \ {}) \cup {task} |->
                        IF t = task THEN HistogramsOf(task) ELSE results[t]]
  BY DEF CalcCells, SetResult, SameImage
<1>2. task \in Tasks /\ task \in HogTask /\ Nonempty(task) /\ Shaped(task)
  BY <1>0, TasksAreTasks DEF Tasks, Frontier
<1>3. tree = "hog"
  BY <1>0, <1>1, <1>2, KindsOfTree DEF Structure, Typed, Finished
<1>4. DOMAIN results' = DOMAIN results \cup {task}
  BY <1>1
<1>5. ResultsInOrder'
  <2>1. InOrderOfRows(task, HistogramsOf(task))
    BY <1>1, <1>2, HistogramsAreInOrder
  <2>2. \A t \in DOMAIN results : InOrderOfRows(t, results[t])
    BY <1>3 DEF HogInv, ResultsInOrder
  <2>3. ASSUME NEW t \in DOMAIN results \cup {task} PROVE InOrderOfRows(t, results'[t])
    BY <1>1, <2>1, <2>2
  <2> QED  BY <1>4, <2>3 DEF ResultsInOrder
<1>6. HistogramsInOrder'
  BY <1>1, HistogramsStay DEF HogInv
<1>7. CellsPainted'
  BY <1>1, <1>3 DEF HogInv, CellsPainted, SameImage
<1> QED  BY <1>1, <1>4, <1>5, <1>6, <1>7

\* A task of the second tree that is not cut has one cell, and the histogram of
\* the cell is where it looks for it: histograms->at() finds one.
LEMMA TaskOfOneCell ==
    ASSUME HogInv, NEW task \in pending, task.kind = "image_col", PartsOf(task) = <<>>
    PROVE  /\ tree = "hog_image" /\ CellsPerRow \in Nat /\ RowsIn(HogRoot) \in Nat
           /\ task.from_x = task.to_x /\ task.from_y = task.to_y
           /\ task.from_x \in 0 .. CellsPerRow - 1 /\ task.from_y \in 0 .. RowsIn(HogRoot) - 1
           /\ IndexOf(task) \in DOMAIN histograms
           /\ histograms[IndexOf(task)] = CellArea(HogRoot, task.from_y, task.from_x)
<1>0. Structure
  BY DEF HogInv, Structure
<1>1. task.kind = "image_col" /\ PartsOf(task) = <<>>
  OBVIOUS
<1>2. /\ task \in Tasks /\ task \in HogTask /\ Nonempty(task) /\ Shaped(task)
      /\ Within(task, TreeRoot)
  BY <1>0, TasksAreTasks DEF Tasks, Frontier
<1>3. tree = "hog_image"
  BY <1>0, <1>1, <1>2, KindsOfTree DEF Structure, Typed, Finished
<1>4. /\ CellsPerRow \in Nat /\ ColumnsIn(HogRoot) = CellsPerRow
      /\ RowsIn(HogRoot) \in Nat
  BY RootsAreTasks DEF HogInv, Typed
<1>5. task.from_x = task.to_x /\ task.from_y = task.to_y
  <2>1. ~ HogCuts(task)
    BY <1>1, <1>2, PartsByKind
  <2>2. CellsOf(task) = task.to_x - task.from_x + 1 /\ task.from_y = task.to_y
    BY <1>1, <1>2 DEF CellsOf, Shaped
  <2>3. ~ (CellsOf(task) > 1)
    BY <1>1, <2>1 DEF HogCuts
  <2> QED  BY <1>2, <2>2, <2>3, TaskBorders DEF Nonempty
<1>6. task.from_x \in 0 .. CellsPerRow - 1 /\ task.from_y \in 0 .. RowsIn(HogRoot) - 1
  <2>1. /\ ImageRoot.from_x = 0 /\ ImageRoot.to_x = CellsPerRow - 1
        /\ ImageRoot.from_y = 0 /\ ImageRoot.to_y = RowsIn(HogRoot) - 1
    BY DEF ImageRoot, Rectangle
  <2> QED  BY <1>2, <1>3, <1>4, <1>5, <2>1, TaskBorders DEF Within, TreeRoot
<1>7. InOrderOfRows(HogRoot, histograms)
  BY <1>3 DEF HogInv, HistogramsInOrder
<1>8. histograms[IndexOf(task)] = CellArea(HogRoot, task.from_y, task.from_x)
  BY <1>4, <1>6, <1>7, Zenon DEF InOrderOfRows, IndexOf
<1>9. IndexOf(task) \in DOMAIN histograms
  <2>1. IndexOf(task) \in 1 .. RowsIn(HogRoot) * CellsPerRow
    BY <1>4, <1>6, PlaceInRows DEF IndexOf
  <2>2. /\ DOMAIN histograms = 1 .. Len(histograms)
        /\ Len(histograms) = RowsIn(HogRoot) * CellsPerRow
    BY <1>4, <1>7 DEF InOrderOfRows
  <2> QED  BY <2>1, <2>2, Zenon
<1> QED  BY <1>3, <1>4, <1>5, <1>6, <1>8, <1>9

\* A task for one cell paints it.
LEMMA PaintCellKeepsData ==
    ASSUME HogInv, NEW task \in pending, PaintCell(task)
    PROVE  /\ SameImage /\ waiting' = waiting /\ pending' = pending \ {task}
           /\ DOMAIN results' = DOMAIN results \cup {task}
           /\ ResultsInOrder' /\ HistogramsInOrder' /\ CellsPainted'
<1>0. Structure
  BY DEF HogInv, Structure
<1> DEFINE cell == <<task.from_x, task.from_y>>
<1>1. /\ task.kind = "image_col" /\ PartsOf(task) = <<>> /\ pending' = pending \ {task}
      /\ SameImage /\ waiting' = waiting /\ histograms' = histograms
      /\ painted' = [painted EXCEPT ![cell] = Append(@, histograms[IndexOf(task)])]
      /\ results' = [t \in (DOMAIN results \ {}) \cup {task} |->
                        IF t = task THEN <<>> ELSE results[t]]
  BY DEF PaintCell, SetResult, SameImage
<1>2. /\ task \in Tasks /\ task \in HogTask /\ Nonempty(task) /\ Shaped(task)
      /\ Within(task, TreeRoot)
  BY <1>0, TasksAreTasks DEF Tasks, Frontier
<1>3. tree = "hog_image"
  BY <1>0, <1>1, <1>2, KindsOfTree DEF Structure, Typed, Finished
<1>4. DOMAIN results' = DOMAIN results \cup {task}
  BY <1>1
<1>5. ResultsInOrder'
  BY <1>1, <1>3 DEF ResultsInOrder, SameImage
<1>6. HistogramsInOrder'
  BY <1>1, HistogramsStay DEF HogInv
<1>7. /\ CellsPerRow \in Nat /\ RowsIn(HogRoot) \in Nat
      /\ task.from_x = task.to_x /\ task.from_y = task.to_y
      /\ task.from_x \in 0 .. CellsPerRow - 1 /\ task.from_y \in 0 .. RowsIn(HogRoot) - 1
      /\ histograms[IndexOf(task)] = CellArea(HogRoot, task.from_y, task.from_x)
  BY <1>1, TaskOfOneCell
<1>8. /\ DOMAIN painted = (0 .. CellsPerRow - 1) \X (0 .. RowsIn(HogRoot) - 1)
      /\ \A c \in DOMAIN painted :
             painted[c] = IF \E t \in pending : Covers(t, c) THEN <<>>
                          ELSE <<CellArea(HogRoot, c[2], c[1])>>
  BY <1>3 DEF HogInv, CellsPainted
<1>9. cell \in DOMAIN painted /\ cell[1] = task.from_x /\ cell[2] = task.from_y
  BY <1>7, <1>8
<1>10. \A c \in DOMAIN painted : Covers(task, c) <=> c = cell
  <2>1. ASSUME NEW c \in DOMAIN painted PROVE Covers(task, c) <=> c = cell
    <3>1. c \in Int \X Int
      BY <1>7, <1>8
    <3>2. c = <<c[1], c[2]>> /\ c[1] \in Int /\ c[2] \in Int
      BY <3>1
    <3>3. Covers(task, c) <=> c[1] = task.from_x /\ c[2] = task.from_y
      BY <1>2, <1>7, <3>2, TaskBorders DEF Covers
    <3> QED  BY <3>2, <3>3
  <2> QED  BY <2>1
<1>11. ASSUME NEW t \in pending \ {task} PROVE ~ Covers(t, cell)
  <2>1. Separate(t, task) /\ t \in HogTask
    BY <1>0, TasksAreTasks DEF Structure, FrontierApart, Frontier, Tasks
  <2> QED  BY <1>2, <1>7, <1>9, <2>1, TaskBorders DEF Separate, Covers
<1>12. CellsPainted'
  <2>1. HogRoot' = HogRoot /\ CellsPerRow' = CellsPerRow
    BY <1>1, SameRoots DEF SameImage
  <2>2. DOMAIN painted' = DOMAIN painted
    BY <1>1
  <2>3. ASSUME NEW c \in DOMAIN painted
        PROVE  painted'[c] = IF \E t \in pending' : Covers(t, c) THEN <<>>
                             ELSE <<CellArea(HogRoot, c[2], c[1])>>
    <3>1. CASE c = cell
      <4>1. painted[cell] = <<>>
        BY <1>8, <1>9, <1>10, Zenon
      <4>2. painted'[cell] = Append(painted[cell], histograms[IndexOf(task)])
        BY <1>1, <1>9
      <4>3. painted'[cell] = <<CellArea(HogRoot, cell[2], cell[1])>>
        BY <1>7, <1>9, <4>1, <4>2
      <4>4. ~ \E t \in pending' : Covers(t, cell)
        BY <1>1, <1>11
      <4> QED  BY <3>1, <4>3, <4>4
    <3>2. CASE c # cell
      <4>1. painted'[c] = painted[c]
        BY <1>1, <3>2
      <4>2. (\E t \in pending' : Covers(t, c)) <=> \E t \in pending : Covers(t, c)
        BY <1>1, <1>10, <3>2
      <4> QED  BY <1>8, <4>1, <4>2, Zenon
    <3> QED  BY <3>1, <3>2
  <2>4. tree' = "hog_image"
    BY <1>1, <1>3 DEF SameImage
  <2> QED  BY <1>8, <2>1, <2>2, <2>3, <2>4 DEF CellsPainted
<1> HIDE DEF cell
<1> QED  BY <1>1, <1>4, <1>5, <1>6, <1>12

LEMMA JoinKeepsData ==
    ASSUME HogInv, NEW task \in waiting, Join(task)
    PROVE  ResultsInOrder' /\ HistogramsInOrder' /\ CellsPainted'
<1>0. Structure
  BY DEF HogInv, Structure
<1>1. /\ Parts(task) \subseteq DOMAIN results /\ SameImage
      /\ pending' = pending /\ histograms' = histograms /\ painted' = painted
      /\ results' = [t \in (DOMAIN results \ Parts(task)) \cup {task} |->
                        IF t = task THEN Joined(task) ELSE results[t]]
  BY DEF Join, SetResult, SameImage, Parts
<1>2. ResultsInOrder'
  <2> SUFFICES ASSUME tree = "hog", NEW t \in DOMAIN results'
               PROVE  InOrderOfRows(t, results'[t])
    BY <1>1 DEF ResultsInOrder, SameImage
  <2>1. InOrderOfRows(task, Joined(task))
    BY <1>0, <1>1, JoinedIsInOrder DEF HogInv
  <2>2. t = task \/ t \in DOMAIN results
    BY <1>1
  <2>3. results'[t] = IF t = task THEN Joined(task) ELSE results[t]
    BY <1>1
  <2> QED  BY <2>1, <2>2, <2>3 DEF HogInv, ResultsInOrder
<1>3. HistogramsInOrder'
  BY <1>1, HistogramsStay DEF HogInv
<1>4. CellsPainted'
  BY <1>1, ImageStays DEF HogInv
<1> QED  BY <1>2, <1>3, <1>4

\* The result of hog() has a histogram for each cell of the image.
LEMMA ResultHasAllCells ==
    ASSUME HogInv, HogImage
    PROVE  /\ InOrderOfRows(HogRoot, ResultOfRoot)
           /\ RowsIn(HogRoot) \in Nat \ {0}
           /\ CellsPerRow \in Nat
           /\ CellsPerRow > 0 => RowsIn(HogRoot) = Len(ResultOfRoot) \div CellsPerRow
<1>0. Structure
  BY DEF HogInv, Structure
<1>1. tree = "hog" /\ RootFinished
  BY DEF HogImage
<1>2. InOrderOfRows(HogRoot, ResultOfRoot)
  <2>1. DOMAIN results = {HogRoot} /\ ResultOfRoot = results[HogRoot]
    BY <1>0, <1>1, OnlyRootIsLeft DEF TreeRoot
  <2> QED  BY <1>1, <2>1 DEF HogInv, ResultsInOrder
<1>3. /\ RowsIn(HogRoot) \in Nat \ {0} /\ CellsPerRow \in Nat
      /\ ColumnsIn(HogRoot) = CellsPerRow
  BY RootsAreTasks DEF HogInv, Typed
<1>4. ASSUME CellsPerRow > 0 PROVE RowsIn(HogRoot) = Len(ResultOfRoot) \div CellsPerRow
  <2> DEFINE rows == RowsIn(HogRoot)
             columns == CellsPerRow
  <2>1. Len(ResultOfRoot) = rows * columns
    BY <1>2, <1>3 DEF InOrderOfRows
  <2>2. rows \in Nat \ {0} /\ columns \in Nat \ {0}
    BY <1>3, <1>4
  <2> HIDE DEF rows, columns
  <2>3. rows * columns \in Int /\ columns * rows = rows * columns
    BY <2>2, SMTT(10)
  <2>4. columns * rows <= rows * columns /\ rows * columns < columns * rows + columns
    <3> DEFINE n == rows * columns
    <3>1. n \in Int /\ columns * rows = n
      BY <2>3
    <3> HIDE DEF n
    <3>2. columns * rows <= n /\ n < columns * rows + columns
      BY <2>2, <3>1
    <3> QED  BY <3>2 DEF n
  <2>5. (rows * columns) \div columns = rows
    BY <2>2, <2>3, <2>4, QuotientIsUnique
  <2> QED  BY <2>1, <2>5 DEF rows, columns
<1> QED  BY <1>2, <1>3, <1>4

\* The second tree begins with all cells to be painted.
LEMMA HogImageKeepsData ==
    ASSUME HogInv, HogImage
    PROVE  ResultsInOrder' /\ HistogramsInOrder' /\ CellsPainted'
<1>1. /\ histograms' = ResultOfRoot /\ width' = width /\ height' = height
      /\ tree' # "hog"
  BY DEF HogImage
<1>2. HogRoot' = HogRoot /\ CellsPerRow' = CellsPerRow
  BY <1>1, SameRoots
<1>3. ResultsInOrder'
  BY <1>1 DEF ResultsInOrder
<1>4. HistogramsInOrder'
  BY <1>1, <1>2, ResultHasAllCells DEF HistogramsInOrder
<1>5. CASE CellsPerRow = 0
  <2>1. tree' = "divided_by_zero" /\ painted' = painted /\ tree = "hog"
    BY <1>5 DEF HogImage
  <2> QED  BY <1>3, <1>4, <2>1 DEF HogInv, CellsPainted
<1>6. CASE CellsPerRow > 0
  <2>0. RowsIn(HogRoot) = Len(ResultOfRoot) \div CellsPerRow
    BY <1>6, ResultHasAllCells
  <2>1. /\ tree' = "hog_image"
        /\ pending' = {ImageRoot}
        /\ painted' = [c \in (0 .. CellsPerRow - 1) \X (0 .. RowsIn(HogRoot) - 1) |-> <<>>]
    BY <1>6, <2>0 DEF HogImage, ImageRoot
  <2>2. CellsPerRow \in Nat /\ RowsIn(HogRoot) \in Nat
    BY ResultHasAllCells
  <2>3. ASSUME NEW c \in (0 .. CellsPerRow - 1) \X (0 .. RowsIn(HogRoot) - 1)
        PROVE  Covers(ImageRoot, c)
    <3>1. /\ ImageRoot.from_x = 0 /\ ImageRoot.to_x = CellsPerRow - 1
          /\ ImageRoot.from_y = 0 /\ ImageRoot.to_y = RowsIn(HogRoot) - 1
      BY DEF ImageRoot, Rectangle
    <3> QED  BY <2>2, <3>1 DEF Covers
  <2>4. CellsPainted'
    <3>1. DOMAIN painted' = (0 .. CellsPerRow - 1) \X (0 .. RowsIn(HogRoot) - 1)
      BY <2>1
    <3>2. ASSUME NEW c \in DOMAIN painted'
          PROVE  painted'[c] = <<>> /\ \E t \in pending' : Covers(t, c)
      BY <2>1, <2>3, <3>1
    <3> QED  BY <1>2, <2>1, <3>1, <3>2 DEF CellsPainted
  <2> QED  BY <1>3, <1>4, <2>4
<1> QED  BY <1>5, <1>6, ResultHasAllCells

LEMMA HogDoneKeepsData ==
    ASSUME HogInv, HogDone
    PROVE  ResultsInOrder' /\ HistogramsInOrder' /\ CellsPainted'
<1>1. /\ tree = "hog_image" /\ tree' = "done" /\ pending' = pending
      /\ histograms' = histograms /\ painted' = painted
      /\ width' = width /\ height' = height
  BY DEF HogDone
<1>2. HogRoot' = HogRoot /\ CellsPerRow' = CellsPerRow
  BY <1>1, SameRoots
<1>3. ResultsInOrder' /\ HistogramsInOrder'
  BY <1>1, <1>2 DEF HogInv, ResultsInOrder, HistogramsInOrder
<1>4. CellsPainted'
  BY <1>1, <1>2 DEF HogInv, CellsPainted
<1> QED  BY <1>3, <1>4
---------------------------------------------------------------------------
LEMMA InitEstablishes ==
    ASSUME HogInit
    PROVE  HogInv
<1>1. /\ <<width, height>> \in Sizes
      /\ pending = {HogRoot} /\ waiting = {} /\ DOMAIN results = {}
      /\ painted = [c \in {} |-> <<>>] /\ tree = "hog"
  <2>1. PICK size \in Sizes : width = size[1] /\ height = size[2]
    BY DEF HogInit
  <2>2. <<width, height>> = size
    BY <2>1, HogAssumption
  <2> QED  BY <2>2 DEF HogInit, HogRoot
<1>2. Frontier = {HogRoot} /\ Tasks = {HogRoot} /\ TreeRoot = HogRoot
  BY <1>1 DEF Frontier, Tasks, TreeRoot
<1>3. Typed
  <2>1. HogRoot \in HogTask /\ Nonempty(HogRoot) /\ Shaped(HogRoot)
    BY <1>1, RootsAreTasks
  <2>2. Within(HogRoot, HogRoot)
    BY <2>1, WithinIsReflexive
  <2> QED  BY <1>1, <1>2, <2>1, <2>2 DEF Typed
<1>4. FrontierApart /\ WaitingAbove /\ WaitingNested
  BY <1>1, <1>2 DEF FrontierApart, WaitingAbove, WaitingNested
<1>5. WaitedFor /\ SomethingLeft /\ Finished
  BY <1>1, <1>2 DEF WaitedFor, SomethingLeft, Finished
<1>6. ResultsInOrder /\ HistogramsInOrder /\ CellsPainted
  BY <1>1 DEF ResultsInOrder, HistogramsInOrder, CellsPainted
<1> QED  BY <1>3, <1>4, <1>5, <1>6 DEF HogInv

LEMMA StepKeeps ==
    ASSUME HogInv, [HogNext]_hog_vars
    PROVE  HogInv'
<1>0. Structure
  BY DEF HogInv, Structure
<1>1. ASSUME NEW task \in pending, Cut(task) PROVE HogInv'
  <2>1. Structure'
    BY <1>0, <1>1, CutKeepsStructure
  <2> QED  BY <1>1, <2>1, CutKeepsData DEF HogInv, Structure
<1>2. ASSUME NEW task \in pending, CalcCells(task) PROVE HogInv'
  <2>1. Structure'
    BY <1>0, <1>2, CalcCellsKeepsData, FinishKeepsStructure
  <2> QED  BY <1>2, <2>1, CalcCellsKeepsData DEF HogInv, Structure
<1>3. ASSUME NEW task \in pending, PaintCell(task) PROVE HogInv'
  <2>1. Structure'
    BY <1>0, <1>3, PaintCellKeepsData, FinishKeepsStructure
  <2> QED  BY <1>3, <2>1, PaintCellKeepsData DEF HogInv, Structure
<1>4. ASSUME NEW task \in waiting, Join(task) PROVE HogInv'
  <2>1. Structure'
    BY <1>0, <1>4, JoinKeepsStructure
  <2> QED  BY <1>4, <2>1, JoinKeepsData DEF HogInv, Structure
<1>5. ASSUME HogImage PROVE HogInv'
  <2>0. CellsPerRow > 0 => RowsIn(HogRoot) = Len(ResultOfRoot) \div CellsPerRow
    BY <1>5, ResultHasAllCells
  <2>1. Structure'
    BY <1>0, <1>5, <2>0, HogImageKeepsStructure
  <2> QED  BY <1>5, <2>1, HogImageKeepsData DEF HogInv, Structure
<1>6. ASSUME HogDone PROVE HogInv'
  <2>1. Structure'
    BY <1>0, <1>6, HogDoneKeepsStructure
  <2> QED  BY <1>6, <2>1, HogDoneKeepsData DEF HogInv, Structure
<1>7. ASSUME UNCHANGED hog_vars PROVE HogInv'
  <2>1. /\ SameImage /\ width' = width /\ height' = height /\ tree' = tree
        /\ pending' = pending /\ waiting' = waiting
        /\ results' = results /\ histograms' = histograms /\ painted' = painted
    BY <1>7 DEF hog_vars, SameImage
  <2>2. TreeRoot' = TreeRoot /\ HogRoot' = HogRoot /\ CellsPerRow' = CellsPerRow
        /\ (\A t : Shaped(t)' <=> Shaped(t)) /\ Tasks' = Tasks /\ Frontier' = Frontier
    BY <2>1, SameRoots, SameRoot DEF Tasks, Frontier
  <2>3. Typed' /\ FrontierApart' /\ WaitingAbove' /\ WaitingNested'
    BY <2>1, <2>2 DEF HogInv, Typed, FrontierApart, WaitingAbove, WaitingNested
  <2>4. WaitedFor' /\ SomethingLeft' /\ Finished' /\ ResultsInOrder' /\ HistogramsInOrder'
    BY <2>1, <2>2 DEF HogInv, WaitedFor, SomethingLeft, Finished, ResultsInOrder, HistogramsInOrder
  <2>5. CellsPainted'
    BY <2>1, ImageStays DEF HogInv
  <2> QED  BY <2>3, <2>4, <2>5 DEF HogInv
<1> QED  BY <1>1, <1>2, <1>3, <1>4, <1>5, <1>6, <1>7 DEF HogNext

LEMMA HogInvariant == HogSpec => []HogInv
<1>1. HogInit => HogInv
  BY InitEstablishes
<1>2. HogInv /\ [HogNext]_hog_vars => HogInv'
  BY StepKeeps
<1> QED  BY <1>1, <1>2, PTL DEF HogSpec
---------------------------------------------------------------------------
\* A task is pending, waits or has a result, one of the three, whatever the size
\* of the image, the cells and the runs of cells; no cell is painted twice.
THEOREM HogTypeCorrect == HogSpec => []HogTypeOK
<1>1. ASSUME HogInv PROVE HogTypeOK
  <2>0. Structure
    BY <1>1 DEF HogInv, Structure
  <2>1. \A t \in Tasks : t \in HogTask
    BY <2>0, TasksAreTasks
  <2>2. pending \cap DOMAIN results = {}
    BY <2>0 DEF Structure, FrontierApart
  <2>3. \A w \in waiting : w \notin Frontier
    BY <2>0, WaitingIsNotFrontier
  <2>4. ASSUME NEW c \in DOMAIN painted PROVE Len(painted[c]) \in 0 .. 1
    <3>1. painted[c] = <<>> \/ \E area : painted[c] = <<area>>
      <4>1. CASE tree \in {"hog", "divided_by_zero"}
        BY <1>1, <4>1 DEF HogInv, CellsPainted
      <4>2. CASE tree \notin {"hog", "divided_by_zero"}
        BY <1>1, <4>2, Zenon DEF HogInv, CellsPainted
      <4> QED  BY <4>1, <4>2
    <3> QED  BY <3>1
  <2> QED  BY <2>0, <2>1, <2>2, <2>3, <2>4 DEF HogTypeOK, Structure, Typed, Tasks, Frontier
<1>2. HogInv => HogTypeOK
  BY <1>1
<1> QED  BY <1>2, HogInvariant, PTL

\* The rows of the image, by its height: one if no cell fits.
LEMMA RowsOfImage ==
    ASSUME <<width, height>> \in Sizes
    PROVE  /\ height \in Nat /\ CellDimension \in Nat \ {0}
           /\ RowsIn(HogRoot) = IF height < CellDimension THEN 1 ELSE height \div CellDimension
           /\ RowsIn(HogRoot) \in Nat \ {0}
           /\ height < CellDimension * RowsIn(HogRoot) + CellDimension
           /\ IF height < CellDimension THEN RowsIn(HogRoot) = 1
              ELSE CellDimension * RowsIn(HogRoot) <= height
<1> DEFINE d == CellDimension
           q == height \div d
<1>1. height \in Nat \ {0, 1} /\ d \in Nat \ {0}
  BY HogAssumption
<1>2. q \in Nat
  BY <1>1, QuotientIsNatural
<1>3. d * q <= height /\ height < d * q + d
  <2> HIDE DEF d
  <2> QED  BY <1>1, SMTT(10)
<1>4. RowsIn(HogRoot) = IF q = 0 THEN 1 ELSE q
  <2>1. HogRoot.to_y = height - 1 /\ HogRoot.from_y = 0 /\ (height - 1) - 0 + 1 = height
    BY <1>1 DEF HogRoot, Rectangle
  <2> QED  BY <2>1 DEF RowsIn
<1> HIDE DEF d, q
<1>5. CASE height < d
  <2>1. q = 0
    <3> SUFFICES ASSUME q >= 1 PROVE FALSE
      BY <1>2
    <3>1. d * q >= d
      BY <1>1, <1>2, SMTT(10)
    <3> QED  BY <1>1, <1>2, <1>3, <1>5, <3>1
  <2>2. RowsIn(HogRoot) = 1 /\ d * 1 = d
    BY <1>1, <1>4, <2>1
  <2> QED  BY <1>1, <1>5, <2>2 DEF d
<1>6. CASE height >= d
  <2>1. q # 0
    <3> SUFFICES ASSUME q = 0 PROVE FALSE
      OBVIOUS
    <3>1. d * q = 0
      BY <1>1
    <3> QED  BY <1>1, <1>3, <1>6, <3>1
  <2>2. RowsIn(HogRoot) = q
    BY <1>4, <2>1
  <2>3. ~ (height < d)
    BY <1>1, <1>6
  <2> QED  BY <1>1, <1>2, <1>3, <1>6, <2>1, <2>2, <2>3, Zenon DEF d, q
<1> QED  BY <1>1, <1>5, <1>6

\* The cells of the finished image.
LEMMA CellsWhenDone ==
    ASSUME HogInv, tree = "done"
    PROVE  /\ DOMAIN painted = (0 .. CellsPerRow - 1) \X (0 .. RowsIn(HogRoot) - 1)
           /\ \A c \in DOMAIN painted : painted[c] = <<CellArea(HogRoot, c[2], c[1])>>
<1>1. pending = {}
  BY DEF HogInv, Finished
<1> QED  BY <1>1 DEF HogInv, CellsPainted

\* Every cell of the finished image shows the histogram of its own pixels, once,
\* in whatever order the tasks of both trees were run.
THEOREM CellsShow == HogSpec => []CellsShowTheirPixels
<1>1. ASSUME HogInv, tree = "done", NEW c \in DOMAIN painted
      PROVE  painted[c] = <<[from_x |-> c[1] * CellDimension,
                             to_x   |-> (c[1] + 1) * CellDimension - 1,
                             from_y |-> c[2] * CellDimension,
                             to_y   |-> IF (c[2] + 2) * CellDimension <= height
                                        THEN (c[2] + 1) * CellDimension - 1
                                        ELSE height - 1]>>
  <2> DEFINE rows == RowsIn(HogRoot)
             d == CellDimension
             r == c[2]
  <2>1. /\ height \in Nat /\ d \in Nat \ {0} /\ rows \in Nat \ {0}
        /\ height < d * rows + d /\ (IF height < d THEN rows = 1 ELSE d * rows <= height)
    BY <1>1, RowsOfImage DEF HogInv, Typed
  <2>2. c[1] \in Int /\ r \in 0 .. rows - 1
    <3>1. CellsPerRow \in Nat
      BY <1>1, RootsAreTasks DEF HogInv, Typed
    <3>2. c \in (0 .. CellsPerRow - 1) \X (0 .. rows - 1)
      BY <1>1, CellsWhenDone
    <3> QED  BY <2>1, <3>1, <3>2
  <2>3. painted[c] = <<CellArea(HogRoot, r, c[1])>>
    BY <1>1, CellsWhenDone
  <2>4. HogRoot.from_x = 0 /\ HogRoot.from_y = 0 /\ HogRoot.to_y = height - 1
    BY DEF HogRoot, Rectangle
  <2> HIDE DEF rows, d, r
  <2>5. (r + 2) * d <= height <=> r # rows - 1
    <3> DEFINE all == d * rows
               upto == (r + 2) * d
    <3>0. all \in Int /\ upto \in Int /\ r \in Nat /\ r <= rows - 1
      BY <2>1, <2>2
    <3>1. CASE r = rows - 1
      <4>1. upto = all + d
        <5>1. r + 2 = rows + 1
          BY <2>1, <3>1
        <5>2. (rows + 1) * d = d * rows + d
          BY <2>1, SMTT(10)
        <5> QED  BY <5>1, <5>2
      <4> HIDE DEF all, upto
      <4>2. ~ (upto <= height)
        <5>1. height < all + d
          BY <2>1 DEF all
        <5> QED  BY <2>1, <3>0, <4>1, <5>1
      <4> QED  BY <3>1, <4>2 DEF upto
    <3>2. CASE r # rows - 1
      <4>1. r + 2 <= rows /\ rows >= 2
        BY <2>1, <3>0, <3>2
      <4>2. upto <= all
        BY <2>1, <3>0, <4>1, SMTT(10)
      <4>3. all <= height
        BY <2>1, <4>1
      <4> HIDE DEF all, upto
      <4>4. upto <= height
        BY <2>1, <3>0, <4>2, <4>3
      <4> QED  BY <3>2, <4>4 DEF upto
    <3> QED  BY <3>1, <3>2
  <2>6. CellArea(HogRoot, r, c[1]) =
            [from_x |-> 0 + c[1] * d, to_x |-> 0 + (c[1] + 1) * d - 1,
             from_y |-> 0 + r * d,
             to_y   |-> IF r = rows - 1 THEN height - 1 ELSE 0 + (r + 1) * d - 1]
    BY <2>4 DEF CellArea, rows, d
  <2>7. /\ 0 + c[1] * d = c[1] * d /\ 0 + (c[1] + 1) * d - 1 = (c[1] + 1) * d - 1
        /\ 0 + r * d = r * d /\ 0 + (r + 1) * d - 1 = (r + 1) * d - 1
    <3>1. \A n \in Int : 0 + n = n /\ 0 + n - 1 = n - 1
      OBVIOUS
    <3>2. c[1] * d \in Int /\ (c[1] + 1) * d \in Int /\ r * d \in Int /\ (r + 1) * d \in Int
      BY <2>1, <2>2
    <3> QED  BY <3>1, <3>2
  <2> QED  BY <2>3, <2>5, <2>6, <2>7, Zenon DEF r, d
<1>2. HogInv => CellsShowTheirPixels
  BY <1>1 DEF CellsShowTheirPixels
<1> QED  BY <1>2, HogInvariant, PTL

\* The finished image has all the cells that fit into the image, and one row of
\* them if the image is lower than a cell.
THEOREM AllCells == HogSpec => []AllCellsShown
<1>1. ASSUME HogInv, tree = "done"
      PROVE  DOMAIN painted = (0 .. CellsPerRow - 1)
                              \X (0 .. IF height < CellDimension THEN 0
                                       ELSE height \div CellDimension - 1)
  <2>1. RowsIn(HogRoot) = IF height < CellDimension THEN 1 ELSE height \div CellDimension
    BY <1>1, RowsOfImage DEF HogInv, Typed
  <2>2. RowsIn(HogRoot) - 1 = IF height < CellDimension THEN 0 ELSE height \div CellDimension - 1
    BY <2>1
  <2> QED  BY <1>1, <2>2, CellsWhenDone
<1>2. HogInv => AllCellsShown
  BY <1>1 DEF AllCellsShown
<1> QED  BY <1>2, HogInvariant, PTL

\* histograms->at() throws for no cell: the second tree has as many cells as the
\* first has made histograms, whatever the size of the image.
THEOREM HistogramIsThere ==
    HogSpec => [](\A task \in pending : task.kind = "image_col" /\ PartsOf(task) = <<>>
                                        => IndexOf(task) \in DOMAIN histograms)
<1>1. HogInv => \A task \in pending : task.kind = "image_col" /\ PartsOf(task) = <<>>
                                    => IndexOf(task) \in DOMAIN histograms
  BY TaskOfOneCell
<1> QED  BY <1>1, HogInvariant, PTL
=============================================================================
