------------------------------ MODULE WindowPass -----------------------------
(* Tiling with one of the kernels of WindowKernels. As these widen their      *)
(* tile, the calls for neighbouring tiles write the same pixels, at the same  *)
(* time and without a lock. So the output is kept as the set of the values    *)
(* that have been written to a pixel: the pixel holds any one of them,        *)
(* whichever write came last, and what is left to chance is seen without      *)
(* following the order of single writes.                                      *)
EXTENDS WindowKernels

CONSTANT Kernels    \* that scripts call

ASSUME KernelsAssumption == Kernels \subseteq Kernel

VARIABLES kernel,    \* the one the script calls
          output     \* the values written to each pixel of the result

allVars == <<vars, kernel, output>>

WindowInit == /\ Init
              /\ kernel \in Kernels
              /\ output = [p \in Pixels |-> {}]

\* operator() of a task that calls tile_algorithm_task.
CallKernel(task) ==
    /\ RunKernel(task)
    /\ output' = [p \in Pixels |-> IF p \in Targets(kernel, task)
                                   THEN output[p] \cup Values(kernel, task, p)
                                   ELSE output[p]]
    /\ UNCHANGED kernel

WindowNext == \/ \E task \in pending : CallKernel(task)
              \/ \E task \in pending : Divide(task) /\ UNCHANGED <<kernel, output>>
              \/ \E task \in waiting : Merge(task) /\ UNCHANGED <<kernel, output>>

WindowSpec == WindowInit /\ [][WindowNext]_allVars /\ WF_allVars(WindowNext)

---------------------------------------------------------------------------
\* The pixels the result has: no border if it is ignored, a quarter when pooled.
ResultPixels(k) ==
    IF k.filter = "pooling" THEN (0 .. Width \div 2 - 1) \X (0 .. Height \div 2 - 1)
    ELSE LET h == IF k.border = "ignore" THEN HalfWidth(k) ELSE 0
             v == IF k.border = "ignore" THEN HalfHeight(k) ELSE 0
         IN  (h .. Width - 1 - h) \X (v .. Height - 1 - v)

\* What border_mode.hpp promises of a neighbour: a constant outside the image,
\* or the pixel on the opposite side.
Neighbour(k, x, y) ==
    IF k.border = "mirror" THEN Source[<<x % Width, y % Height>>]
    ELSE IF <<x, y>> \in Pixels THEN Source[<<x, y>>] ELSE 0

\* The sum over the window around a pixel, weighted by a mask or by ones.
WindowSum(k, p, direction) ==
    MapThenSumSet(LAMBDA d : (IF k.filter = "mean" THEN 1 ELSE Weight(k, direction, d[1], d[2]))
                             * Neighbour(k, p[1] + d[1], p[2] + d[2]),
                  Neighbours(k))

\* The value of a pixel as a pass over the whole image computes it.
Reference(k, p) ==
    CASE IsGradient(k) -> Combined(k.mode, WindowSum(k, p, "hor"), WindowSum(k, p, "vert"))
      [] k.filter = "mean" -> WindowSum(k, p, "hor") \div (k.width * k.height)
      [] k.filter = "pooling" ->
           Pooled(k.mode, << Source[<<2 * p[1], 2 * p[2]>>], Source[<<2 * p[1] + 1, 2 * p[2]>>],
                             Source[<<2 * p[1], 2 * p[2] + 1>>], Source[<<2 * p[1] + 1, 2 * p[2] + 1>>] >>)

\* Kernels that read beside the row at the left and right border of the image:
\* all with a constant border but those that check the columns of each row they
\* use, and the read of sobel that does not mirror.
ReadsBesideRow(k) ==
    \/ k.border = "constant" /\ ~(k.width = 3 /\ k.mode = "vert")
    \/ k.border = "mirror" /\ k.filter = "sobel" /\ k.width = 5 /\ k.mode = "vert"

AwayFromSides(k, p) == p[1] \in HalfWidth(k) .. Width - 1 - HalfWidth(k)

\* Sobel and scharr do not show the tiles: where calls for several tiles write
\* the same pixel they write the same value, and it is that of a pass over the
\* whole image with the border handled as promised. At the left and right
\* border this holds for the kernels that do not read beside the row.
GradientsAreSeamless ==
    [][IsGradient(kernel) =>
          \A p \in ResultPixels(kernel) :
              output'[p] # output[p] /\ (ReadsBesideRow(kernel) => AwayFromSides(kernel, p))
                  => output'[p] = {Reference(kernel, p)}]_allVars

\* When the caller gets the image no pixel of it is left as malloc returned it,
\* but for a border that is ignored.
WholeImageFiltered ==
    finished = {Root} => \A p \in ResultPixels(kernel) : output[p] # {}

\* Windows of size 3 leave an ignored border alone, wherever the tiles begin.
IgnoredBorderIsLeft ==
    kernel.filter # "pooling" /\ kernel.width = 3 /\ kernel.height = 3 =>
        \A p \in Pixels \ ResultPixels(kernel) : output[p] = {}

\* A call of mean or pooling that writes another value than a pass over the
\* whole image does it in the columns where its window is not filled with the
\* right sums yet, or for a tile that begins in an odd column.
WrongOnlyAtSeams ==
    [][~IsGradient(kernel) =>
          \A p \in ResultPixels(kernel) : \A value \in output'[p] \ output[p] :
              \/ value = Reference(kernel, p)
              \/ \E task \in pending \ pending' :
                     IF kernel.filter = "mean"
                     THEN p[1] < Widened(kernel, task).from_x + 2 * HalfWidth(kernel)
                     ELSE task.from_x % 2 = 1]_allVars

\* The pooled image does not depend on the tiles: every pixel of it is computed
\* from its own block of the source.
PoolingUsesBlocks ==
    kernel.filter = "pooling" =>
        \A p \in ResultPixels(kernel) : output[p] \subseteq {Reference(kernel, p)}
=============================================================================
