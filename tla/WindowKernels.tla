---------------------------- MODULE WindowKernels ---------------------------
(* algorithms/tiling/sobel.cpp, scharr.cpp, mean.cpp and pooling.cpp: kernels *)
(* that compute a pixel from its neighbours. A kernel is called with a tile   *)
(* and goes over the rows of it; sobel, scharr and mean first widen the tile  *)
(* by half a window. This module says which value a call writes to a pixel;   *)
(* WindowPass runs the calls.                                                 *)
EXTENDS Tiling, FiniteSetsExt

CONSTANTS Source,    \* the gray value of each pixel of the source image
          Outside    \* what bytes around the memory of the source may hold

ASSUME SourceAssumption == Source \in [Pixels -> 0 .. 255]
ASSUME OutsideAssumption == Outside \subseteq 0 .. 255 /\ Outside # {}

\* What tile_algorithm_task captures and tiling_parameters hold. The scripts
\* accept windows from three pixels on; one of a single column would leave the
\* last column of its tile to nobody.
Kernel == [filter : {"sobel", "scharr", "mean", "pooling"},
           mode : {"hor", "vert", "sum_sqrt", "sum_abs", "max", "min", "avg"},
           width : Nat \ {0, 1}, height : Nat \ {0, 1},
           border : {"ignore", "constant", "mirror"}]

IsGradient(k) == k.filter \in {"sobel", "scharr"}
HalfWidth(k) == k.width \div 2
HalfHeight(k) == k.height \div 2

---------------------------------------------------------------------------
\* A mutant: the wrong border mode is asked for.
MarginIfConstant(k, half) == IF k.border = "constant" THEN half ELSE 0

\* Columns or rows at a border that are left out.
Margin(k, half) == IF k.border = "ignore" THEN half ELSE 0

\* A mutant: tiles that do not overlap, with borders that are exclusive.
TileItself(k, task) == [task EXCEPT !.to_x = @ - 1, !.to_y = @ - 1]

\* The pixels a call of sobel, scharr or mean goes over. The borders of the
\* kernels' loops are exclusive but for mean's with a constant border, which
\* is called with the tile itself.
Widened(k, task) ==
    IF k.filter = "mean" /\ k.border = "constant" THEN task
    ELSE LET h == HalfWidth(k)
             v == HalfHeight(k)
         IN  [task EXCEPT
                !.from_x = IF @ <= h THEN Margin(k, h) ELSE @ - h,
                !.to_x = (IF @ >= Width - h THEN Width - Margin(k, h) ELSE @ + h) - 1,
                !.from_y = IF @ <= v THEN Margin(k, v) ELSE @ - v,
                !.to_y = (IF @ >= Height - v THEN Height - Margin(k, v) ELSE @ + v) - 1]

\* src is one block of memory, row after row: next to the end of a row is the
\* begin of the next one, and before the first and behind the last row is
\* other memory.
At(x, y, outside) ==
    LET i == Width * y + x
    IN  IF i \in 0 .. Width * Height - 1 THEN Source[<<i % Width, i \div Width>>] ELSE outside

\* A mutant: the pixel at the border is used again.
AtTheEdge(n, size) == IF n < 0 THEN 0 ELSE IF n >= size THEN size - 1 ELSE n

\* The row or column on the opposite side for one that is not in the image.
Opposite(n, size) == IF n < 0 THEN size + n ELSE IF n >= size THEN n - size ELSE n

\* With a constant border only sobel and scharr of size 3 look at the column,
\* and not in the row of the pixel itself.
ChecksColumn(k, dy) == k.filter = "mean" \/ (k.width = 3 /\ dy # 0)

\* One of the 24 reads of sobel's vertical 5x5 kernel does not mirror its column.
MirrorsColumn(k, dx, dy) == ~(k.filter = "sobel" /\ k.width = 5 /\ k.mode = "vert" /\ dx = 1 /\ dy = -2)

ReadConstant(k, x, y, dx, dy, outside) ==
    IF y + dy \notin 0 .. Height - 1 \/ (ChecksColumn(k, dy) /\ x + dx \notin 0 .. Width - 1)
    THEN 0
    ELSE At(x + dx, y + dy, outside)

ReadMirrored(k, x, y, dx, dy, outside) ==
    At(IF MirrorsColumn(k, dx, dy) THEN Opposite(x + dx, Width) ELSE x + dx,
       Opposite(y + dy, Height), outside)

\* What is read for the neighbour at <<dx, dy>> of a pixel.
Read(k, x, y, dx, dy, outside) ==
    CASE k.border = "ignore" -> At(x + dx, y + dy, outside)
      [] k.border = "constant" -> ReadConstant(k, x, y, dx, dy, outside)
      [] k.border = "mirror" -> ReadMirrored(k, x, y, dx, dy, outside)

---------------------------------------------------------------------------
(* sobel and scharr                                                           *)

SobelMask3 == << <<1, 0, -1>>, <<2, 0, -2>>, <<1, 0, -1>> >>

SobelMask5 == << <<2, 1, 0, -1, -2>>, <<2, 1, 0, -1, -2>>, <<4, 2, 0, -2, -4>>,
                 <<2, 1, 0, -1, -2>>, <<2, 1, 0, -1, -2>> >>

ScharrMask == << <<3, 0, -3>>, <<10, 0, -10>>, <<3, 0, -3>> >>

Mask(k) == IF k.filter = "scharr" THEN ScharrMask
           ELSE IF k.width = 3 THEN SobelMask3 ELSE SobelMask5

\* The mask for the vertical gradient is that for the horizontal one turned over.
Weight(k, direction, dx, dy) ==
    LET column == dx + HalfWidth(k) + 1
        row == dy + HalfHeight(k) + 1
    IN  IF direction = "hor" THEN Mask(k)[row][column] ELSE Mask(k)[column][row]

Neighbours(k) == (-HalfWidth(k) .. HalfWidth(k)) \X (-HalfHeight(k) .. HalfHeight(k))

Gradient(k, direction, x, y, outside) ==
    MapThenSumSet(LAMBDA d : Weight(k, direction, d[1], d[2]) * Read(k, x, y, d[1], d[2], outside),
                  {d \in Neighbours(k) : Weight(k, direction, d[1], d[2]) # 0})

Clamp(n) == IF n > 255 THEN 255 ELSE IF n < 0 THEN 0 ELSE n

Absolute(n) == IF n < 0 THEN -n ELSE n

\* The integer part of the root, clamped.
ClampedRoot(n) == IF n >= 255 * 255 THEN 255
                  ELSE CHOOSE r \in 0 .. 254 : r * r <= n /\ n < (r + 1) * (r + 1)

\* What becomes of the two gradients of a pixel.
Combined(mode, hor, ver) ==
    CASE mode = "hor" -> Clamp(hor)
      [] mode = "vert" -> Clamp(ver)
      [] mode = "sum_sqrt" -> ClampedRoot(hor * hor + ver * ver)
      [] mode = "sum_abs" -> Clamp(Absolute(hor) + Absolute(ver))

GradientAt(k, x, y, outside) ==
    Combined(k.mode, Gradient(k, "hor", x, y, outside), Gradient(k, "vert", x, y, outside))

---------------------------------------------------------------------------
(* mean: a deque of the sums of the columns in the window slides along a row  *)

\* A mutant: the column that is pushed is not that at the right of the window.
ColumnPushedLate(k, from_x, i) == IF i <= 2 * HalfWidth(k) THEN from_x - HalfWidth(k) + i
                                  ELSE from_x - HalfWidth(k) + i - 2

\* The column of the sum that is pushed i-th: those around from_x before the
\* loop, and then, beginning with x = from_x, that at the right of the window.
ColumnPushed(k, from_x, i) == IF i <= 2 * HalfWidth(k) THEN from_x - HalfWidth(k) + i
                              ELSE from_x - HalfWidth(k) + i - 1

ColumnSum(k, column, y, outside) ==
    MapThenSumSet(LAMBDA dy : Read(k, column, y, 0, dy, outside), -HalfHeight(k) .. HalfHeight(k))

\* One sum has been popped for each pixel of the row so far.
MeanAt(k, from_x, x, y, outside) ==
    LET popped == x - from_x + 1
    IN  MapThenSumSet(LAMBDA i : ColumnSum(k, ColumnPushed(k, from_x, i), y, outside),
                      popped .. popped + 2 * HalfWidth(k))
        \div (k.width * k.height)

---------------------------------------------------------------------------
(* pooling: a pixel for each block of two by two                              *)

PooledColumns(task) == task.from_x \div 2 .. task.to_x \div 2
PooledRows(task) == task.from_y \div 2 .. task.to_y \div 2

\* The column of the source for a column of the result: src_x goes on by two
\* from the begin of the tile. The row is computed from the row of the result.
SourceColumn(task, x) == task.from_x + 2 * (x - task.from_x \div 2)

Pooled(mode, block) ==
    LET values == {block[i] : i \in DOMAIN block}
    IN  CASE mode = "max" -> Max(values)
          [] mode = "min" -> Min(values)
          [] mode = "avg" -> (block[1] + block[2] + block[3] + block[4]) \div 4

PooledAt(k, src_x, src_y, outside) ==
    Pooled(k.mode, << At(src_x, src_y, outside), At(src_x + 1, src_y, outside),
                      At(src_x, src_y + 1, outside), At(src_x + 1, src_y + 1, outside) >>)

---------------------------------------------------------------------------
\* The pixels a call writes.
Targets(k, task) == IF k.filter = "pooling" THEN PooledColumns(task) \X PooledRows(task)
                    ELSE PixelsOf(Widened(k, task))

\* What a call may write to a pixel: one value, if it reads the image only.
Values(k, task, p) ==
    CASE IsGradient(k) -> {GradientAt(k, p[1], p[2], o) : o \in Outside}
      [] k.filter = "mean" -> {MeanAt(k, Widened(k, task).from_x, p[1], p[2], o) : o \in Outside}
      [] k.filter = "pooling" -> {PooledAt(k, SourceColumn(task, p[1]), 2 * p[2], o) : o \in Outside}
=============================================================================
