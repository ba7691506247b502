-------------------------------- MODULE Hog --------------------------------
(* hog.cpp: histograms of oriented gradients, one for each cell of            *)
(* cell_dimension columns and rows, and an image that shows them. Two trees   *)
(* of tasks do it. The first cuts the image into rows of cells and the rows   *)
(* into short runs of cells, and a task that has cut appends the histograms   *)
(* of its second part to those of its first; the place in the sequence is all *)
(* that says which cell a histogram belongs to. The second tree cuts the      *)
(* cells down to one and paints it into the shared image.                     *)
(*                                                                            *)
(* A histogram is the area it was made of; what the gradients are, and how    *)
(* the lines of a cell are drawn, is left out.                                *)
EXTENDS Integers, Sequences, SequencesExt

CONSTANTS Sizes,             \* <<width, height>> of the images
          CellDimension,     \* 8 in the code
          SequentialCells    \* sequential_cells_per_row, 4 in the code

\* With one row "height() - 2" wraps around in std::size_t, and the gradients
\* of the only cells are read outside of the image.
ASSUME HogAssumption == /\ Sizes \subseteq (Nat \ {0}) \X (Nat \ {0, 1})
                        /\ CellDimension \in Nat \ {0}
                        /\ SequentialCells \in Nat \ {0}

VARIABLES width, height,
          pending,      \* tasks that are posted and have not run
          waiting,      \* tasks that have cut and wait for their parts
          results,      \* the sequence each finished task has set
          histograms,   \* the result of hog()
          painted,      \* what has been painted into each cell, in order
          tree          \* what runs: "hog", "hog_image", nothing when "done"
                        \* or "divided_by_zero"

hog_vars == <<width, height, pending, waiting, results, histograms, painted, tree>>

\* Of the first tree: from and to are pixels; of the second: cells.
HogTask == [kind : {"row", "col", "image_row", "image_col"},
            from_x : Nat, to_x : Nat, from_y : Nat, to_y : Nat]

Rectangle(kind, from_x, to_x, from_y, to_y) ==
    [kind |-> kind, from_x |-> from_x, to_x |-> to_x, from_y |-> from_y, to_y |-> to_y]

CellsPerRow == width \div CellDimension

\* A mutant: what is left over at the end is a cell of its own.
CellsRoundedUp(task) ==
    CASE task.kind = "row"       -> (task.to_y - task.from_y + CellDimension) \div CellDimension
      [] task.kind = "col"       -> (task.to_x - task.from_x + CellDimension) \div CellDimension
      [] task.kind = "image_row" -> task.to_y - task.from_y + 1
      [] task.kind = "image_col" -> task.to_x - task.from_x + 1

\* cells of a task: its extent in the direction it cuts, in cells.
CellsOf(task) ==
    CASE task.kind = "row"       -> (task.to_y - task.from_y + 1) \div CellDimension
      [] task.kind = "col"       -> (task.to_x - task.from_x + 1) \div CellDimension
      [] task.kind = "image_row" -> task.to_y - task.from_y + 1
      [] task.kind = "image_col" -> task.to_x - task.from_x + 1

IsRow(task) == task.kind \in {"row", "image_row"}

\* A mutant: a single cell is cut as well.
CutsSingleCell(task) == CellsOf(task) >= IF task.kind = "col" THEN SequentialCells ELSE 1

HogCuts(task) == CellsOf(task) > IF task.kind = "col" THEN SequentialCells ELSE 1

\* Where the second half begins: after half of the cells.
Half(task) ==
    (IF IsRow(task) THEN task.from_y ELSE task.from_x)
    + (CellsOf(task) \div 2) * (IF task.kind \in {"row", "col"} THEN CellDimension ELSE 1)

\* A mutant: the results of two halves of rows in the other order.
PartsSwapped(task) ==
    IF HogCuts(task)
    THEN IF IsRow(task)
         THEN <<[task EXCEPT !.from_y = Half(task)], [task EXCEPT !.to_y = Half(task) - 1]>>
         ELSE <<[task EXCEPT !.to_x = Half(task) - 1], [task EXCEPT !.from_x = Half(task)]>>
    ELSE IF task.kind = "row" THEN <<[task EXCEPT !.kind = "col"]>>
    ELSE IF task.kind = "image_row" THEN <<[task EXCEPT !.kind = "image_col"]>>
    ELSE <<>>

\* The tasks a task creates, in the order of std::get<0> and std::get<1>.
PartsOf(task) ==
    IF HogCuts(task)
    THEN IF IsRow(task)
         THEN <<[task EXCEPT !.to_y = Half(task) - 1], [task EXCEPT !.from_y = Half(task)]>>
         ELSE <<[task EXCEPT !.to_x = Half(task) - 1], [task EXCEPT !.from_x = Half(task)]>>
    ELSE IF task.kind = "row" THEN <<[task EXCEPT !.kind = "col"]>>
    ELSE IF task.kind = "image_row" THEN <<[task EXCEPT !.kind = "image_col"]>>
    ELSE <<>>

\* calc_hog_cell for one cell after the other: the area of each.
HistogramsOf(task) ==
    [i \in 1 .. CellsOf(task) |->
        [from_x |-> task.from_x + (i - 1) * CellDimension,
         to_x   |-> task.from_x + i * CellDimension - 1,
         from_y |-> task.from_y,
         to_y   |-> task.to_y]]

\* Where hog_image_col_task looks for the histogram of its cell; from 1.
IndexOf(task) == task.from_y * CellsPerRow + task.from_x + 1
---------------------------------------------------------------------------
\* The task of a script item, with the task of hog() that it starts.
HogInit == /\ \E size \in Sizes : width = size[1] /\ height = size[2]
           /\ pending = {Rectangle("row", 0, width - 1, 0, height - 1)}
           /\ waiting = {}
           /\ results = [t \in {} |-> <<>>]
           /\ histograms = <<>>
           /\ painted = [c \in {} |-> <<>>]
           /\ tree = "hog"

\* operator() of a task that creates others.
Cut(task) == /\ PartsOf(task) # <<>>
             /\ pending' = (pending \ {task}) \cup ToSet(PartsOf(task))
             /\ waiting' = waiting \cup {task}
             /\ UNCHANGED <<width, height, results, histograms, painted, tree>>

SetResult(task, taken, result) ==
    results' = [t \in (DOMAIN results \ taken) \cup {task} |->
                   IF t = task THEN result ELSE results[t]]

\* operator() of a hog_col_task for few cells.
CalcCells(task) == /\ task.kind = "col" /\ PartsOf(task) = <<>>
                   /\ pending' = pending \ {task}
                   /\ SetResult(task, {}, HistogramsOf(task))
                   /\ UNCHANGED <<width, height, waiting, histograms, painted, tree>>

\* operator() of a hog_image_col_task for one cell; histograms->at() throws for
\* an index that is not there.
PaintCell(task) == /\ task.kind = "image_col" /\ PartsOf(task) = <<>>
                   /\ IndexOf(task) \in DOMAIN histograms
                   /\ pending' = pending \ {task}
                   /\ painted' = [painted EXCEPT ![<<task.from_x, task.from_y>>] =
                                     Append(@, histograms[IndexOf(task)])]
                   /\ SetResult(task, {}, <<>>)
                   /\ UNCHANGED <<width, height, waiting, histograms, tree>>

\* The histograms of the second part are appended to those of the first; a
\* single part hands its own on.
Joined(task) ==
    LET part(i) == results[PartsOf(task)[i]]
    IN  IF HogCuts(task) THEN part(1) \o part(2) ELSE part(1)

\* The continuation of a task that has cut: both results are there, whichever
\* came first.
Join(task) == /\ ToSet(PartsOf(task)) \subseteq DOMAIN results
              /\ waiting' = waiting \ {task}
              /\ SetResult(task, ToSet(PartsOf(task)), Joined(task))
              /\ UNCHANGED <<width, height, pending, histograms, painted, tree>>

\* Nothing is pending and nothing waits: the task at the root is finished.
RootFinished == pending = {} /\ waiting = {}
ResultOfRoot == results[CHOOSE t \in DOMAIN results : TRUE]

\* then() in hog_image: the result of hog() goes to hog_image_task, which
\* divides by the number of cells in a row.
HogImage ==
    /\ tree = "hog" /\ RootFinished
    /\ histograms' = ResultOfRoot
    /\ results' = [t \in {} |-> <<>>]
    /\ UNCHANGED <<width, height, waiting>>
    /\ \/ /\ CellsPerRow = 0
          /\ tree' = "divided_by_zero"
          /\ UNCHANGED <<pending, painted>>
       \/ /\ CellsPerRow > 0
          /\ LET rows == Len(ResultOfRoot) \div CellsPerRow
             IN  /\ pending' = {Rectangle("image_row", 0, CellsPerRow - 1, 0, rows - 1)}
                 /\ painted' = [c \in (0 .. CellsPerRow - 1) \X (0 .. rows - 1) |-> <<>>]
          /\ tree' = "hog_image"

\* The continuation that moves the image to the result.
HogDone == /\ tree = "hog_image" /\ RootFinished
           /\ tree' = "done"
           /\ UNCHANGED <<width, height, pending, waiting, results, histograms, painted>>

HogNext == \/ \E task \in pending : Cut(task) \/ CalcCells(task) \/ PaintCell(task)
           \/ \E task \in waiting : Join(task)
           \/ HogImage
           \/ HogDone

\* The pool runs whatever is pending, the last part to finish runs the
\* continuation.
HogSpec == HogInit /\ [][HogNext]_hog_vars /\ WF_hog_vars(HogNext)
---------------------------------------------------------------------------
\* A task is pending, waits or has a result, one of the three: none is created
\* again, though parts of one cell have the extent of the task they are cut from.
HogTypeOK ==
    /\ <<width, height>> \in Sizes
    /\ pending \cup waiting \cup DOMAIN results \subseteq HogTask
    /\ pending \cap waiting = {} /\ (pending \cup waiting) \cap DOMAIN results = {}
    /\ \A c \in DOMAIN painted : Len(painted[c]) \in 0 .. 1
    /\ tree \in {"hog", "hog_image", "done", "divided_by_zero"}

\* Every cell of the finished image is painted once, with the histogram of the
\* pixels in its place: the sequence of the histograms is in the order of the
\* rows whatever the order of the tasks, and both trees, of which one cuts
\* pixels and the other cells, agree on the rows. The last row takes the rows
\* of pixels that are left over, the columns that are left over are dropped.
CellsShowTheirPixels ==
    tree = "done" =>
        \A c \in DOMAIN painted :
            painted[c] = <<[from_x |-> c[1] * CellDimension,
                            to_x   |-> (c[1] + 1) * CellDimension - 1,
                            from_y |-> c[2] * CellDimension,
                            to_y   |-> IF (c[2] + 2) * CellDimension <= height
                                       THEN (c[2] + 1) * CellDimension - 1
                                       ELSE height - 1]>>

\* The image has all cells that fit, and one row of them if none fits.
AllCellsShown ==
    tree = "done" =>
        DOMAIN painted = (0 .. CellsPerRow - 1)
                         \X (0 .. IF height < CellDimension THEN 0 ELSE height \div CellDimension - 1)
=============================================================================
