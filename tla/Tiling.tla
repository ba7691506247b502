------------------------------- MODULE Tiling -------------------------------
(* tiling.hpp: an image is processed by a tree of tasks. A vertical task cuts *)
(* its rows in two halves until they are less than the vertical cutoff, and   *)
(* hands the rest to a horizontal task, which does the same with the columns  *)
(* and runs the kernel on what is left. A task that has cut waits for both    *)
(* halves. Any thread of the pool may run any task that is pending.           *)
(*                                                                            *)
(* The two functors differ in what a task writes to, and the model keeps both *)
(* outputs: with the functor "image" all tasks write to one shared image, and *)
(* with the functor "histogram" each has a result of its own and a task that  *)
(* waited merges the results of its halves. Both are kept by pixel, the       *)
(* finest histogram there is: how often the pixel has been written, and how   *)
(* often it is counted in a result.                                           *)
EXTENDS Integers

CONSTANTS Width, Height,     \* of the image
          CutoffX, CutoffY   \* parameters.cutoff_x, parameters.cutoff_y

ASSUME SizeAssumption == Width \in Nat \ {0} /\ Height \in Nat \ {0}

\* A cutoff of 0 or 1 lets tasks cut a single column or row, "half - 1" wraps
\* around in size_t and the cutting never ends; the default is 512.
ASSUME CutoffAssumption == /\ CutoffX \in Nat \ {0, 1}
                           /\ CutoffY \in Nat \ {0, 1}

VARIABLES pending,    \* tasks that are posted and have not run
          waiting,    \* tasks that have cut and wait for their parts
          finished,   \* tasks whose result is set and not yet taken by the task above
          image,      \* the shared output
          histogram   \* the own output of each finished task

vars == <<pending, waiting, finished, image, histogram>>

Pixels == (0 .. Width - 1) \X (0 .. Height - 1)

Task == [kind : {"vertical", "horizontal"},
         from_x : 0 .. Width - 1, to_x : 0 .. Width - 1,
         from_y : 0 .. Height - 1, to_y : 0 .. Height - 1]

\* A mutant: the size of the image for the last row and column.
RootUpToSize == [kind |-> "vertical", from_x |-> 0, to_x |-> Width,
                 from_y |-> 0, to_y |-> Height]

Root == [kind |-> "vertical", from_x |-> 0, to_x |-> Width - 1,
         from_y |-> 0, to_y |-> Height - 1]

\* A mutant: the kernel also writes the column before its tile.
PixelsOfWindow(task) == (task.from_x - 1 .. task.to_x) \X (task.from_y .. task.to_y)

\* The kernels of algorithms/tiling that work on single pixels, for one:
\* for (y = from_y; y <= to_y; ++y) for (x = from_x; x <= to_x; ++x).
PixelsOf(task) == (task.from_x .. task.to_x) \X (task.from_y .. task.to_y)

---------------------------------------------------------------------------
Rows(task) == task.to_y - task.from_y
Columns(task) == task.to_x - task.from_x

Cuts(task) == IF task.kind = "vertical" THEN Rows(task) >= CutoffY
                                        ELSE Columns(task) >= CutoffX

\* A mutant: the first half goes up to "half" and not to "half - 1".
FirstHalfWithMiddle(task) ==
    IF task.kind = "vertical"
    THEN [task EXCEPT !.to_y = task.from_y + Rows(task) \div 2]
    ELSE [task EXCEPT !.to_x = task.from_x + Columns(task) \div 2]

FirstHalf(task) ==
    IF task.kind = "vertical"
    THEN [task EXCEPT !.to_y = task.from_y + Rows(task) \div 2 - 1]
    ELSE [task EXCEPT !.to_x = task.from_x + Columns(task) \div 2 - 1]

\* A mutant: the second half begins at "half + 1" when columns are cut.
SecondHalfAfterMiddle(task) ==
    IF task.kind = "vertical"
    THEN [task EXCEPT !.from_y = task.from_y + Rows(task) \div 2]
    ELSE [task EXCEPT !.from_x = task.from_x + Columns(task) \div 2 + 1]

SecondHalf(task) ==
    IF task.kind = "vertical"
    THEN [task EXCEPT !.from_y = task.from_y + Rows(task) \div 2]
    ELSE [task EXCEPT !.from_x = task.from_x + Columns(task) \div 2]

\* The tasks a task creates; none if it runs the kernel itself.
Parts(task) ==
    IF Cuts(task) THEN {FirstHalf(task), SecondHalf(task)}
    ELSE IF task.kind = "vertical" THEN {[task EXCEPT !.kind = "horizontal"]}
    ELSE {}

---------------------------------------------------------------------------
Init == /\ pending = {Root}
        /\ waiting = {}
        /\ finished = {}
        /\ image = [p \in Pixels |-> 0]
        /\ histogram = [t \in {} |-> image]

\* operator() of a task that creates others.
Divide(task) ==
    /\ Parts(task) # {}
    /\ pending' = (pending \ {task}) \cup Parts(task)
    /\ waiting' = waiting \cup {task}
    /\ UNCHANGED <<finished, image, histogram>>

\* A mutant: the branch that does not set the result of the task.
RunKernelWithoutResult(task) ==
    /\ Parts(task) = {}
    /\ pending' = pending \ {task}
    /\ image' = [p \in Pixels |-> IF p \in PixelsOf(task) THEN image[p] + 1 ELSE image[p]]
    /\ UNCHANGED <<waiting, finished, histogram>>

\* operator() of a task that runs the kernel. Kernels run at the same time on
\* several threads; as their pixels differ (DisjointTiles) this is one step.
RunKernel(task) ==
    /\ Parts(task) = {}
    /\ pending' = pending \ {task}
    /\ finished' = finished \cup {task}
    /\ image' = [p \in Pixels |-> IF p \in PixelsOf(task) THEN image[p] + 1 ELSE image[p]]
    /\ histogram' = [t \in finished' |->
                        IF t = task
                        THEN [p \in Pixels |-> IF p \in PixelsOf(task) THEN 1 ELSE 0]
                        ELSE histogram[t]]
    /\ UNCHANGED waiting

\* A mutant: the functor of the shared image, without merge, for histograms.
MergedFirstOnly(task) ==
    IF Cuts(task) THEN histogram[FirstHalf(task)]
                  ELSE histogram[[task EXCEPT !.kind = "horizontal"]]

\* What a task makes of the results of its parts: horizontal_merge_task and
\* vertical_merge_task add them, a vertical task that has not cut shares its
\* output with its horizontal task.
Merged(task) ==
    IF Cuts(task)
    THEN [p \in Pixels |-> histogram[FirstHalf(task)][p] + histogram[SecondHalf(task)][p]]
    ELSE histogram[[task EXCEPT !.kind = "horizontal"]]

\* The continuation that gets the results of all parts, and the task that
\* merges them: they touch nothing but these results, hence one step.
Merge(task) ==
    /\ Parts(task) \subseteq finished
    /\ waiting' = waiting \ {task}
    /\ finished' = (finished \ Parts(task)) \cup {task}
    /\ histogram' = [t \in finished' |-> IF t = task THEN Merged(task) ELSE histogram[t]]
    /\ UNCHANGED <<pending, image>>

Next == \/ \E task \in pending : Divide(task) \/ RunKernel(task)
        \/ \E task \in waiting : Merge(task)

\* The pool runs whatever is pending, the last part to finish runs the
\* continuation.
Spec == Init /\ [][Next]_vars /\ WF_vars(Next)

---------------------------------------------------------------------------
\* Tasks lie within the image and cover at least a pixel (the unsigned
\* arithmetic of the halves never wraps), outputs are counts.
TypeOK ==
    /\ pending \subseteq Task /\ waiting \subseteq Task /\ finished \subseteq Task
    /\ \A task \in pending \cup waiting \cup finished :
           task.from_x <= task.to_x /\ task.from_y <= task.to_y
    /\ image \in [Pixels -> Nat]
    /\ histogram \in [finished -> [Pixels -> Nat]]

\* Two tasks that may run at the same time, or have run and are not merged
\* yet, have no pixel in common. So kernels for single pixels, which write the
\* pixels of their tile to one shared image without a lock, never meet. The
\* kernels of windows widen their tile and do meet: see module WindowPass.
DisjointTiles ==
    \A s, t \in pending \cup finished : s # t => PixelsOf(s) \cap PixelsOf(t) = {}

\* No pixel gets lost when a task cuts: every pixel is in a task that is still
\* to run or in a result that is still to be merged.
NoPixelLost ==
    \A p \in Pixels : \E t \in pending \cup finished : p \in PixelsOf(t)

\* A result counts the pixels of its own task, each once, and no others,
\* whichever threads ran the parts and in whichever order they were merged.
ResultOfItsTile ==
    \A t \in finished : \A p \in Pixels :
        histogram[t][p] = IF p \in PixelsOf(t) THEN 1 ELSE 0

\* The tiling ends: the caller gets the result and no task is left behind.
Ends == <>(finished = {Root} /\ pending = {} /\ waiting = {})

\* The tiled algorithm implements the pass over the whole image.
Pass == INSTANCE PixelPass
ImplementsPixelPass == Pass!Spec
=============================================================================
