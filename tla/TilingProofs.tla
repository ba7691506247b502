---------------------------- MODULE TilingProofs ----------------------------
(* Proofs about Tiling, for images and cutoffs of every size, and about       *)
(* WindowPass: the widened tiles of the kernels, whatever their size, leave   *)
(* out no pixel of the result, and the smallest windows do not reach into a   *)
(* border that is to be ignored. Tasks run in any order.                      *)
EXTENDS WindowPass, TLAPS

------------------------------------------------------------------------------
(* The tasks.                                                                 *)

\* Halving a distance of at least two leaves at least one, and less than all.
LEMMA HalfInside ==
    ASSUME NEW d \in Int, d >= 2
    PROVE  d \div 2 \in Int /\ 1 <= d \div 2 /\ d \div 2 < d
  OBVIOUS

\* A task that covers at least a pixel.
Nonempty(task) == task.from_x <= task.to_x /\ task.from_y <= task.to_y

Covers(task, p) == /\ task.from_x <= p[1] /\ p[1] <= task.to_x
                   /\ task.from_y <= p[2] /\ p[2] <= task.to_y

\* Membership in a task's pixels is a comparison with its borders.
LEMMA PixelInTask ==
    ASSUME NEW task \in Task, NEW p \in Pixels
    PROVE  p \in PixelsOf(task) <=> Covers(task, p)
  <1>1. p[1] \in Int /\ p[2] \in Int /\ p = <<p[1], p[2]>>
    BY SizeAssumption DEF Pixels
  <1> QED  BY <1>1, SizeAssumption DEF PixelsOf, Covers, Task

\* A task covers pixels of the image only.
LEMMA PixelsInImage ==
    ASSUME NEW task \in Task
    PROVE  PixelsOf(task) \subseteq Pixels
  BY SizeAssumption DEF PixelsOf, Pixels, Task

\* The halves of a task that cuts are tasks of its kind, neither is empty,
\* every pixel of the task is in exactly one of them, and they have no others.
LEMMA Halves ==
    ASSUME NEW task \in Task, Nonempty(task), Cuts(task)
    PROVE  /\ FirstHalf(task) \in Task /\ Nonempty(FirstHalf(task))
           /\ SecondHalf(task) \in Task /\ Nonempty(SecondHalf(task))
           /\ \A p \in Pixels :
                /\ Covers(task, p) <=> Covers(FirstHalf(task), p) \/ Covers(SecondHalf(task), p)
                /\ ~(Covers(FirstHalf(task), p) /\ Covers(SecondHalf(task), p))
  <1>0. /\ task.from_x \in Int /\ task.to_x \in Int /\ task.from_y \in Int /\ task.to_y \in Int
        /\ \A p \in Pixels : p[1] \in Int /\ p[2] \in Int
    BY SizeAssumption DEF Task, Pixels
  <1>1. CASE task.kind = "vertical"
    <2> DEFINE half == Rows(task) \div 2
    <2>1. half \in Int /\ 1 <= half /\ half < Rows(task)
      BY <1>0, <1>1, HalfInside, CutoffAssumption DEF Cuts, Rows
    <2>2. /\ FirstHalf(task) = [task EXCEPT !.to_y = task.from_y + half - 1]
          /\ SecondHalf(task) = [task EXCEPT !.from_y = task.from_y + half]
      BY <1>1 DEF FirstHalf, SecondHalf
    <2> HIDE DEF half
    <2>3. FirstHalf(task) \in Task /\ SecondHalf(task) \in Task
      BY <1>0, <2>1, <2>2, SizeAssumption DEF Task, Rows
    <2>4. Nonempty(FirstHalf(task)) /\ Nonempty(SecondHalf(task))
      BY <1>0, <2>1, <2>2 DEF Task, Rows, Nonempty
    <2>5. ASSUME NEW p \in Pixels
          PROVE  /\ Covers(task, p) <=> Covers(FirstHalf(task), p) \/ Covers(SecondHalf(task), p)
                 /\ ~(Covers(FirstHalf(task), p) /\ Covers(SecondHalf(task), p))
      BY <1>0, <2>1, <2>2 DEF Task, Rows, Covers
    <2> QED  BY <2>3, <2>4, <2>5
  <1>2. CASE task.kind = "horizontal"
    <2> DEFINE half == Columns(task) \div 2
    <2>1. half \in Int /\ 1 <= half /\ half < Columns(task)
      BY <1>0, <1>2, HalfInside, CutoffAssumption DEF Cuts, Columns
    <2>2. /\ FirstHalf(task) = [task EXCEPT !.to_x = task.from_x + half - 1]
          /\ SecondHalf(task) = [task EXCEPT !.from_x = task.from_x + half]
      BY <1>2 DEF FirstHalf, SecondHalf
    <2> HIDE DEF half
    <2>3. FirstHalf(task) \in Task /\ SecondHalf(task) \in Task
      BY <1>0, <2>1, <2>2, SizeAssumption DEF Task, Columns
    <2>4. Nonempty(FirstHalf(task)) /\ Nonempty(SecondHalf(task))
      BY <1>0, <2>1, <2>2 DEF Task, Columns, Nonempty
    <2>5. ASSUME NEW p \in Pixels
          PROVE  /\ Covers(task, p) <=> Covers(FirstHalf(task), p) \/ Covers(SecondHalf(task), p)
                 /\ ~(Covers(FirstHalf(task), p) /\ Covers(SecondHalf(task), p))
      BY <1>0, <2>1, <2>2 DEF Task, Columns, Covers
    <2> QED  BY <2>3, <2>4, <2>5
  <1> QED  BY <1>1, <1>2 DEF Task

\* The parts of a task, two halves or the one horizontal task, are tasks that
\* are not empty and share the pixels of the task among them.
LEMMA PartsOfTask ==
    ASSUME NEW task \in Task, Nonempty(task), Parts(task) # {}
    PROVE  /\ \A u \in Parts(task) : u \in Task /\ Nonempty(u)
           /\ \A p \in Pixels : Covers(task, p) <=> \E u \in Parts(task) : Covers(u, p)
           /\ \A u, v \in Parts(task) : u # v =>
                  \A p \in Pixels : ~(Covers(u, p) /\ Covers(v, p))
  <1>1. CASE Cuts(task)
    BY <1>1, Halves DEF Parts
  <1>2. CASE ~Cuts(task)
    <2> DEFINE row == [task EXCEPT !.kind = "horizontal"]
    <2>1. Parts(task) = {row}
      BY <1>2 DEF Parts
    <2>2. row \in Task /\ Nonempty(row)
      BY DEF Task, Nonempty
    <2>3. \A p \in Pixels : Covers(task, p) <=> Covers(row, p)
      BY DEF Task, Covers
    <2> QED  BY <2>1, <2>2, <2>3
  <1> QED  BY <1>1, <1>2

\* A task that is not empty covers a pixel of the image.
LEMMA CoversAPixel ==
    ASSUME NEW task \in Task, Nonempty(task)
    PROVE  \E p \in Pixels : Covers(task, p)
  <1>1. <<task.from_x, task.from_y>> \in Pixels
    BY DEF Task, Pixels
  <1>2. Covers(task, <<task.from_x, task.from_y>>)
    BY SizeAssumption DEF Task, Nonempty, Covers
  <1> QED  BY <1>1, <1>2

---------------------------------------------------------------------------
Active == pending \cup finished

\* DisjointTiles, NoPixelLost and ResultOfItsTile by pixel, and what the
\* shared image holds: the pixels of the tasks that have their result.
Disjoint == \A s, t \in Active : s # t => \A p \in Pixels : ~(Covers(s, p) /\ Covers(t, p))
Covered == \A p \in Pixels : \E t \in Active : Covers(t, p)
Counted == \A t \in finished : \A p \in Pixels :
               histogram[t][p] = IF Covers(t, p) THEN 1 ELSE 0
Written == \A p \in Pixels : image[p] = IF \E t \in finished : Covers(t, p) THEN 1 ELSE 0

\* A task has run or has not.
RunsOnce == pending \cap finished = {}

\* A task that waits has parts to wait for.
WaitsForParts == \A t \in waiting : Parts(t) # {}

IInv == TypeOK /\ RunsOnce /\ WaitsForParts /\ Disjoint /\ Covered /\ Counted /\ Written

LEMMA InitEstablishes == Init => IInv
  <1> SUFFICES ASSUME Init PROVE IInv
    OBVIOUS
  <1>1. Root \in Task /\ Nonempty(Root) /\ \A p \in Pixels : Covers(Root, p)
    BY SizeAssumption DEF Root, Task, Nonempty, Covers, Pixels
  <1>2. TypeOK
    BY <1>1 DEF Init, TypeOK, Nonempty
  <1> QED  BY <1>1, <1>2 DEF Init, IInv, RunsOnce, WaitsForParts, Active, Disjoint, Covered, Counted, Written

\* A task that creates others is replaced by them: the pixels stay covered.
LEMMA DividePreserves ==
    ASSUME IInv, NEW task \in pending, Divide(task)
    PROVE  IInv'
  <1> USE DEF Divide
  <1>1. task \in Task /\ Nonempty(task)
    BY DEF IInv, TypeOK, Nonempty
  <1>2. /\ \A u \in Parts(task) : u \in Task /\ Nonempty(u)
        /\ \A p \in Pixels : Covers(task, p) <=> \E u \in Parts(task) : Covers(u, p)
        /\ \A u, v \in Parts(task) : u # v =>
               \A p \in Pixels : ~(Covers(u, p) /\ Covers(v, p))
    BY <1>1, PartsOfTask
  <1>3. TypeOK'
    BY <1>1, <1>2 DEF IInv, TypeOK, Nonempty
  <1>4. task \notin finished /\ task \in Active
    BY DEF IInv, RunsOnce, Active
  <1>5. Active' = (Active \ {task}) \cup Parts(task)
    BY <1>4 DEF Active
  <1>6. RunsOnce'
    <2> SUFFICES ASSUME NEW u \in Parts(task), u \in finished PROVE FALSE
      BY DEF IInv, RunsOnce
    <2>1. PICK p \in Pixels : Covers(u, p)
      BY <1>2, CoversAPixel
    <2>2. Covers(task, p) /\ u # task /\ u \in Active
      BY <1>2, <1>4, <2>1 DEF Active
    <2> QED  BY <1>4, <2>1, <2>2 DEF IInv, Disjoint
  <1>7. Disjoint'
    <2> SUFFICES ASSUME NEW s \in Active', NEW t \in Active', s # t, NEW p \in Pixels,
                        Covers(s, p), Covers(t, p)
                 PROVE  FALSE
      BY DEF Disjoint
    <2>1. ASSUME NEW u \in Active \ {task}, NEW v \in Parts(task), Covers(u, p), Covers(v, p)
          PROVE  FALSE
      BY <1>2, <1>4, <2>1 DEF IInv, Disjoint
    <2>2. CASE s \in Parts(task) /\ t \in Parts(task)
      BY <1>2, <2>2
    <2>3. CASE s \in Active \ {task} /\ t \in Active \ {task}
      BY <2>3 DEF IInv, Disjoint
    <2> QED  BY <1>5, <2>1, <2>2, <2>3
  <1>8. Covered'
    BY <1>2, <1>5 DEF IInv, Covered
  <1>9. WaitsForParts' /\ Counted' /\ Written'
    BY DEF IInv, WaitsForParts, Counted, Written
  <1> QED  BY <1>3, <1>6, <1>7, <1>8, <1>9 DEF IInv

\* The kernel counts the pixels of its task, which no task has counted before.
LEMMA RunKernelPreserves ==
    ASSUME IInv, NEW task \in pending, RunKernel(task)
    PROVE  IInv'
  <1> USE DEF RunKernel
  <1>1. /\ task \in Task /\ Nonempty(task) /\ task \notin finished
        /\ \A p \in Pixels : p \in PixelsOf(task) <=> Covers(task, p)
    BY PixelInTask DEF IInv, TypeOK, Nonempty, RunsOnce
  <1>2. Active' = Active
    BY DEF Active
  <1>3. TypeOK'
    <2>1. image' \in [Pixels -> Nat]
      BY DEF IInv, TypeOK
    <2>2. histogram' \in [finished' -> [Pixels -> Nat]]
      BY DEF IInv, TypeOK
    <2> QED  BY <1>1, <2>1, <2>2 DEF IInv, TypeOK
  <1>4. RunsOnce' /\ WaitsForParts' /\ Disjoint' /\ Covered'
    BY <1>2 DEF IInv, RunsOnce, WaitsForParts, Disjoint, Covered
  <1>5. Counted'
    BY <1>1 DEF IInv, Counted
  <1>6. Written'
    <2> SUFFICES ASSUME NEW p \in Pixels
                 PROVE  image'[p] = IF \E t \in finished' : Covers(t, p) THEN 1 ELSE 0
      BY DEF Written
    <2>1. CASE Covers(task, p)
      <3>1. ~ \E t \in finished : Covers(t, p)
        BY <1>1, <2>1 DEF IInv, Disjoint, Active
      <3> QED  BY <1>1, <2>1, <3>1 DEF IInv, Written
    <2>2. CASE ~Covers(task, p)
      BY <1>1, <2>2 DEF IInv, TypeOK, Written
    <2> QED  BY <2>1, <2>2
  <1> QED  BY <1>3, <1>4, <1>5, <1>6 DEF IInv

\* Results of parts are replaced by the result of their task: as the parts share
\* its pixels, each pixel is counted once in the sum.
LEMMA MergePreserves ==
    ASSUME IInv, NEW task \in waiting, Merge(task)
    PROVE  IInv'
  <1> USE DEF Merge
  <1>1. task \in Task /\ Nonempty(task) /\ Parts(task) # {}
    BY DEF IInv, TypeOK, Nonempty, WaitsForParts
  <1>2. /\ \A u \in Parts(task) : u \in Task /\ Nonempty(u)
        /\ \A p \in Pixels : Covers(task, p) <=> \E u \in Parts(task) : Covers(u, p)
    BY <1>1, PartsOfTask
  <1>3. Parts(task) \subseteq Active /\ Parts(task) \cap pending = {}
    BY DEF IInv, RunsOnce, Active
  <1>4. task \notin pending
    <2> SUFFICES ASSUME task \in pending PROVE FALSE
      OBVIOUS
    <2>1. PICK u \in Parts(task) : TRUE
      BY <1>1
    <2>2. PICK p \in Pixels : Covers(u, p)
      BY <1>2, CoversAPixel
    <2> QED  BY <1>2, <1>3, <2>2 DEF IInv, Disjoint, Active
  <1>5. Active' = (Active \ Parts(task)) \cup {task}
    BY <1>3 DEF Active
  <1>6. \A p \in Pixels : Merged(task)[p] = IF Covers(task, p) THEN 1 ELSE 0
    <2>1. CASE Cuts(task)
      <3>1. Parts(task) = {FirstHalf(task), SecondHalf(task)}
        BY <2>1 DEF Parts
      <3>2. \A p \in Pixels :
              /\ Covers(task, p) <=> Covers(FirstHalf(task), p) \/ Covers(SecondHalf(task), p)
              /\ ~(Covers(FirstHalf(task), p) /\ Covers(SecondHalf(task), p))
        BY <1>1, <2>1, Halves
      <3>3. \A p \in Pixels :
              /\ histogram[FirstHalf(task)][p] = IF Covers(FirstHalf(task), p) THEN 1 ELSE 0
              /\ histogram[SecondHalf(task)][p] = IF Covers(SecondHalf(task), p) THEN 1 ELSE 0
        BY <3>1 DEF IInv, Counted
      <3> HIDE DEF Merge
      <3> QED  BY <2>1, <3>2, <3>3 DEF Merged
    <2>2. CASE ~Cuts(task)
      <3> DEFINE row == [task EXCEPT !.kind = "horizontal"]
      <3>1. Parts(task) = {row} /\ Merged(task) = histogram[row]
        BY <1>1, <2>2 DEF Parts, Merged
      <3> QED  BY <1>2, <3>1 DEF IInv, Counted
    <2> QED  BY <2>1, <2>2
  <1>7. Merged(task) \in [Pixels -> Nat]
    <2>1. \A t \in finished : histogram[t] \in [Pixels -> Nat]
      BY DEF IInv, TypeOK
    <2>2. CASE Cuts(task)
      BY <2>1, <2>2 DEF Parts, Merged
    <2>3. CASE ~Cuts(task)
      BY <1>1, <2>1, <2>3 DEF Parts, Merged
    <2> QED  BY <2>2, <2>3
  <1>8. TypeOK'
    <2>1. histogram' \in [finished' -> [Pixels -> Nat]]
      BY <1>7 DEF IInv, TypeOK
    <2> QED  BY <1>1, <2>1 DEF IInv, TypeOK
  <1>9. RunsOnce' /\ WaitsForParts'
    BY <1>4 DEF IInv, RunsOnce, WaitsForParts
  <1>10. Disjoint'
    <2> SUFFICES ASSUME NEW s \in Active', NEW t \in Active', s # t, NEW p \in Pixels,
                        Covers(s, p), Covers(t, p)
                 PROVE  FALSE
      BY DEF Disjoint
    <2>1. ASSUME NEW u \in Active \ Parts(task), Covers(u, p), Covers(task, p)
          PROVE  FALSE
      BY <1>2, <1>3, <2>1 DEF IInv, Disjoint
    <2>2. CASE s \in Active \ Parts(task) /\ t \in Active \ Parts(task)
      BY <2>2 DEF IInv, Disjoint
    <2> QED  BY <1>5, <2>1, <2>2
  <1>11. Covered'
    BY <1>2, <1>5 DEF IInv, Covered
  <1>12. Counted'
    BY <1>6 DEF IInv, Counted
  <1>13. Written'
    BY <1>2 DEF IInv, Written
  <1> QED  BY <1>8, <1>9, <1>10, <1>11, <1>12, <1>13 DEF IInv

LEMMA StepPreserves == IInv /\ [Next]_vars => IInv'
  <1> SUFFICES ASSUME IInv, [Next]_vars PROVE IInv'
    OBVIOUS
  <1>1. CASE UNCHANGED vars
    BY <1>1 DEF vars, IInv, TypeOK, RunsOnce, WaitsForParts, Active, Disjoint, Covered,
                Counted, Written
  <1>2. CASE Next
    BY <1>2, DividePreserves, RunKernelPreserves, MergePreserves DEF Next
  <1> QED  BY <1>1, <1>2

\* The inductive invariant holds for every image and every cutoff above one.
THEOREM Invariance == Spec => []IInv
  <1> QED  BY InitEstablishes, StepPreserves, PTL DEF Spec

---------------------------------------------------------------------------
\* Tasks stay within the image and none becomes empty, so that no unsigned
\* border wraps around.
THEOREM TypeCorrect == Spec => []TypeOK
  <1>1. IInv => TypeOK
    BY DEF IInv
  <1> QED  BY <1>1, Invariance, PTL

\* Tiles whose kernels may run at the same time have different pixels.
THEOREM TilesNeverMeet == Spec => []DisjointTiles
  <1>1. IInv => DisjointTiles
    <2> SUFFICES ASSUME IInv, NEW s \in Active, NEW t \in Active, s # t
                 PROVE  PixelsOf(s) \cap PixelsOf(t) = {}
      BY DEF DisjointTiles, Active
    <2>1. s \in Task /\ t \in Task
      BY DEF IInv, TypeOK, Active
    <2> QED  BY <2>1, PixelInTask, PixelsInImage DEF IInv, Disjoint
  <1> QED  BY <1>1, Invariance, PTL

\* No pixel gets lost where tasks are cut.
THEOREM KeepsEveryPixel == Spec => []NoPixelLost
  <1>1. IInv => NoPixelLost
    <2> SUFFICES ASSUME IInv, NEW p \in Pixels
                 PROVE  \E t \in Active : p \in PixelsOf(t)
      BY DEF NoPixelLost, Active
    <2>1. \A t \in Active : t \in Task
      BY DEF IInv, TypeOK, Active
    <2> QED  BY <2>1, PixelInTask DEF IInv, Covered
  <1> QED  BY <1>1, Invariance, PTL

\* Every result, and so the one of the whole image, counts the pixels of its
\* task once each.
THEOREM CountsEveryPixelOnce == Spec => []ResultOfItsTile
  <1>1. IInv => ResultOfItsTile
    <2> SUFFICES ASSUME IInv, NEW t \in finished, NEW p \in Pixels
                 PROVE  histogram[t][p] = IF p \in PixelsOf(t) THEN 1 ELSE 0
      BY DEF ResultOfItsTile
    <2>1. t \in Task
      BY DEF IInv, TypeOK
    <2> QED  BY <2>1, PixelInTask DEF IInv, Counted
  <1> QED  BY <1>1, Invariance, PTL

\* The shared image is written as by one pass: at the start no pixel is, and a
\* step writes pixels that are not written yet, or none. That all are written
\* in the end is a liveness property and left to TLC.
THEOREM WritesAsOnePass == Spec => Pass!SafeSpec
  <1>1. Init => Pass!Init
    BY DEF Init, Pass!Init
  <1>2. IInv /\ IInv' /\ [Next]_vars => [Pass!Write]_image
    <2> SUFFICES ASSUME IInv, IInv', [Next]_vars PROVE [Pass!Write]_image
      OBVIOUS
    <2>1. image' \in [Pixels -> {0, 1}]
      <3>1. image' \in [Pixels -> Nat]
        BY DEF IInv, TypeOK
      <3> QED  BY <3>1 DEF IInv, Written
    <2>2. image \in [Pixels -> Nat]
      BY DEF IInv, TypeOK
    <2>3. ASSUME NEW task \in pending, RunKernel(task)
          PROVE  Pass!Write
      BY <2>1, <2>2, <2>3 DEF RunKernel, Pass!Write
    <2> QED  BY <2>3 DEF Next, vars, Divide, Merge
  <1> QED  BY <1>1, <1>2, Invariance, PTL DEF Spec, Pass!SafeSpec

------------------------------------------------------------------------------
(* The filters on top of them.                                                *)
\* The pixel of the source whose tile has to write a pixel of the result.
Origin(k, p) == IF k.filter = "pooling" THEN <<2 * p[1], 2 * p[2]>> ELSE p

LEMMA HalfOfSize ==
    ASSUME NEW k \in Kernel
    PROVE  HalfWidth(k) \in Nat \ {0} /\ HalfHeight(k) \in Nat \ {0}
  BY DEF Kernel, HalfWidth, HalfHeight

LEMMA OriginInImage ==
    ASSUME NEW k \in Kernel, NEW p \in ResultPixels(k)
    PROVE  p \in Pixels /\ Origin(k, p) \in Pixels
  <1>1. CASE k.filter = "pooling"
    BY <1>1, SizeAssumption DEF ResultPixels, Origin, Pixels
  <1>2. CASE k.filter # "pooling"
    <2> DEFINE h == IF k.border = "ignore" THEN HalfWidth(k) ELSE 0
               v == IF k.border = "ignore" THEN HalfHeight(k) ELSE 0
    <2>1. ResultPixels(k) = (h .. Width - 1 - h) \X (v .. Height - 1 - v)
      BY <1>2 DEF ResultPixels
    <2>2. h \in Nat /\ v \in Nat
      BY HalfOfSize
    <2> HIDE DEF h, v
    <2>3. p \in Pixels
      BY <2>1, <2>2, SizeAssumption DEF Pixels
    <2> QED  BY <1>2, <2>3 DEF Origin
  <1> QED  BY <1>1, <1>2

\* A call writes the pixels of the result that belong to its tile.
LEMMA CallReachesTile ==
    ASSUME NEW k \in Kernel, NEW task \in Task, NEW p \in ResultPixels(k),
           Covers(task, Origin(k, p))
    PROVE  p \in Targets(k, task)
  <1>0. /\ task.from_x \in Int /\ task.to_x \in Int /\ task.from_y \in Int /\ task.to_y \in Int
        /\ Width \in Int /\ Height \in Int
    BY SizeAssumption DEF Task
  <1>1. CASE k.filter = "pooling"
    <2>1. p \in (0 .. Width \div 2 - 1) \X (0 .. Height \div 2 - 1)
      BY <1>1 DEF ResultPixels
    <2>2. /\ p[1] \in Int /\ p[2] \in Int /\ p = <<p[1], p[2]>>
          /\ task.from_x <= 2 * p[1] /\ 2 * p[1] <= task.to_x
          /\ task.from_y <= 2 * p[2] /\ 2 * p[2] <= task.to_y
      BY <1>0, <1>1, <2>1 DEF Origin, Covers
    <2>3. /\ task.from_x \div 2 <= p[1] /\ p[1] <= task.to_x \div 2
          /\ task.from_y \div 2 <= p[2] /\ p[2] <= task.to_y \div 2
      BY <1>0, <2>2
    <2>4. p[1] \in PooledColumns(task) /\ p[2] \in PooledRows(task)
      BY <1>0, <2>2, <2>3 DEF PooledColumns, PooledRows
    <2> QED  BY <1>1, <2>2, <2>4 DEF Targets
  <1>2. CASE k.filter # "pooling"
    <2> DEFINE h == HalfWidth(k)
               v == HalfHeight(k)
               w == Widened(k, task)
    <2>1. h \in Nat \ {0} /\ v \in Nat \ {0}
      BY HalfOfSize
    <2>2. /\ p[1] \in Int /\ p[2] \in Int /\ p = <<p[1], p[2]>>
          /\ task.from_x <= p[1] /\ p[1] <= task.to_x
          /\ task.from_y <= p[2] /\ p[2] <= task.to_y
          /\ k.border = "ignore" => /\ h <= p[1] /\ p[1] <= Width - 1 - h
                                    /\ v <= p[2] /\ p[2] <= Height - 1 - v
          /\ 0 <= p[1] /\ p[1] <= Width - 1 /\ 0 <= p[2] /\ p[2] <= Height - 1
      <3>1. p \in Pixels /\ Covers(task, p)
        BY <1>2, OriginInImage DEF Origin
      <3>2. k.border = "ignore" => p \in (h .. Width - 1 - h) \X (v .. Height - 1 - v)
        BY <1>2 DEF ResultPixels
      <3> HIDE DEF h, v
      <3> QED  BY <1>0, <2>1, <3>1, <3>2 DEF Pixels, Covers
    <2>3. Targets(k, task) = (w.from_x .. w.to_x) \X (w.from_y .. w.to_y)
      BY <1>2 DEF Targets, PixelsOf
    <2>4. /\ w.from_x \in Int /\ w.to_x \in Int /\ w.from_y \in Int /\ w.to_y \in Int
          /\ w.from_x <= p[1] /\ p[1] <= w.to_x
          /\ w.from_y <= p[2] /\ p[2] <= w.to_y
      <3>1. CASE k.filter = "mean" /\ k.border = "constant"
        BY <1>0, <2>2, <3>1 DEF Widened
      <3>2. CASE ~(k.filter = "mean" /\ k.border = "constant")
        <4>1. w = [task EXCEPT
                     !.from_x = IF @ <= h THEN Margin(k, h) ELSE @ - h,
                     !.to_x = (IF @ >= Width - h THEN Width - Margin(k, h) ELSE @ + h) - 1,
                     !.from_y = IF @ <= v THEN Margin(k, v) ELSE @ - v,
                     !.to_y = (IF @ >= Height - v THEN Height - Margin(k, v) ELSE @ + v) - 1]
          BY <3>2 DEF Widened
        <4>2. /\ w.from_x = IF task.from_x <= h THEN Margin(k, h) ELSE task.from_x - h
              /\ w.to_x = (IF task.to_x >= Width - h THEN Width - Margin(k, h)
                                                     ELSE task.to_x + h) - 1
              /\ w.from_y = IF task.from_y <= v THEN Margin(k, v) ELSE task.from_y - v
              /\ w.to_y = (IF task.to_y >= Height - v THEN Height - Margin(k, v)
                                                      ELSE task.to_y + v) - 1
          BY <4>1 DEF Task
        <4>3. /\ Margin(k, h) \in Nat /\ Margin(k, v) \in Nat
              /\ Margin(k, h) <= p[1] /\ p[1] <= Width - 1 - Margin(k, h)
              /\ Margin(k, v) <= p[2] /\ p[2] <= Height - 1 - Margin(k, v)
          BY <1>0, <2>1, <2>2 DEF Margin
        <4> HIDE DEF h, v, w
        <4>4. w.from_x \in Int /\ w.from_x <= p[1]
          BY <1>0, <2>1, <2>2, <4>2, <4>3
        <4>5. w.to_x \in Int /\ p[1] <= w.to_x
          BY <1>0, <2>1, <2>2, <4>2, <4>3
        <4>6. w.from_y \in Int /\ w.from_y <= p[2]
          BY <1>0, <2>1, <2>2, <4>2, <4>3
        <4>7. w.to_y \in Int /\ p[2] <= w.to_y
          BY <1>0, <2>1, <2>2, <4>2, <4>3
        <4> QED  BY <4>4, <4>5, <4>6, <4>7
      <3> QED  BY <3>1, <3>2
    <2> HIDE DEF w
    <2> QED  BY <2>2, <2>3, <2>4
  <1> QED  BY <1>1, <1>2

\* A window of size 3 is at most one pixel wider than its tile, and a tile that
\* begins or ends next to an ignored border is not widened there.
LEMMA SmallWindowStaysInside ==
    ASSUME NEW k \in Kernel, k.filter # "pooling", k.width = 3, k.height = 3,
           NEW task \in Task, NEW p \in Targets(k, task)
    PROVE  p \in ResultPixels(k)
  <1> DEFINE w == Widened(k, task)
             m == IF k.border = "ignore" THEN 1 ELSE 0
  <1>0. /\ task.from_x \in 0 .. Width - 1 /\ task.to_x \in 0 .. Width - 1
        /\ task.from_y \in 0 .. Height - 1 /\ task.to_y \in 0 .. Height - 1
        /\ Width \in Int /\ Height \in Int
    BY SizeAssumption DEF Task
  <1>1. HalfWidth(k) = 1 /\ HalfHeight(k) = 1 /\ Margin(k, 1) = m
    BY DEF HalfWidth, HalfHeight, Margin
  <1>2. ResultPixels(k) = (m .. Width - 1 - m) \X (m .. Height - 1 - m)
    BY <1>1 DEF ResultPixels
  <1>3. p \in (w.from_x .. w.to_x) \X (w.from_y .. w.to_y)
    BY DEF Targets, PixelsOf
  <1>4. /\ w.from_x \in Int /\ m <= w.from_x /\ w.to_x \in Int /\ w.to_x <= Width - 1 - m
        /\ w.from_y \in Int /\ m <= w.from_y /\ w.to_y \in Int /\ w.to_y <= Height - 1 - m
    <2>1. CASE k.filter = "mean" /\ k.border = "constant"
      BY <1>0, <2>1 DEF Widened
    <2>2. CASE ~(k.filter = "mean" /\ k.border = "constant")
      <3>1. /\ w.from_x = IF task.from_x <= 1 THEN m ELSE task.from_x - 1
            /\ w.to_x = (IF task.to_x >= Width - 1 THEN Width - m ELSE task.to_x + 1) - 1
            /\ w.from_y = IF task.from_y <= 1 THEN m ELSE task.from_y - 1
            /\ w.to_y = (IF task.to_y >= Height - 1 THEN Height - m ELSE task.to_y + 1) - 1
        BY <1>1, <2>2 DEF Widened, Task
      <3> HIDE DEF w
      <3>2. w.from_x \in Int /\ m <= w.from_x
        BY <1>0, <3>1
      <3>3. w.to_x \in Int /\ w.to_x <= Width - 1 - m
        BY <1>0, <3>1
      <3>4. w.from_y \in Int /\ m <= w.from_y
        BY <1>0, <3>1
      <3>5. w.to_y \in Int /\ w.to_y <= Height - 1 - m
        BY <1>0, <3>1
      <3> QED  BY <3>2, <3>3, <3>4, <3>5
    <2> QED  BY <2>1, <2>2
  <1> HIDE DEF w, m
  <1>5. m \in Int
    BY DEF m
  <1> QED  BY <1>0, <1>2, <1>3, <1>4, <1>5

\* A call writes something wherever it writes.
LEMMA CallWritesAValue ==
    ASSUME NEW k \in Kernel, NEW task, NEW p
    PROVE  Values(k, task, p) # {}
  BY OutsideAssumption DEF Kernel, Values, IsGradient

---------------------------------------------------------------------------
\* WindowPass is Tiling with an output on top.
LEMMA StepOfTiling == [WindowNext]_allVars => [Next]_vars
  BY DEF WindowNext, allVars, CallKernel, Next

LEMMA TilesAsProved == WindowSpec => []IInv
  <1>1. WindowInit => IInv
    BY InitEstablishes DEF WindowInit
  <1> QED  BY <1>1, StepOfTiling, StepPreserves, PTL DEF WindowSpec

\* Every pixel whose tile has run has been written, and with a window of size 3
\* no others than those of the result have.
TilesWritten == \A t \in finished : \A p \in ResultPixels(kernel) :
                    Covers(t, Origin(kernel, p)) => output[p] # {}

OutputInv == kernel \in Kernel /\ TilesWritten /\ IgnoredBorderIsLeft

LEMMA CallPreserves ==
    ASSUME IInv, OutputInv, NEW task \in pending, CallKernel(task)
    PROVE  OutputInv'
  <1> USE DEF CallKernel
  <1>1. task \in Task /\ kernel \in Kernel
    BY DEF IInv, TypeOK, OutputInv
  <1>2. finished' = finished \cup {task}
    BY DEF RunKernel
  <1>3. TilesWritten'
    <2> SUFFICES ASSUME NEW t \in finished', NEW p \in ResultPixels(kernel),
                        Covers(t, Origin(kernel, p))
                 PROVE  output'[p] # {}
      BY DEF TilesWritten
    <2>1. p \in Pixels
      BY <1>1, OriginInImage
    <2>2. CASE t = task
      <3>1. p \in Targets(kernel, task)
        BY <1>1, <2>2, CallReachesTile
      <3> QED  BY <1>1, <2>1, <3>1, CallWritesAValue
    <2>3. CASE t \in finished
      BY <1>1, <2>1, <2>3 DEF OutputInv, TilesWritten
    <2> QED  BY <1>2, <2>2, <2>3
  <1>4. IgnoredBorderIsLeft'
    <2> SUFFICES ASSUME kernel.filter # "pooling", kernel.width = 3, kernel.height = 3,
                        NEW p \in Pixels \ ResultPixels(kernel)
                 PROVE  output'[p] = {}
      BY DEF IgnoredBorderIsLeft
    <2>1. p \notin Targets(kernel, task)
      BY <1>1, SmallWindowStaysInside
    <2> QED  BY <2>1 DEF OutputInv, IgnoredBorderIsLeft
  <1> QED  BY <1>1, <1>3, <1>4 DEF OutputInv

\* The task whose parts are merged covers what its parts cover.
LEMMA MergeKeepsOutput ==
    ASSUME IInv, OutputInv, NEW task \in waiting, Merge(task), UNCHANGED <<kernel, output>>
    PROVE  OutputInv'
  <1> USE DEF Merge
  <1>1. task \in Task /\ Nonempty(task) /\ Parts(task) # {} /\ kernel \in Kernel
    BY DEF IInv, TypeOK, Nonempty, WaitsForParts, OutputInv
  <1>2. \A p \in Pixels : Covers(task, p) <=> \E u \in Parts(task) : Covers(u, p)
    BY <1>1, PartsOfTask
  <1>3. TilesWritten'
    <2> SUFFICES ASSUME NEW t \in finished', NEW p \in ResultPixels(kernel),
                        Covers(t, Origin(kernel, p))
                 PROVE  output[p] # {}
      BY DEF TilesWritten
    <2>1. Origin(kernel, p) \in Pixels
      BY <1>1, OriginInImage
    <2>2. CASE t \in finished
      BY <2>2 DEF OutputInv, TilesWritten
    <2>3. CASE t = task
      <3>1. PICK u \in Parts(task) : Covers(u, Origin(kernel, p))
        BY <1>2, <2>1, <2>3
      <3> QED  BY <3>1 DEF OutputInv, TilesWritten
    <2> QED  BY <2>2, <2>3
  <1> QED  BY <1>1, <1>3 DEF OutputInv, IgnoredBorderIsLeft

THEOREM OutputInvariance == WindowSpec => []OutputInv
  <1>1. WindowInit => OutputInv
    BY KernelsAssumption DEF WindowInit, Init, OutputInv, TilesWritten, IgnoredBorderIsLeft
  <1>2. IInv /\ OutputInv /\ [WindowNext]_allVars => OutputInv'
    <2> SUFFICES ASSUME IInv, OutputInv, [WindowNext]_allVars PROVE OutputInv'
      OBVIOUS
    <2>1. CASE UNCHANGED allVars
      BY <2>1 DEF allVars, vars, OutputInv, TilesWritten, IgnoredBorderIsLeft
    <2>2. ASSUME NEW task \in pending, Divide(task), UNCHANGED <<kernel, output>>
          PROVE  OutputInv'
      BY <2>2 DEF Divide, OutputInv, TilesWritten, IgnoredBorderIsLeft
    <2> QED  BY <2>1, <2>2, CallPreserves, MergeKeepsOutput DEF WindowNext
  <1> QED  BY <1>1, <1>2, TilesAsProved, PTL DEF WindowSpec

---------------------------------------------------------------------------
\* When the caller gets the image the kernel has written every pixel of it.
THEOREM FiltersWholeImage == WindowSpec => []WholeImageFiltered
  <1>1. OutputInv => WholeImageFiltered
    <2> SUFFICES ASSUME OutputInv, finished = {Root}, NEW p \in ResultPixels(kernel)
                 PROVE  output[p] # {}
      BY DEF WholeImageFiltered
    <2>1. Origin(kernel, p) \in Pixels
      BY OriginInImage DEF OutputInv
    <2>2. Covers(Root, Origin(kernel, p))
      BY <2>1, SizeAssumption DEF Root, Covers, Pixels
    <2> QED  BY <2>2 DEF OutputInv, TilesWritten
  <1> QED  BY <1>1, OutputInvariance, PTL

\* Windows of size 3 do not write a border that is to be ignored.
THEOREM LeavesIgnoredBorder == WindowSpec => []IgnoredBorderIsLeft
  <1>1. OutputInv => IgnoredBorderIsLeft
    BY DEF OutputInv
  <1> QED  BY <1>1, OutputInvariance, PTL

=============================================================================
