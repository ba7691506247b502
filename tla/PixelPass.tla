----------------------------- MODULE PixelPass -----------------------------
(* What a tiled algorithm promises to its caller: the output is computed as   *)
(* by one pass over the image. A pixel is written at most once, pixels are    *)
(* written in any order and any number at a time, and in the end all of them  *)
(* have been.                                                                 *)
EXTENDS Integers

CONSTANT Pixels

VARIABLE image    \* how often each pixel has been written

Init == image = [p \in Pixels |-> 0]

Write == /\ image' \in [Pixels -> {0, 1}]
         /\ \A p \in Pixels : image[p] <= image'[p]

SafeSpec == Init /\ [][Write]_image

Spec == SafeSpec /\ <>(\A p \in Pixels : image[p] = 1)
=============================================================================
