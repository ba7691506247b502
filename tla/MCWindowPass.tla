---------------------------- MODULE MCWindowPass ----------------------------
(* An image of eight by six pixels, cut into tiles that begin in columns 0, 3 *)
(* and 5 and in rows 0 and 2, and kernels of which every border, every mode   *)
(* and every mask is used by at least one.                                    *)
EXTENDS WindowPass

MCSource == [p \in Pixels |-> (37 * p[1] * p[1] + 91 * p[2] + 53 * p[1] * p[2]) % 256]

Filter(filter, mode, size, border) ==
    [filter |-> filter, mode |-> mode, width |-> size, height |-> size, border |-> border]

MCKernels ==
    {Filter("sobel", "sum_abs", 3, "constant"), Filter("sobel", "vert", 3, "constant"),
     Filter("sobel", "sum_sqrt", 3, "mirror"), Filter("sobel", "hor", 5, "ignore"),
     Filter("sobel", "vert", 5, "mirror"),
     Filter("scharr", "hor", 3, "ignore"), Filter("scharr", "vert", 3, "mirror"),
     Filter("mean", "hor", 3, "ignore"), Filter("mean", "hor", 3, "constant"),
     [Filter("mean", "hor", 3, "mirror") EXCEPT !.height = 5],
     Filter("pooling", "max", 2, "ignore"), Filter("pooling", "min", 2, "ignore"),
     Filter("pooling", "avg", 2, "ignore")}

PoolingKernels == {Filter("pooling", mode, 2, "ignore") : mode \in {"max", "min", "avg"}}
=============================================================================
