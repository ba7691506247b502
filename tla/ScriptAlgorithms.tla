-------------------------- MODULE ScriptAlgorithms --------------------------
(* The algorithms that a script can call. Each has a side that is run when the *)
(* script is parsed and a side that is run when an image is processed, written *)
(* apart from each other:                                                      *)
(*   ..Parse  on_parse: for the types of the argument images it accepts, the   *)
(*            type it registers its own result with. It throws for all others. *)
(*   ..Task   the task behind on_compile: for the types of the images it finds *)
(*            in the context, the type of the image it stores as the result.   *)
(*            For all others it returns without an exception and never sets    *)
(*            its result; pooling and hog_image may throw (see Outcomes).      *)
(* Parameters other than images are taken to be valid; pixels are left out.    *)
EXTENDS Sequences

ImageTypes == {"gray", "rgb"}

OneImage == {<<t>> : t \in ImageTypes}
Pairs == ImageTypes \X ImageTypes
EqualPairs == {p \in Pairs : p[1] = p[2]}

(* A filter returns an image of the type of the (first) image it gets. *)
Filter(arguments) == [a \in arguments |-> a[1]]

ToType(arguments, type) == [a \in arguments |-> type]

AndParse == Filter(EqualPairs)
AndTask == Filter(EqualPairs)

OrParse == Filter(EqualPairs)
OrTask == Filter(EqualPairs)

(* A mutant: the second branch of the task, for colours, is missing. *)
DiffTaskGrayOnly == Filter({<<"gray", "gray">>})

DiffParse == Filter(EqualPairs)
DiffTask == Filter(EqualPairs)

ConvertToGrayParse == ToType({<<"rgb">>}, "gray")
ConvertToGrayTask == ToType({<<"rgb">>}, "gray")

ConvertToRgbParse == ToType({<<"gray">>}, "rgb")
ConvertToRgbTask == ToType({<<"gray">>}, "rgb")

HistogramEqualizationParse == ToType({<<"gray">>}, "gray")
HistogramEqualizationTask == ToType({<<"gray">>}, "gray")

HogImageParse == ToType(OneImage, "gray")
(* The branch for colours casts the image to a grey one, which throws. *)
HogImageTask == ToType({<<"gray">>}, "gray")

BinaryThresholdParse == Filter(OneImage)
BinaryThresholdTask == Filter(OneImage)

KMeansParse == Filter(OneImage)
KMeansTask == Filter(OneImage)

MeanParse == Filter(OneImage)
MeanTask == Filter(OneImage)

MultiplyAddParse == Filter(OneImage)
MultiplyAddTask == Filter(OneImage)

PaintMetaParse == Filter(OneImage)
PaintMetaTask == Filter(OneImage)

PoolingParse == Filter(OneImage)
PoolingTask == Filter(OneImage)

ResizeParse == Filter(OneImage)
ResizeTask == Filter(OneImage)

ScharrParse == Filter(OneImage)
ScharrTask == Filter(OneImage)

SobelParse == Filter(OneImage)
SobelTask == Filter(OneImage)

ThresholdParse == Filter(OneImage)
ThresholdTask == Filter(OneImage)

(* The second image only gives the size. Without one the task throws: its     *)
(* types are not in Pairs then, and Outcomes has the exception.                *)
ResizeToParse == Filter(Pairs)
ResizeToTask == Filter(Pairs)

(* register_algorithm, by the name of the algorithm; "input" is apart. *)
Parses ==
    [and |-> AndParse,
     or |-> OrParse,
     diff |-> DiffParse,
     convert_to_gray |-> ConvertToGrayParse,
     convert_to_rgb |-> ConvertToRgbParse,
     histogram_equalization |-> HistogramEqualizationParse,
     hog_image |-> HogImageParse,
     binary_threshold |-> BinaryThresholdParse,
     k_means |-> KMeansParse,
     mean |-> MeanParse,
     multiply_add |-> MultiplyAddParse,
     paint_meta |-> PaintMetaParse,
     pooling |-> PoolingParse,
     resize |-> ResizeParse,
     scharr |-> ScharrParse,
     sobel |-> SobelParse,
     threshold |-> ThresholdParse,
     resize_to |-> ResizeToParse]

Tasks ==
    [and |-> AndTask,
     or |-> OrTask,
     diff |-> DiffTask,
     convert_to_gray |-> ConvertToGrayTask,
     convert_to_rgb |-> ConvertToRgbTask,
     histogram_equalization |-> HistogramEqualizationTask,
     hog_image |-> HogImageTask,
     binary_threshold |-> BinaryThresholdTask,
     k_means |-> KMeansTask,
     mean |-> MeanTask,
     multiply_add |-> MultiplyAddTask,
     paint_meta |-> PaintMetaTask,
     pooling |-> PoolingTask,
     resize |-> ResizeTask,
     scharr |-> ScharrTask,
     sobel |-> SobelTask,
     threshold |-> ThresholdTask,
     resize_to |-> ResizeToTask]

Algorithms == DOMAIN Parses

(* What a task may come to with images of the given types: it stores a result *)
(* ("stores"), ends with an exception ("throws") or never ends ("silent").    *)
(* pooling throws if the width or the height is odd, which the types do not   *)
(* tell; resize_to looks at its destination first; hog_image of colours throws *)
(* although it passes the parser.                                              *)
Outcomes(algorithm, types) ==
    IF algorithm = "resize_to" /\ types[2] \notin ImageTypes THEN {"throws"}
    ELSE IF algorithm = "hog_image" /\ types = <<"rgb">> THEN {"throws"}
    ELSE IF types \notin DOMAIN Tasks[algorithm] THEN {"silent"}
    ELSE IF algorithm = "pooling" THEN {"stores", "throws"}
    ELSE {"stores"}

=============================================================================
