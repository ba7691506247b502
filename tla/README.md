# cv-playground in TLA+

cv-playground is a C++ library (libcvpg) with two programs: appimageproc evaluates an image
processing script for one image, appvideoproc for the frames, and the pairs of frames, of a
video. Everything runs asynchronously: objects ("servants") live on the thread of a scheduler,
are called through proxies that post jobs to its queue, and get results through callbacks that
are posted back. This project models what is hard in that: the order in which jobs, results and
demands for data meet.

## The system

| Component | State | Operations | Works with | Hard because | Correct when |
|---|---|---|---|---|---|
| stage_data_handler | queue of entries, ordered output, next number | add, try_flush, full, free | the stage it belongs to, by three callbacks | any order in, any demand out, arithmetic in size_t | entries leave in order, once, none lost or kept back |
| file source | contexts: demand, counters, end-of-file flags | init, start, next | reads with FFmpeg, calls frame stage and pipeline | reading is triggered by deliveries, the end is met in any batch | every image numbered once, a flush frame behind the last |
| frame processor | contexts: script number, demand, handler | init, params, start, finish, process, next, result callbacks | image processor, both neighbours | results in any order, compile result arrives late | the k-th image leaves as k-th frame |
| inter-frame processor | the same, and a buffer of frames, a run and a result counter | the same | the same | pairs over the borders of batches, n images give n - 1 results | one result for every two successive images, numbered without gaps |
| file sink | contexts: handler, encoded entries, encoder, file | init, params, start, finish, process, task callbacks | a worker thread, the encoder, the file | encoding on another thread, encoder keeps images back | file in order, without gaps, and complete up to the last batch at "finished" |
| file_to_file, rtsp_to_file | stages, who is initialised | start, stage_initialized | all stages, the user | data flows while stages still start | every run ends with one result |
| image_processor | compiled scripts, contexts, parameters | compile, evaluate, evaluate_convert_if, add_param | thread pool | concurrent evaluations | each result from its own script and images |
| compiler, graph, parser | items, links, handlers | register_item, add_link, to_sequence | algorithm_set | the order of execution comes from the links | every item after those it reads, the result the value of the script |
| rtsp source | as the file source | as the file source | the network | a stream ends without anybody being told | the stream is written to its end |
| tiling | tiles of an image | divide, kernel, merge | thread pool | borders, unsigned arithmetic | tiles cover the image, each pixel once |
| window kernels (sobel, scharr, mean, pooling) | none | one call per tile | tiling, a shared output image | tiles that run together write the same pixels | the image does not show where the tiles meet |
| k_means | centres, clusters, iteration | determine_cluster, calculate_cluster_means, create_result_image | three tilings, by continuations | empty clusters, random start, cut numbers | it ends, and paints means of clusters |
| hog_image | two trees of tasks, histograms by place | cut, measure, append, draw | thread pool | a histogram is known by its place only | every cell shows its own pixels |
| scripting algorithms | none | one task per algorithm | processing_context, tiling | a branch that never completes | each task ends with a result or an error |
| progress_monitor | counters per context | init, update, finish | console | updates before init or after finish | counters add up |
| core, diagnostics, main | data | - | - | - | - |

Calls between objects are jobs in the queue of the callee's thread; callbacks are jobs in the
queue of the thread that made the call. Two ways of running in parallel share data without
that: the tiles of an image (one shared output image) and the encoder of the file sink (a
context that the sink thread and its worker both use). Nothing is persisted, there is no crash
and no restart to recover from; failures are exceptions, results that never come, and timeouts
in the two programs. Everything hard to test in this is listed, with its line and the property
that covers it, under "hazards" in PROJECT.json.

## Modules and code

Four groups, each resting on the next: FileToFile has the image processor as a service (any number
of evaluations, finished in any order, each with the value of its script), ImageProcessor shows
that service to be what the code does, and runs an algorithm in one step, which Tiling, Hog and
KMeans show to be what the algorithms do with their many tasks.

### Video (src/src/libcvpg/videoproc)

| Module | Models | State and actions |
|---|---|---|
| DataHandler | stage_data_handler | a record of the queue `in`, the output `out`, the number `next`; one operator per function, `Free` in arithmetic modulo `SizeModulus` |
| StageDataHandler | one handler under any use | `Add` (both overloads), `Flush`; `given` and `delivered` are history |
| OrderedDelivery | what the handler promises, abstractly | implemented by StageDataHandler |
| Stages | frames, calls between stages, effects, the thread of each stage | a stage collects the calls (one sequence for each thread), reports and evaluations of one job in `eff`; FileToFile carries them out |
| FileSource, FrameProcessor, InterframeProcessor, FileSink | sources/file, processors/frame, processors/interframe, sinks/file | the processing context as a record, one operator per operation, callback or continuation |
| RtspToFile | sources/rtsp and the end of pipelines/rtsp_to_file | the operators of FileSource once more, as the code is the same, and `Reported`, which drops "finished" |
| FileToFile | pipelines/file_to_file, rtsp_to_file and the threads that main.cpp makes; the field `mode` of the input chooses the pipeline | `context`, a `queue` for each thread, the worker thread of the sink among them, the image processor, the `encoder`, `reports` to the user; one action per job |
| VideoTransfer | what the pipeline promises | implemented by FileToFile |
| FileToFileProperties | - | the properties |
| DataHandlerProofs, StageDataHandlerProofs | - | what the operations of a handler do, the theorems about the handler |
| FileToFileProofs, FileToFileFlowProofs, FileToFileEndProofs | - | the theorems about the pipeline |
| MCStageDataHandler, MCFileToFile | - | instances for TLC |

An image is its position in the video, the result of an evaluation the sequence of the images it
was made of. A video is the number of its packets and how many images the first packets decode to, for
each number of them; the encoder keeps up to `Lookahead` images back, as libavcodec may.

### Tiling (src/src/libcvpg/imageproc/algorithms/tiling.hpp)

| Module | Models | State and actions |
|---|---|---|
| Tiling | horizontal_tiling_task, vertical_tiling_task, their merge tasks, the image and the histogram functor | tasks `pending`, `waiting` for their parts, `finished`; how often each pixel of the `image` is written, what each result has counted; `Divide`, `RunKernel`, `Merge` |
| PixelPass | one pass over the image, abstractly | implemented by Tiling |
| WindowKernels | tiling/sobel, scharr, mean and pooling for grey images | which pixels a call for a tile writes, and which values, with widened borders, border modes, masks and the unsigned arithmetic at the border |
| WindowPass | Tiling with one of these kernels | `output`, the set of the values written to each pixel: one that has several holds whichever came last; `CallKernel` |
| TilingProofs, MCWindowPass | - | the theorems about Tiling and WindowPass, an instance for TLC |

A call of a kernel is one step: what calls for neighbouring tiles do to the same pixel in the meantime
is in the set of values, so that single writes need not be interleaved.

### Algorithms in several passes (src/src/libcvpg/imageproc/algorithms)

| Module | Models | State and actions |
|---|---|---|
| KMeans | k_means.cpp | `old_centers`, `centers`, `clusters`, the `iteration`; an action for each of the three passes and what its continuation decides |
| Hog | hog.cpp | the tasks of the two trees with the histograms they have; cutting rows and columns of cells, running a leaf, appending and merging results |
| ImageAlgorithmsProofs, MCImageAlgorithms | - | the theorems, an instance for TLC in which one of the two algorithms runs |

The tiling inside a pass of k_means is one step, which Tiling justifies. Random centres are any
centres. A histogram of hog is the area it was made of.

### Scripts (src/src/libcvpg/imageproc/scripting)

| Module | Models | State and actions |
|---|---|---|
| ScriptAlgorithms | algorithms/*.cpp | for each algorithm the types it accepts when it is parsed (`..Parse`) and when it runs (`..Task`), the type of its result, and whether it stores, throws or never answers |
| Script | parser, graph, compiler | operators from a script (a sequence of calls) to the order its items are run in (`Flows`), and what it means independent of any order (`Meaning`) |
| ImageProcessor | image_processor, executor_task, processing_context | `compiled`, `hashes`, `context` with its items; `Compile`, `Evaluate`, `EvaluateUnknown`, `RunAlgorithm`, `Finish`, `FinishConversion` |
| Evaluations | what callers rely on, abstractly | implemented by ImageProcessor |
| ImageProcessorProofs | - | the theorems about it |
| MCImageProcessor | - | instances for TLC |

`Links`, `Predecessors` and `FlowTo` follow parser and graph function by function. The links of a
script are kept in an unordered_map, so `Flows` has the result for every order of its keys.

## What the runs check

| Run | Question | What it shows |
|---|---|---|
| data_handler | Does a handler put entries in order under any adds and flushes? | it delivers a gapless prefix, keeps nothing back, implements OrderedDelivery; under a next stage that goes on asking the whole prefix comes out |
| file_to_file_stream | Do the numbers that order everything stay right over many rounds, and when calls, results and the end of a compilation meet in any order? | no number twice, no frame lost between stages, the file grows in the order of the video without gaps; "finished" only when everything went through, and then no entry is missing but those of the last batch |
| file_to_file_failures | What if files do not open, scripts do not compile, evaluations fail? | no call but params comes before its init, one outcome, "finished" is never wrong |
| file_to_file_ends | Can the stages wait for each other forever? | the user of a video always gets a result; a stream, whose end is not reported, is written to the end |
| tiling | Do the tiles make up the image, whoever runs first, although the kernels widen them? | tiles never overlap (the windows of neighbouring ones do), leave nothing out, count every pixel once; no pixel of the result stays unwritten; sobel and scharr do not show where the tiles meet, mean and pooling go wrong there and nowhere else; implements PixelPass; ends |
| image_algorithms | Do chains of passes give what they are for? | k_means ends, paints colours of the cluster, keeps the order of grey values, gets no farther from the image, and an early end is a fixed point; hog shows every cell once and in its place |
| image_processor | Is the answer the value of the script? | every compile id is that of its script; no algorithm runs before its images are there; one answer per call, with the value of the script; every evaluation the parser let pass ends |

The runs with expected violations show where the code does not do what a text of the repository says:

| Run | Text | Code |
|---|---|---|
| file_to_file_full_batch | the last packet has a flush frame (packet.hpp) | not if the end is met in a batch without images: the run hangs |
| file_to_file_last_batch | the sink writes the frames of the stream (file.hpp) | frames that arrive together with the flush frame are not written |
| file_to_file_scripts | the script for each pair (main.cpp) | pairs evaluated before the end of the compilation is noticed use script number 0, the frame script |
| tiling_pooling | the cutoffs are corrected to multiples of two (scripting/algorithms/pooling.cpp) | a tile that begins in an odd column pools pixels of two blocks: the image depends on the cuts |
| image_processor_pairs | the script for each pair (main.cpp) | the result of item 2 takes the place of the second image |

What each property says is in the comment above it.

Also seen while checking, and not a property of a run: `max - in + out` of the handler wraps around,
so that one with more than `max` entries waiting calls itself empty; hog_image lets an image in
colours pass the parser and throws when it runs; an image narrower than a cell makes hog_image divide
by zero, one with a single row makes it read outside; the movement of a centre of k_means is cut to a
byte, so that 256 is none, and an eps of 256 is 0; the source and the frame stage hold more
frames than their limits; params that overtake init end a sound video as failed; an inter-frame
script that does not compile is reported as failed, and "finished" may follow; a cutoff of 0 or 1
makes the borders of the tiles wrap around; an item that two others need is run twice; the
destination of resize_to has no link and may be missing when it is read (the properties assume
`DestinationsReady`); a script without links makes the executor dereference the end of an empty
list; an image that is not of the mode the script gives to input makes the next task silent, so
that the evaluation never ends; two evaluations that fail set the promise of main.cpp twice.

## Bounds, and why they are enough

- data_handler: six entries (two or more gaps in any order), two places, 0 to 3 accepted at a
  time. `SizeModulus` = 1024 stands for 2^64: every difference that does not wrap is below it.
- file_to_file: a round of the flow control is a batch of `MaxRead` = 2 packets; videos of four and
  five images, with packets that decode to none, one or several, go through two or three rounds,
  after which buffers, overlaps of pairs and demands repeat. The full product of all interleavings
  is too large, so `MCFileToFile` restricts it and says where: a *calm start* (the stages
  initialise one after the other) for longer videos, all interleavings of the start-up for a
  video of one image; *prompt threads* (a thread empties its queue before others move) for the
  threads whose order is not the question of the run; for the `LateVideos`, of two images, only the
  sink is prompt and a compilation ends at any time. Each restricted step is a step of `Next`.
- tiling: 8 x 6 pixels with cutoffs of 4, cut into six tiles that begin in columns 0, 3 and 5 and in
  rows 0 and 2: a half is cut again, an odd rest is left, both directions are cut, and tiles begin in
  even and in odd columns. Thirteen kernels have every border, mode and mask at least once. The proofs
  need no bound.
- image_algorithms: four pixels and three clusters give empty clusters, ties and single pixels; three
  iterations an early end, a late end and one in between; the levels 0, 4, 5 and 255 and starts that are
  equal, near, far, and 256 away from black reach the ends of a byte. hog with cells of two pixels and
  at most two cells in a run (8 and 4 in the code), in sizes smaller than a cell, of whole cells, and
  with pixels left over, so that rows are cut not at all, once and twice.
- image_processor: scripts of up to four calls, of algorithms with one image, two of one type, two
  of any type without a link (resize_to), and one that changes the type; diamonds, repeated
  arguments, several ends. Scripts of two calls are compiled and evaluated two at a time, longer
  ones alone: evaluations share nothing but the tables, and the short ones show that.

## Fairness

FileToFile: weak fairness of `Next` as a whole: as long as some thread has a job one of them goes
on. That is less than every thread making progress, which the schedulers give, and enough as no job
makes itself again. Tiling, WindowPass and Hog: weak fairness of the next step, the thread
pool runs what is pending. KMeans: weak fairness of a step to another phase, as the continuation of a
pass posts the next one; that the phases come to an end is what ResultIsSet shows.
ImageProcessor: weak fairness of `Work`, the pool and the thread of the object; calls need not come.
StageDataHandler: the next stage goes on asking (weak fairness of `FlushWanted`), which only
CompletePrefixDelivered uses.

## What is proved

By TLAPS, for every value of the constants.

**StageDataHandlerProofs**, under `EntryAssumption` (numbers are natural) and `SizeAssumption`.
The runs' InOrder and QueueWaitsForGap do not say how the queue looks in the middle of an operation,
between taking entries in and delivering them. `Flushable` says it, `IInv` is the invariant between
operations. Add and flush make a Flushable handler (AddedIsFlushable, InvariantIsFlushable), the
loop of try_process_input ends at the first missing number (RunEndIsFirstGap in DataHandlerProofs, which
has what holds for a handler of any stage), so what it moves to
the output continues the numbering (ProcessInputTakesRun), and delivery re-establishes IInv
(FlushKeepsOrder). Theorems: TypeCorrect, DeliversInOrder, NothingKeptBack, and Implements, that
every behaviour is one of OrderedDelivery.

**FileToFileProofs**, under `FileToFileAssumption` (sizes above zero, a buffer not smaller than a batch),
for any videos, sources and failures. TypeOK is the bound that a reviewer would doubt: a demand is computed
from the room of one stage, kept by another (`waiting`) and used when entries come, and never exceeds
what the stage behind can hold. `TypeInv` is inductive: it says which calls there are and what they carry
(`Made`), which stage makes which (`SourceCalls` and the like), that they are in the queue of their thread, and
that all queues of frames are finite, without which the smallest missing number would not exist. A handler
is put together from named parts (`Read`, `Numbering`, `Added`, `Ended` of start; `Run`, `PairJobs`, `Asked`,
`Flushed` of try_process_input; `Data`, `FirstEntry`, `EndOfEntries` of try_flush_buffer), each of which
keeps the type.
That nobody calls a stage too early (CallsFindContext) is about two stages that start while others run
already, and needs who may call whom: `StartInv` says that in every queue the init of a stage comes before its
other calls (`Ordered`), that the inits posted are those of a prefix of the pipeline (`Known`, `Launched`), that
a stage is asked for frames only by one that exists (`Justified`), and that it has a demand only if the
stage behind it exists. So a stage that hands frames on calls one that exists, and a stage that asks calls one
that was launched before it, whose init is in its queue; the pipeline starts all stages after the last
launch. The types of the contexts have the parameters `Here` and `Ready` so that the lemmas about the handlers serve
both invariants. That params is left out is not a weakness of the proof: it does come too early.
Theorems: TypeCorrect, NoCallTooEarly.

**FileToFileFlowProofs**, on top of `TypeInv` and `StartInv`, for any sizes, videos and interleavings: where the
frames are. That the number of the next result is new does not follow from the state of one stage: it depends on
the counters `processed` and `created`, on the order of the calls in a queue, on the frame that the inter-frame
stage keeps between two rounds, and on there being one flush frame, behind all others. `FlowInv` says it stage by
stage. What was handed to a stage is a `Stream` in the queue of its thread, from some r on, without a gap and in order.
The r frames it has taken are each an evaluation, or a result on its way back, or known to its handler, never two of
them (`Balanced`), and one of them unless something may fail (`Complete`). The buffer of the inter-frame stage and its two counters
belong to its last frame (`Buffered`); its results are one less than its frames. The operations of each stage are
followed from try_flush up to the job of a thread (`Passes`: what is handed over is the next part of the stream and leaves
the output; `Took`, `InterTakes`: a round of the inter-frame stage), and each job is shown to keep its part of `FlowInv`
and, as it is about other calls, the parts of the others (`Same`). Evaluations do not fail for want of
their script then either (`ScriptsInv`).
Theorems: NumbersAreUnique, for any failures, and NothingIsLost, when nothing but opening fails, as in the
run that checks it.

**FileToFileEndProofs**, on top of `FlowInv`, for any failures: when the end is told, everything was written.
FlowInv says that what a stage has handed on is all that the stage behind it has been given; `EndInv` follows the last
call from the sink to its worker thread and back: it is the last one in the queue of the writer, and once it is
answered that queue and the encoder are empty (`LastIsLast`); entries come in the order of their numbers, so that
none is left in the buffer of the sink (`NoneWaits`); it is made when the sink has handed on all that the source
has read, and a source that has flushed reads no more (`AllHanded`); and the user is told of it by the sink, once (`Told`).
No other stage may report the end, which is shown operation by operation (`Silently`). With equal counters at
both ends of the pipeline, no number is left for an evaluation, a waiting result or a call in between.
Its second half is about failures. `FailInv` says that a failure which was reported has a cause that stays (`Cause`):
a script was not compiled, the source was not opened or its file ends with an error (then it never reads an end:
`EofRead`), the encoder was not open when frames came to it, or a frame is lost. `Lossy` says the latter: FlowInv
holds with the failed evaluation counted as if it went on (`FlowWith`), so that its number never leaves its stage and
the counters at both ends cannot become equal. The encoder that was not open stays closed because params goes ahead
of all frames from stage to stage (`SizesFirst`): when it opens the encoder nothing was handed on.
Its third part is the refinement. `FileInv` says that the file, the entries on the way to the sink, the images in
the encoder and those on the way to it are one sequence of pairs: the file has the first ones, without a gap, up to
the number that the sink writes next (`Grows`); what the encoder has given back follows it, and behind the last frames
nothing follows (`EntriesPair`); and what is in the encoder, or comes to it, follows that, up to all that the sink has
handed on, but for the batch that the sink drops with the flush frame, less than the buffer holds (`EncoderFed`,
`GivenTo`). Nothing is handed to the writer before the encoder is open (`SizesFirst`, `WriterFed`), as its frames would be
skipped. With `CountsInv` (the source has counted every image when it flushes) and EndInv, a file that is
reported as finished lacks at most that batch. Its refinement mapping is the file, the number of
images that the video decodes to, and the first report, with MaxMissing one less than the buffer holds.
Theorems: FinishedCompletely, OutcomeIsOne, VideoIsTransferred (implements VideoTransfer).

**TilingProofs**, under `SizeAssumption` (at least a pixel) and `CutoffAssumption` (cutoffs above
one). Everything is said by pixel: tasks pending or finished share the image (`Disjoint`, `Covered`),
a result counts its pixels once (`Counted`), what is written is what finished tasks cover (`Written`);
to keep that, a waiting task has parts (`WaitsForParts`) and a task runs once (`RunsOnce`). The lemmas
Halves and PartsOfTask say that the halves make up a task and lie inside it, which is where the
unsigned arithmetic matters. Theorems: TypeCorrect (no border wraps), TilesNeverMeet, KeepsEveryPixel,
CountsEveryPixelOnce, WritesAsOnePass (implements PixelPass but for its liveness).
For any windows from two pixels on, the invariant holds in WindowPass as well, and `TilesWritten`
carries it over to the output: the pixels of the result whose tile has finished are written. A widened
tile reaches over its own pixels, and Origin names the pixel of the source whose tile has to write a
pixel of the result, which for pooling is another one.
Theorems: OutputInvariance, FiltersWholeImage, LeavesIgnoredBorder. The values of the filters are
sums over windows, and model-checked.

**ImageProcessorProofs**, for any scripts and calls, under `ScriptsAssumption` (a script has at least one
call, as an item must be there to be the result), `ImagesAssumption` (the overloads of evaluate take one
image, or two of the same type) and `BoundsAssumption` (the bound is a number). It goes from the tables to the values:
- `Tables` ties the tables of scripts together: every entry of `hashes` leads to its script, and only
  scripts that parse have one (CompileKeepsTables). Theorem: CompileIsSound.
- `Open` says where a call is: it has a number of its own and, while it is in a context or in a conversion,
  which is one place only, no answer. Theorem AnsweredOnce: a step answers at most one call, which has no answer yet.
- The flow. A script that parses only refers to earlier calls (ParsedIsEarlier), so process_node ends, and
  what it is for every number (FlowToIs, FlowsInOrder) follows: for every order of the hash map of links, each item in
  the flow comes behind all items it needs, also behind those whose links process_node leaves out as another
  predecessor leads to them; and the flow ends with the smallest terminal (FlowEnds). These are inductions over the
  items; the set of numbers for which a fact holds takes the place of the predicate (NumbersReached), so that no
  theorem with an operator as its parameter is needed. tlapm can say nothing of SelectSeq, SortSeq or folds of arbitrary
  sequences; LinksFrom and Flow are recursive functions for that reason.
- `Progress`, for each context: it stands at a place of the flow of its script, has the items of all earlier places
  and of its images, with the types the parser gave them, and its result is the item of the last place run.
  With Tables, Open and that flows are in order, this is the inductive invariant `Served`.
  Theorems: ProcessorTypeCorrect and, as the images of an algorithm are at earlier places, ArgumentsAreReady.
- `Valued`, for the calls that something is promised for: those items have the values that the text of the script
  gives them (ValuesAre, the recursive definition of Meaning unfolded; TypesOfValues). The images of a
  call lie between the items; that item 2 only takes the place of an image which nobody reads afterwards is what
  SecondImageKept asks for. Theorem ProcessorImplementsEvaluations: the image processor implements Evaluations,
  every step is a step of it or changes nothing there. That an answer comes (EvaluationsEnd) is not part of it.
  The model, and with it this theorem, AnsweredOnce and CompileIsSound, has callbacks that do not throw, as those of
  the programs: compile and evaluate call them inside the try block whose catch calls them with an error
  (image_processor.cpp:182-191, 221-238), so that a caller whose callback throws would be called once more.

**ImageAlgorithmsProofs**, part 1, k_means: for any image, any centres to begin with and any eps. TypeOK alone is not inductive:
that a mean is a byte needs the number of a cluster's pixels and the sum of their values, which are
both cardinalities here (MeanIsByte, MeanIsBetween), and painting needs clusters that exist, which
ClustersOfOldCenters gives. `MeansInv` adds that means of grey images lie on one axis (GrayMeans), that
centres which end the iterations early stand still (EndsSteady), and that what is painted are the means
of the last clusters (PaintsMeans). Theorems: MeansTypeCorrect; PaintsWithinCluster, by MeanIsBetween; and
EndsInFixedPoint, by SteadyIsEqual: on one axis no distance is above 255, so the byte that is left of a
movement is the movement. PaintsInOrder needs no more of the invariant: the values nearest to a centre
are an interval, also where centres coincide or are equally near (NearestKeepsOrder), so between the
clusters of two grey values there is no value out of order (ClustersKeepOrder), nor between their means.
NeverFarther, which compares sums over all pixels, is model-checked.

**ImageAlgorithmsProofs**, part 2, hog_image: for any image, cells and runs of cells, under `HogAssumption`. The runs' properties speak
of the finished image; `HogInv` says how it comes about. Its structure: tasks that are to run or have
a result share no cell (`FrontierApart`), they come from parts of the tasks that wait (`WaitingAbove`),
of which one is above or beside the other (`WaitingNested`), and each but the root is waited for
(`WaitedFor`), so that with nothing to run the root has its result (OnlyRootIsLeft). Its data: a result
has the histograms of its task row by row (`ResultsInOrder`), and a cell is painted as soon as no pending
task has it (`CellsPainted`). A join keeps the order of the rows since tasks are halved at a border of
cells (HalfOfCells, RowsOfHalves, ColumnsOfHalves) and rows put behind rows of the same width keep their
places (RowsBehindRows). Theorems: HogTypeCorrect, CellsShow, AllCells, and HistogramIsThere: the second
tree looks for no histogram that the first has not made.

Only model-checked: everything under fairness (CompletePrefixDelivered, ResultComes, Ends,
EvaluationsEnd, ResultIsSet), as TLAPS does not prove it here. Of k_means
NeverFarther, and the values of the filters.

The prover's encoding of Len makes `DOMAIN s = 1 .. n` and `Len(s) = n` the same for every s, sequence or not.
No proof here uses that: all obligations have also been proved with the encoding restricted to sequences.

## Not modelled

- The progress monitor, command lines and the printed output: they only read. The timeout of a program
  ends its waiting at any time; a behaviour that is cut there is a prefix of one that is checked, and the
  destruction of the schedulers while jobs are queued is Boost's.
- appimageproc: a compile and some evaluations one after the other, a special case of ImageProcessor.
- add_param and the parameters of a context: the programs set them before the first compile, the
  cutoffs are constants of Tiling; parameters of algorithms other than images are valid.
- The values of kernels for single pixels (and, or, diff, multiply_add, threshold, convert_to_gray,
  histogram): a function of one pixel, written once (Tiling says so). resize and the planes of images in
  colours, which the window kernels treat as grey images one after the other.
- histogram equalization, otsu, paint_meta: a loop on the whole image after a pass of tiling, nothing
  concurrent and no state. tfpredict needs TensorFlow. The gradients of hog and the drawing of its cells.
- Data types (core) and diagnostics: values without behaviour.
- FFmpeg, OpenCV, ChaiScript and the schedulers: external, by what the code relies on.

## Plan

Done, in the order of importance: the handler and its proofs; the four stages, file_to_file and
rtsp_to_file; tiling, the kernels of windows and their proofs; scripts and the image processor; k_means,
hog, and the proofs of both.

1. Parameters: add_param while evaluations run, if a program comes to do that.
2. ProgressMonitor: updates that come before init or after finish.
3. Proofs: Tiling inside KMeans as a step-by-step refinement.
4. The destination of resize_to and videos whose packets give no image are hazards without a property:
   a property would need the code's own text to say what is promised there.
