--------------------------- MODULE ImageProcessor ---------------------------
(* image_processor.cpp: compiles scripts and runs them on images. The object  *)
(* lives on a thread of its own, that does one job at a time: the calls of    *)
(* compile and evaluate and the continuations of finished evaluations. The    *)
(* algorithms of an evaluation run one after the other on the pool, any       *)
(* number of evaluations at the same time.                                    *)
EXTENDS Script

CONSTANTS Scripts,         \* the scripts that are compiled
          ImageSets,       \* the types of the images of a call, <<type>> or
                           \* <<type, type>> (the overloads want equal types)
          MaxCompiled,     \* bounds: the scripts that are compiled,
          MaxEvaluations   \* the calls of evaluate and evaluate_convert_if

ASSUME ScriptsAssumption == \A script \in Scripts : IsScript(script)
ASSUME ImagesAssumption ==
    \A types \in ImageSets : \E t \in ImageTypes : types \in {<<t>>, <<t, t>>}
ASSUME BoundsAssumption == MaxEvaluations \in Nat

VARIABLES compiled,   \* m_compiled; the key of an entry is its place, from 0
          hashes,     \* m_compiled_hashes, by script: no two hashes are the same
          context,    \* m_context, by its key, with the position of the executor
          counter,    \* m_context_counter
          converting, \* results that are converted for their call
          told,       \* what the callers of compile were told
          asked,      \* the evaluations that callers asked for
          answered    \* and what they got as an answer

vars == <<compiled, hashes, context, counter, converting, told, asked, answered>>

NoItem == [type |-> "invalid", of |-> "nothing", from |-> <<>>]
Error  == [type |-> "error",   of |-> "nothing", from |-> <<>>]

(* store(0, image1) and store(2, image2). *)
Stored(types) ==
    [n \in IF Len(types) = 1 THEN {0} ELSE {0, 2} |->
        Image(types[1], IF n = 0 THEN "image1" ELSE "image2")]

Init == /\ compiled = <<>>
        /\ hashes = [s \in {} |-> 0]
        /\ context = [n \in {} |-> 0]
        /\ counter = 0
        /\ converting = {}
        /\ told = {}
        /\ asked = {}
        /\ answered = [c \in {} |-> NoItem]

----------------------------------------------------------------------------
Succeeded(script, id) == [script |-> script, ok |-> TRUE, id |-> id]
Failed(script) == [script |-> script, ok |-> FALSE, id |-> 0]

HashStored(script) ==
    hashes' = [s \in DOMAIN hashes \cup {script} |->
                  IF s = script THEN Len(compiled) ELSE hashes[s]]

(* A mutant: the hash is stored before the script is parsed. *)
CompileHashFirst(script) ==
    /\ Len(compiled) < MaxCompiled
    /\ IF script \in DOMAIN hashes
       THEN /\ told' = told \cup {Succeeded(script, hashes[script])}
            /\ UNCHANGED <<compiled, hashes>>
       ELSE /\ HashStored(script)
            /\ IF Parsed(script)
               THEN /\ \E flow \in Flows(script) :
                           compiled' = Append(compiled, [script |-> script, flow |-> flow])
                    /\ told' = told \cup {Succeeded(script, Len(compiled))}
               ELSE /\ told' = told \cup {Failed(script)}
                    /\ UNCHANGED compiled
    /\ UNCHANGED <<context, counter, converting, asked, answered>>

(* compile: a script that has been compiled is found by its hash. If the      *)
(* parser throws, the caller is told so and nothing is stored.                *)
Compile(script) ==
    /\ Len(compiled) < MaxCompiled
    /\ \/ /\ script \in DOMAIN hashes
          /\ told' = told \cup {Succeeded(script, hashes[script])}
          /\ UNCHANGED <<compiled, hashes>>
       \/ /\ script \notin DOMAIN hashes
          /\ Parsed(script)
          /\ \E flow \in Flows(script) :
                 compiled' = Append(compiled, [script |-> script, flow |-> flow])
          /\ HashStored(script)
          /\ told' = told \cup {Succeeded(script, Len(compiled))}
       \/ /\ script \notin DOMAIN hashes
          /\ ~Parsed(script)
          /\ told' = told \cup {Failed(script)}
          /\ UNCHANGED <<compiled, hashes>>
    /\ UNCHANGED <<context, counter, converting, asked, answered>>

Answered(call, answer) ==
    answered' = [c \in DOMAIN answered \cup {call} |->
                    IF c = call THEN answer ELSE answered[c]]

(* evaluate for a script that is compiled. A script without a link has an     *)
(* empty flow, and the executor would dereference its end: not modelled.      *)
Evaluate(id, types, convert) ==
    LET call == [number  |-> counter, script |-> compiled[id + 1].script,
                 types   |-> types, convert |-> convert]
    IN  /\ counter < MaxEvaluations
        /\ compiled[id + 1].flow # <<>>
        /\ counter' = counter + 1
        /\ asked' = asked \cup {call}
        /\ context' = [n \in DOMAIN context \cup {counter} |->
                          IF n = counter
                          THEN [call   |-> call, id |-> id,
                                items  |-> Stored(types),
                                last   |-> IF Len(types) = 1 THEN 0 ELSE 2,
                                at     |-> 1,
                                status |-> "running"]
                          ELSE context[n]]
        /\ UNCHANGED <<compiled, hashes, converting, told, answered>>

(* evaluate with an unknown compile id: answered at once, without a context.  *)
(* The counter only numbers the call here.                                    *)
EvaluateUnknown(types, convert) ==
    LET call == [number  |-> counter, script |-> <<>>,
                 types   |-> types, convert |-> convert]
    IN  /\ counter < MaxEvaluations
        /\ counter' = counter + 1
        /\ asked' = asked \cup {call}
        /\ Answered(call, Error)
        /\ UNCHANGED <<compiled, hashes, context, converting, told>>

----------------------------------------------------------------------------
Load(c, n) == IF n \in DOMAIN c.items THEN c.items[n] ELSE NoItem

Store(c, n, value) ==
    [c EXCEPT !.items = [k \in DOMAIN @ \cup {n} |-> IF k = n THEN value ELSE @[k]],
              !.last = n]

(* A mutant: the end is noticed one step too late. *)
VisitOneMore(c) ==
    IF c.at <= Len(compiled[c.id + 1].flow) THEN [c EXCEPT !.at = @ + 1]
    ELSE [c EXCEPT !.status = "done"]

(* The executor goes on to the next algorithm, or sets its result. *)
Visit(c) ==
    IF c.at < Len(compiled[c.id + 1].flow) THEN [c EXCEPT !.at = @ + 1]
    ELSE [c EXCEPT !.status = "done"]

ItemToRun(c) == compiled[c.id + 1].flow[c.at]
CallToRun(c) == c.call.script[ItemToRun(c)]

(* input copies an image to its item, or nothing if there is none. *)
InputTask(c) ==
    LET image == Load(c, CallToRun(c).source - 1)
    IN  {Visit(IF image = NoItem THEN c ELSE Store(c, ItemToRun(c), image))}

(* What comes after an algorithm with the given outcome, and perhaps result. *)
Ended(c, outcome, value) ==
    CASE outcome = "stores" -> Visit(Store(c, ItemToRun(c), value))
      [] outcome = "throws" -> [c EXCEPT !.status = "failed"]
      [] outcome = "silent" -> [c EXCEPT !.status = "silent"]

(* Every other algorithm. *)
ImageTask(c) ==
    LET call == CallToRun(c)
        from == [k \in DOMAIN call.args |-> Load(c, call.args[k])]
        types == [k \in DOMAIN from |-> from[k].type]
        value == [type |-> Tasks[call.algorithm][types], of |-> call.algorithm, from |-> from]
    IN  {Ended(c, outcome, value) : outcome \in Outcomes(call.algorithm, types)}

(* A thread of the pool runs the next algorithm of an evaluation. *)
RunAlgorithm(n) ==
    /\ context[n].status = "running"
    /\ \E c \in IF CallToRun(context[n]).algorithm = "input"
                THEN InputTask(context[n]) ELSE ImageTask(context[n]) :
           context' = [context EXCEPT ![n] = c]
    /\ UNCHANGED <<compiled, hashes, counter, converting, told, asked, answered>>

Erased(n) == [m \in DOMAIN context \ {n} |-> context[m]]

NeedsConversion(call, item) == call.convert /\ item.type # call.types[1]

LoadResult(c) == Load(c, c.last)

(* The continuation of an evaluation: erase the context, call back with the   *)
(* result. evaluate_convert_if posts a conversion if the type is not that of  *)
(* the images (a result that is no image cannot occur: image 0 is stored).    *)
Finish(n) ==
    LET c == context[n]
        item == LoadResult(c)
    IN  /\ c.status \in {"done", "failed"}
        /\ context' = Erased(n)
        /\ IF c.status = "done" /\ NeedsConversion(c.call, item)
           THEN /\ converting' = converting \cup {[call |-> c.call, item |-> item]}
                /\ UNCHANGED answered
           ELSE /\ Answered(c.call, IF c.status = "done" THEN item ELSE Error)
                /\ UNCHANGED converting
        /\ UNCHANGED <<compiled, hashes, counter, told, asked>>

Converted(item) ==
    Applied(IF item.type = "rgb" THEN "convert_to_gray" ELSE "convert_to_rgb", <<item>>)

(* The conversion has run on the pool, its continuation calls back. *)
FinishConversion(c) ==
    /\ converting' = converting \ {c}
    /\ Answered(c.call, Converted(c.item))
    /\ UNCHANGED <<compiled, hashes, context, counter, told, asked>>

Work == \/ \E n \in DOMAIN context : RunAlgorithm(n) \/ Finish(n)
        \/ \E c \in converting : FinishConversion(c)

Next == \/ \E script \in Scripts : Compile(script)
        \/ \E types \in ImageSets, convert \in BOOLEAN :
               \/ \E id \in 0 .. Len(compiled) - 1 : Evaluate(id, types, convert)
               \/ EvaluateUnknown(types, convert)
        \/ Work

(* The threads do not rest while there is work; calls need not come. *)
Spec == Init /\ [][Next]_vars /\ WF_vars(Work)

----------------------------------------------------------------------------
(* Tables and their entries fit together. *)
TypeOK ==
    /\ \A k \in DOMAIN compiled :
           Range(compiled[k].flow) \subseteq DOMAIN compiled[k].script
    /\ \A s \in DOMAIN hashes : hashes[s] + 1 \in DOMAIN compiled
    /\ counter \in 0 .. MaxEvaluations
    /\ \A n \in DOMAIN context :
           /\ n < counter
           /\ context[n].call \in asked
           /\ context[n].last \in DOMAIN context[n].items
           /\ context[n].at \in DOMAIN compiled[context[n].id + 1].flow
           /\ context[n].status \in {"running", "done", "failed", "silent"}
    /\ \A c \in converting : c.call \in asked /\ c.item.type \in ImageTypes

(* Every compile id that compile reports, at once or from the table of hashes, *)
(* is that of the script the caller gave, and a script that does not parse     *)
(* never gets one.                                                             *)
CompiledIsOwnScript ==
    \A t \in told : IF t.ok THEN compiled[t.id + 1].script = t.script
                            ELSE t.script \notin DOMAIN hashes

(* The number of the second image, 2, is also that of the second item. The     *)
(* result of that item replaces the image, unless nothing reads the image, or  *)
(* the item is the input that copies the image onto itself.                    *)
SecondImageKept(script) ==
    \/ \A i \in DOMAIN script : script[i].source # 3
    \/ script[2].algorithm = "input" /\ script[2].source = 3

Imaged(call) == call.script # <<>> /\ Fits(call.script, Stored(call.types))

(* hog_image passes the parser with an image in colours, and throws then.      *)
HogImagesGray(script) ==
    \A i \in DOMAIN script :
        script[i].algorithm = "hog_image" => TypesOfItems(script)[script[i].args[1]] = "gray"

Promised(call) ==
    /\ Imaged(call) /\ DestinationsReady(call.script)
    /\ SecondImageKept(call.script) /\ HogImagesGray(call.script)

(* The answers that the text of the script allows; pooling may throw. *)
CorrectAnswers(call) ==
    LET value == Meaning(call.script, Stored(call.types))
    IN  IF call.script = <<>> THEN {Error}
        ELSE IF ~Promised(call) THEN {}
        ELSE {IF NeedsConversion(call, value) THEN Converted(value) ELSE value}
                 \cup {Error : i \in {j \in DOMAIN call.script :
                                          call.script[j].algorithm = "pooling"}}

(* Whatever else is evaluated, and in whichever order the compiler has put the *)
(* algorithms: an algorithm is not run before the images it gets are computed, *)
(* the destination of a resize_to among them.                                  *)
ArgumentsReady ==
    \A n \in DOMAIN context :
        Promised(context[n].call) /\ context[n].status = "running" =>
            \A k \in DOMAIN CallToRun(context[n]).args :
                CallToRun(context[n]).args[k] \in DOMAIN context[n].items

(* An evaluation is answered once, with the value that the text of its script  *)
(* has for the images, converted to their type where that was asked for; with  *)
(* an error only if an algorithm throws or the compile id is not known.        *)
Service == INSTANCE Evaluations
ImplementsEvaluations == Service!Spec

(* An evaluation of a script on images it is for is answered: every algorithm  *)
(* that the parser let pass sets its result, so the executor gets to the end.  *)
EvaluationsEnd ==
    \A n \in 0 .. MaxEvaluations - 1 :
        (\E call \in asked : call.number = n /\ (call.script = <<>> \/ Promised(call)))
            ~> (\E call \in DOMAIN answered : call.number = n)

(* main.cpp: the inter-frame script is "processed for each pair of input       *)
(* images", and input.cpp lets a script name the source of an image. So the    *)
(* answer is that of the script on the pair of images.                         *)
PairIsProcessed ==
    \A call \in DOMAIN answered :
        /\ Len(call.types) = 2 /\ Imaged(call) /\ DestinationsReady(call.script)
        /\ answered[call] # Error
        /\ ~call.convert
        => answered[call] = Meaning(call.script, Stored(call.types))

=============================================================================
