-------------------------- MODULE MCImageProcessor --------------------------
(* Scripts for model-checking the image processor.                          *)
EXTENDS ImageProcessor

CONSTANTS MaxCalls,      \* bound: the calls of a script
          Vocabulary,    \* the algorithms of scripts for one image
          PairVocabulary \* and of those for a pair of images

OneOrTwo == {<<"rgb">>, <<"rgb", "rgb">>}
Two      == {<<"rgb", "rgb">>}

(* All calls with images of the first n items. *)
CallsAfter(n, vocabulary) ==
    UNION {{Call(a, args) : args \in UNION {[1 .. Len(t) -> 1 .. n] :
                                            t \in DOMAIN Parses[a]}}
           : a \in vocabulary}

(* All scripts of a length that parse, begin with an input and have a link. *)
ScriptsOf(length, sources, vocabulary) ==
    LET inputs == {Input("rgb", s) : s \in sources}
        all[n \in 1 .. length] ==
            IF n = 1 THEN {<<i>> : i \in inputs}
            ELSE {script \in {Append(s, c) : s \in all[n - 1],
                                  c \in inputs \cup CallsAfter(n - 1, vocabulary)} :
                     Parsed(script)}
    IN  {script \in all[length] : Terminals(script) # {}}

Unknown  == <<Input("rgb", 1), Call("blur", <<1>>)>>
Gray     == <<Input("gray", 1), Call("convert_to_rgb", <<1>>)>>
Pooled   == <<Input("rgb", 1), Call("pooling", <<1>>), Call("convert_to_gray", <<2>>), Call("hog_image", <<3>>)>>
Colours  == <<Input("rgb", 1), Call("mean", <<1>>), Call("hog_image", <<2>>)>>
IllTyped == <<Input("rgb", 1), Call("histogram_equalization", <<1>>)>>

PairScripts  == UNION {ScriptsOf(n, {1, 3}, PairVocabulary) : n \in 3 .. MaxCalls}
KeptScripts  == {script \in PairScripts : SecondImageKept(script)}
ShortScripts == {Unknown, Gray, IllTyped} \cup
                ScriptsOf(2, {1}, {"diff", "convert_to_gray"})
MixedScripts == ShortScripts \cup {Pooled, Colours} \cup KeptScripts \cup
                UNION {ScriptsOf(n, {1}, Vocabulary) : n \in 3 .. MaxCalls}

(* Long scripts are compiled alone and evaluated once, on images they are for; *)
(* short ones also after each other, on any images, and several at the same    *)
(* time. Every step is a step of Next.                                         *)
Short == \A k \in DOMAIN compiled : Len(compiled[k].script) = 2

TypesFor(script) ==
    IF \E i \in DOMAIN script : script[i].source = 3 THEN <<"rgb", "rgb">> ELSE <<"rgb">>

MCNext ==
    \/ told = {} /\ counter = 0 /\ \E script \in Scripts : Compile(script)
    \/ Short /\ \E script \in ShortScripts : Compile(script)
    \/ Short /\ \E types \in ImageSets, convert \in BOOLEAN :
                  \/ \E id \in 0 .. Len(compiled) - 1 : Evaluate(id, types, convert)
                  \/ EvaluateUnknown(types, convert)
    \/ ~Short /\ counter = 0 /\ \E convert \in BOOLEAN :
           Evaluate(0, TypesFor(compiled[1].script), convert)
    \/ Work

MCSpec == Init /\ [][MCNext]_vars /\ WF_vars(Work)

=============================================================================
