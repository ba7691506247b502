------------------------------- MODULE Script -------------------------------
(* From the text of a script to the order its algorithms are run in: parser,   *)
(* graph and compiler. Pure operators, no state.                               *)
(*                                                                             *)
(* A script is the sequence of the calls its statements make. A call has       *)
(*   algorithm  its name                                                       *)
(*   args       the images it gets, by the number of the call that returns     *)
(*              them: register_item counts the items 1, 2, ..., and a call     *)
(*              returns the number of its item                                 *)
(*   mode, source   of input(mode, 8, source); source 1 is input(mode, 8)      *)
EXTENDS ScriptAlgorithms, Integers, FiniteSets, FiniteSetsExt, SequencesExt

Call(algorithm, args) ==
    [algorithm |-> algorithm, args |-> args, mode |-> "none", source |-> 0]

Input(mode, source) ==
    [algorithm |-> "input", args |-> <<>>, mode |-> mode, source |-> source]

(* The parser is given the calls of a script, of which there is at least one. *)
IsScript(script) ==
    /\ script # <<>>
    /\ script \in Seq([algorithm : STRING, args : Seq(Nat), mode : STRING, source : Nat])
    /\ \A i \in DOMAIN script : script[i].algorithm = "input" => script[i].args = <<>>

----------------------------------------------------------------------------
(* The type a call registers its item with: the first argument of the item.  *)
TypesOfItems(script) ==
    LET type[i \in DOMAIN script] ==
            IF script[i].algorithm = "input" THEN script[i].mode
            ELSE Parses[script[i].algorithm][[k \in DOMAIN script[i].args |-> type[script[i].args[k]]]]
    IN  type

(* The parser gets to the end of the script: no on_parse throws. *)
Parsed(script) ==
    \A i \in DOMAIN script :
        \/ script[i].algorithm = "input" /\ script[i].mode \in ImageTypes
        \/ /\ script[i].algorithm \in Algorithms
           /\ \A k \in DOMAIN script[i].args : script[i].args[k] \in 1 .. i - 1
           /\ LET type == TypesOfItems(SubSeq(script, 1, i - 1))
              IN  [k \in DOMAIN script[i].args |-> type[script[i].args[k]]]
                      \in DOMAIN Parses[script[i].algorithm]

(* register_link: from the images of a call to its item. resize_to registers *)
(* none from its destination image.                                          *)
Links(call) ==
    IF call.algorithm = "resize_to" THEN <<call.args[1]>> ELSE call.args

----------------------------------------------------------------------------
(* The graph. The links are kept in an unordered_map by their source, so the *)
(* sources are visited in any order; order is a sequence of all items.       *)

Successors(script, i) == {j \in DOMAIN script : i \in Range(Links(script[j]))}

(* The predecessors of an item, in the order their links were registered in, *)
(* as often as it has each; without those that are run anyway, as another     *)
(* predecessor needs them.                                                    *)
LinksFrom(script, i, p) ==
    LET links == Links(script[i])
    IN  [m \in 1 .. Cardinality({l \in DOMAIN links : links[l] = p}) |-> p]

(* A mutant: has_successor asked for the wrong pair of nodes. *)
LastPredecessors(script, order, i) ==
    FlattenSeq([k \in DOMAIN order |->
        IF \E q \in Range(Links(script[i])) : order[k] \in Successors(script, q)
        THEN <<>> ELSE LinksFrom(script, i, order[k])])

FilteredPredecessors(script, order, i) ==
    FlattenSeq([k \in DOMAIN order |->
        IF \E q \in Range(Links(script[i])) : q \in Successors(script, order[k])
        THEN <<>> ELSE LinksFrom(script, i, order[k])])

(* process_node, flattened as get_callbacks does: an item after everything it *)
(* needs. Nothing is shared, items that two others need occur twice (the      *)
(* search for their container never finds one).                               *)
FlowTo(script, order) ==
    LET flow[i \in DOMAIN script] ==
            LET ps == FilteredPredecessors(script, order, i)
            IN  Append(FlattenSeq([k \in DOMAIN ps |-> flow[ps[k]]]), i)
    IN  flow

(* The nodes of the graph: items with a link. Others are not in the flow. *)
Nodes(script) ==
    {i \in DOMAIN script : Successors(script, i) # {} \/ Links(script[i]) # <<>>}

Terminals(script) == {i \in Nodes(script) : Successors(script, i) = {}}

(* A mutant: the flow with the terminals in ascending order. *)
FlowAscending(script, order) ==
    LET flow[n \in 0 .. Len(script)] ==
            IF n = 0 THEN <<>>
            ELSE flow[n - 1] \o (IF n \in Terminals(script) THEN FlowTo(script, order)[n] ELSE <<>>)
    IN  flow[Len(script)]

(* to_sequence puts the flow to each terminal, in ascending order, in front of *)
(* what it has: the smallest terminal is run last.                             *)
Flow(script, order) ==
    LET flow[n \in 0 .. Len(script)] ==
            IF n = 0 THEN <<>>
            ELSE (IF n \in Terminals(script) THEN FlowTo(script, order)[n] ELSE <<>>) \o flow[n - 1]
    IN  flow[Len(script)]

(* compiler::operator(): every flow that it can come to. *)
Flows(script) ==
    {Flow(script, order) : order \in SetToSeqs(DOMAIN script)}

----------------------------------------------------------------------------
(* What a script means, read from its text alone and by no order of anything. *)
(* A value is an image (its name in "of") or what an algorithm makes of the   *)
(* values in "from". images are the images given to the script, by the number *)
(* that input reads. The result is the value of the first item that no other  *)
(* is computed from.                                                          *)

Image(type, name) == [type |-> type, of |-> name, from |-> <<>>]

Applied(algorithm, from) ==
    [type |-> Parses[algorithm][[k \in DOMAIN from |-> from[k].type]],
     of   |-> algorithm,
     from |-> from]

Result(script) == Min(Terminals(script))

Meaning(script, images) ==
    LET value[i \in DOMAIN script] ==
            LET call == script[i]
                from == [k \in DOMAIN call.args |-> value[call.args[k]]]
            IN  IF call.algorithm = "input" THEN images[call.source - 1]
                ELSE Applied(call.algorithm, from)
    IN  value[Result(script)]

(* The images are those that the script says it reads. *)
Fits(script, images) ==
    \A i \in DOMAIN script :
        script[i].algorithm = "input" =>
            /\ script[i].source - 1 \in DOMAIN images
            /\ images[script[i].source - 1].type = script[i].mode

(* i is computed from j by way of registered links. *)
Needs(script, i, j) ==
    LET needs[k \in DOMAIN script] ==
            k = j \/ \E l \in Range(Links(script[k])) : needs[l]
    IN  needs[i]

(* Every destination of a resize_to is computed before by what it resizes;   *)
(* nothing else makes sure that there is one.                                *)
DestinationsReady(script) ==
    \A i \in DOMAIN script :
        script[i].algorithm = "resize_to" =>
            Needs(script, script[i].args[1], script[i].args[2])

=============================================================================
