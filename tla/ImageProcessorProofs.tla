------------------------ MODULE ImageProcessorProofs ------------------------
(* What holds of the tables of the image processor for any scripts, any calls  *)
(* and any number of evaluations at the same time.                             *)
EXTENDS ImageProcessor, FiniteSetTheorems, SequenceTheorems, WellFoundedInduction, TLAPS

----------------------------------------------------------------------------
(* The tables of scripts: an entry of m_compiled_hashes leads to the script    *)
(* with the hash, and only scripts that parse have one.                        *)
Hashed ==
    \A s \in DOMAIN hashes :
        /\ hashes[s] \in 0 .. Len(compiled) - 1
        /\ compiled[hashes[s] + 1].script = s
        /\ Parsed(s)

Told ==
    \A t \in told :
        IF t.ok THEN /\ t.id \in 0 .. Len(compiled) - 1
                     /\ compiled[t.id + 1].script = t.script
                ELSE ~Parsed(t.script)

Entries == compiled \in Seq([script : Scripts, flow : UNION {Flows(s) : s \in Scripts}])

Tables == Entries /\ Hashed /\ Told

LEMMA CompileKeepsTables ==
    ASSUME Tables, NEW script \in Scripts, Compile(script)
    PROVE  Tables'
<1>1. CASE script \in DOMAIN hashes
  <2>1. /\ told' = told \cup {Succeeded(script, hashes[script])}
        /\ UNCHANGED <<compiled, hashes>>
    BY <1>1 DEF Compile
  <2>2. Entries' /\ Hashed'
    BY <2>1 DEF Tables, Entries, Hashed
  <2>3. Told'
    BY <1>1, <2>1 DEF Tables, Hashed, Told, Succeeded
  <2> QED BY <2>2, <2>3 DEF Tables
<1>2. CASE script \notin DOMAIN hashes /\ Parsed(script)
  <2>1. PICK flow \in Flows(script) :
            compiled' = Append(compiled, [script |-> script, flow |-> flow])
    BY <1>2 DEF Compile
  <2>2. /\ HashStored(script)
        /\ told' = told \cup {Succeeded(script, Len(compiled))}
    BY <1>2 DEF Compile
  <2>3. Entries'
    BY <2>1 DEF Tables, Entries
  <2>4. /\ Len(compiled) \in Nat
        /\ Len(compiled') = Len(compiled) + 1
        /\ \A i \in 0 .. Len(compiled) - 1 : compiled'[i + 1] = compiled[i + 1]
        /\ compiled'[Len(compiled) + 1].script = script
    BY <2>1 DEF Tables, Entries
  <2>5. Hashed'
    BY <1>2, <2>2, <2>4, SMTT(40) DEF Tables, Hashed, HashStored
  <2>6. Told'
    BY <2>2, <2>4 DEF Tables, Told, Succeeded
  <2> QED BY <2>3, <2>5, <2>6 DEF Tables
<1>3. CASE script \notin DOMAIN hashes /\ ~Parsed(script)
  <2>1. /\ told' = told \cup {Failed(script)}
        /\ UNCHANGED <<compiled, hashes>>
    BY <1>3 DEF Compile
  <2>2. Entries' /\ Hashed'
    BY <2>1 DEF Tables, Entries, Hashed
  <2>3. Told'
    BY <1>3, <2>1 DEF Tables, Told, Failed
  <2> QED BY <2>2, <2>3 DEF Tables
<1> QED BY <1>1, <1>2, <1>3

LEMMA OthersLeaveTables ==
    ASSUME Tables, UNCHANGED <<compiled, hashes, told>>
    PROVE  Tables'
BY DEF Tables, Entries, Hashed, Told

LEMMA TablesKept ==
    ASSUME Tables, [Next]_vars
    PROVE  Tables'
<1>1. CASE \E script \in Scripts : Compile(script)
  BY <1>1, CompileKeepsTables
<1>2. CASE \E types \in ImageSets, convert \in BOOLEAN :
               \/ \E id \in 0 .. Len(compiled) - 1 : Evaluate(id, types, convert)
               \/ EvaluateUnknown(types, convert)
  BY <1>2, OthersLeaveTables DEF Evaluate, EvaluateUnknown
<1>3. CASE Work
  BY <1>3, OthersLeaveTables DEF Work, RunAlgorithm, Finish, FinishConversion
<1>4. CASE UNCHANGED vars
  BY <1>4, OthersLeaveTables DEF vars
<1> QED BY <1>1, <1>2, <1>3, <1>4 DEF Next

LEMMA TablesInitially == Init => Tables
BY DEF Init, Tables, Entries, Hashed, Told

(* compile never gives a caller the number of another script, in whichever     *)
(* order scripts are compiled, found again by their hash, or refused.          *)
THEOREM CompileIsSound == Spec => []CompiledIsOwnScript
<1>1. Tables => CompiledIsOwnScript
  BY DEF Tables, Hashed, Told, CompiledIsOwnScript
<1> QED BY <1>1, TablesInitially, TablesKept, PTL DEF Spec

----------------------------------------------------------------------------
(* The calls: everyone of them has a number of its own, and as long as it is   *)
(* in a context or in a conversion, which is one place, it has no answer.      *)
Numbered ==
    /\ counter \in Nat
    /\ \A call \in asked : call.number \in Nat /\ call.number < counter
    /\ DOMAIN answered \subseteq asked

Running ==
    \A n \in DOMAIN context :
        /\ "call" \in DOMAIN context[n]
        /\ context[n].call \in asked \ DOMAIN answered
        /\ context[n].call.number = n

Converting ==
    \A c \in converting :
        /\ c.call \in asked \ DOMAIN answered
        /\ \A n \in DOMAIN context : context[n].call # c.call
        /\ \A d \in converting : d.call = c.call => d = c

Open == Numbered /\ Running /\ Converting

LEMMA EvaluateKeepsOpen ==
    ASSUME Open, NEW id, NEW types, NEW convert, Evaluate(id, types, convert)
    PROVE  Open'
<1> DEFINE call == [number |-> counter, script |-> compiled[id + 1].script,
                    types |-> types, convert |-> convert]
<1>1. /\ counter' = counter + 1
      /\ asked' = asked \cup {call}
      /\ UNCHANGED <<converting, answered>>
      /\ DOMAIN context' = DOMAIN context \cup {counter}
      /\ "call" \in DOMAIN context'[counter] /\ context'[counter].call = call
      /\ \A n \in DOMAIN context : n # counter => context'[n] = context[n]
  BY DEF Evaluate
<1>2. call \notin asked /\ call.number = counter
  BY DEF Open, Numbered
<1>3. Numbered'
  BY <1>1, <1>2 DEF Open, Numbered
<1>4. counter \notin DOMAIN context
  BY DEF Open, Numbered, Running
<1> HIDE DEF call
<1>5. Running'
  BY <1>1, <1>2, <1>4 DEF Open, Numbered, Running
<1>6. Converting'
  BY <1>1, <1>2, <1>4 DEF Open, Numbered, Converting
<1> QED BY <1>3, <1>5, <1>6 DEF Open

LEMMA EvaluateUnknownKeepsOpen ==
    ASSUME Open, NEW types, NEW convert, EvaluateUnknown(types, convert)
    PROVE  Open'
<1> DEFINE call == [number |-> counter, script |-> <<>>,
                    types |-> types, convert |-> convert]
<1>1. /\ counter' = counter + 1
      /\ asked' = asked \cup {call}
      /\ UNCHANGED <<context, converting>>
      /\ DOMAIN answered' = DOMAIN answered \cup {call}
  BY DEF EvaluateUnknown, Answered
<1>2. call \notin asked /\ call.number = counter
  BY DEF Open, Numbered
<1> HIDE DEF call
<1> QED BY <1>1, <1>2 DEF Open, Numbered, Running, Converting

(* Whatever an algorithm comes to, the evaluation is for the same call. *)
LEMMA OutcomeIsForTheCall ==
    ASSUME NEW n \in DOMAIN context, "call" \in DOMAIN context[n],
           NEW c \in IF CallToRun(context[n]).algorithm = "input"
                     THEN InputTask(context[n]) ELSE ImageTask(context[n])
    PROVE  "call" \in DOMAIN c /\ c.call = context[n].call
<1> DEFINE Kept(d) == "call" \in DOMAIN d /\ d.call = context[n].call
<1>1. Kept(context[n])
  OBVIOUS
<1>2. ASSUME NEW d, Kept(d) PROVE Kept(Visit(d))
  BY <1>2 DEF Visit
<1>3. ASSUME NEW d, Kept(d), NEW k, NEW value PROVE Kept(Store(d, k, value))
  BY <1>3 DEF Store
<1>4. ASSUME NEW d, Kept(d), NEW status PROVE Kept([d EXCEPT !.status = status])
  BY <1>4
<1>5. ASSUME NEW outcome \in {"stores", "throws", "silent"}, NEW value
      PROVE  Kept(Ended(context[n], outcome, value))
  <2>1. Kept(Visit(Store(context[n], ItemToRun(context[n]), value)))
    BY <1>1, <1>2, <1>3
  <2>2. CASE outcome = "stores"
    BY <2>1, <2>2 DEF Ended
  <2>3. CASE outcome = "throws"
    BY <1>1, <1>4, <2>3 DEF Ended
  <2>4. CASE outcome = "silent"
    BY <1>1, <1>4, <2>4 DEF Ended
  <2> QED BY <2>2, <2>3, <2>4
<1> HIDE DEF Kept
<1>6. ASSUME c \in InputTask(context[n]) PROVE Kept(c)
  BY <1>1, <1>2, <1>3, <1>6 DEF InputTask
<1>7. ASSUME c \in ImageTask(context[n]) PROVE Kept(c)
  <2>1. \A algorithm, types : Outcomes(algorithm, types) \subseteq {"stores", "throws", "silent"}
    BY DEF Outcomes
  <2>2. PICK value : \E outcome \in {"stores", "throws", "silent"} :
                       c = Ended(context[n], outcome, value)
    BY <1>7, <2>1, Zenon DEF ImageTask
  <2> QED BY <1>5, <2>2
<1>8. Kept(c)
  BY <1>6, <1>7
<1> QED BY <1>8 DEF Kept

LEMMA RunAlgorithmKeepsOpen ==
    ASSUME Open, NEW n \in DOMAIN context, RunAlgorithm(n)
    PROVE  Open'
<1>1. PICK c \in IF CallToRun(context[n]).algorithm = "input"
                 THEN InputTask(context[n]) ELSE ImageTask(context[n]) :
              context' = [context EXCEPT ![n] = c]
  BY DEF RunAlgorithm
<1>2. "call" \in DOMAIN c /\ c.call = context[n].call
  BY OutcomeIsForTheCall DEF Open, Running
<1>3. UNCHANGED <<counter, asked, answered, converting>>
  BY DEF RunAlgorithm
<1> QED BY <1>1, <1>2, <1>3 DEF Open, Numbered, Running, Converting

LEMMA FinishKeepsOpen ==
    ASSUME Open, NEW n \in DOMAIN context, Finish(n)
    PROVE  Open'
<1> DEFINE call == context[n].call
<1>1. /\ DOMAIN context' = DOMAIN context \ {n}
      /\ \A m \in DOMAIN context' : context'[m] = context[m]
      /\ UNCHANGED <<counter, asked>>
  BY DEF Finish, Erased
<1>2. /\ call \in asked \ DOMAIN answered
      /\ \A m \in DOMAIN context' : context[m].call # call
      /\ \A c \in converting : c.call # call
  BY <1>1 DEF Open, Running, Converting
<1>3. \/ /\ converting' = converting \cup {[call |-> call, item |-> LoadResult(context[n])]}
         /\ UNCHANGED answered
      \/ /\ DOMAIN answered' = DOMAIN answered \cup {call}
         /\ UNCHANGED converting
  BY DEF Finish, Answered
<1> HIDE DEF call
<1>4. CASE /\ converting' = converting \cup {[call |-> call, item |-> LoadResult(context[n])]}
           /\ UNCHANGED answered
  <2>1. Numbered' /\ Running'
    BY <1>1, <1>4 DEF Open, Numbered, Running
  <2>2. Converting'
    BY <1>1, <1>2, <1>4 DEF Open, Converting
  <2> QED BY <2>1, <2>2 DEF Open
<1>5. CASE DOMAIN answered' = DOMAIN answered \cup {call} /\ UNCHANGED converting
  BY <1>1, <1>2, <1>5 DEF Open, Numbered, Running, Converting
<1> QED BY <1>3, <1>4, <1>5

LEMMA FinishConversionKeepsOpen ==
    ASSUME Open, NEW c \in converting, FinishConversion(c)
    PROVE  Open'
<1>1. /\ converting' = converting \ {c}
      /\ DOMAIN answered' = DOMAIN answered \cup {c.call}
      /\ UNCHANGED <<counter, asked, context>>
  BY DEF FinishConversion, Answered
<1> QED BY <1>1 DEF Open, Numbered, Running, Converting

LEMMA OpenKept ==
    ASSUME Open, [Next]_vars
    PROVE  Open'
<1>1. CASE \E script \in Scripts : Compile(script)
  BY <1>1 DEF Compile, Open, Numbered, Running, Converting
<1>2. CASE \E types \in ImageSets, convert \in BOOLEAN :
               \/ \E id \in 0 .. Len(compiled) - 1 : Evaluate(id, types, convert)
               \/ EvaluateUnknown(types, convert)
  BY <1>2, EvaluateKeepsOpen, EvaluateUnknownKeepsOpen
<1>3. CASE Work
  BY <1>3, RunAlgorithmKeepsOpen, FinishKeepsOpen, FinishConversionKeepsOpen DEF Work
<1>4. CASE UNCHANGED vars
  BY <1>4 DEF vars, Open, Numbered, Running, Converting
<1> QED BY <1>1, <1>2, <1>3, <1>4 DEF Next

LEMMA OpenInitially == Init => Open
BY DEF Init, Open, Numbered, Running, Converting

(* A callback is called once: a step that gives an answer gives it to one call *)
(* that has been made and has none yet, and leaves the other answers alone.    *)
OneNewAnswer ==
    /\ \A c \in DOMAIN answered : c \in DOMAIN answered' /\ answered'[c] = answered[c]
    /\ \A c, d \in DOMAIN answered' \ DOMAIN answered : c = d
    /\ DOMAIN answered' \subseteq asked'

LEMMA AnswerIsNew ==
    ASSUME NEW call, NEW answer, call \notin DOMAIN answered, Answered(call, answer)
    PROVE  /\ \A c \in DOMAIN answered : c \in DOMAIN answered' /\ answered'[c] = answered[c]
           /\ \A c, d \in DOMAIN answered' \ DOMAIN answered : c = d
BY DEF Answered

LEMMA StepAnswersOnce ==
    ASSUME Open, [Next]_vars
    PROVE  OneNewAnswer
<1>1. DOMAIN answered' \subseteq asked'
  BY OpenKept DEF Open, Numbered
<1>2. CASE UNCHANGED answered
  BY <1>1, <1>2 DEF OneNewAnswer
<1>3. ASSUME NEW types, NEW convert, EvaluateUnknown(types, convert)
      PROVE  OneNewAnswer
  <2> DEFINE call == [number |-> counter, script |-> <<>>,
                      types |-> types, convert |-> convert]
  <2>1. call \notin asked
    BY DEF Open, Numbered
  <2>2. Answered(call, Error)
    BY <1>3 DEF EvaluateUnknown
  <2>3. call \notin DOMAIN answered
    BY <2>1 DEF Open, Numbered
  <2> HIDE DEF call
  <2> QED BY <1>1, <2>2, <2>3, AnswerIsNew DEF OneNewAnswer
<1>4. ASSUME NEW n \in DOMAIN context, Finish(n) PROVE OneNewAnswer
  <2>1. context[n].call \notin DOMAIN answered
    BY DEF Open, Running
  <2>2. \/ UNCHANGED answered
        \/ \E answer : Answered(context[n].call, answer)
    BY <1>4 DEF Finish
  <2> QED BY <1>1, <1>2, <2>1, <2>2, AnswerIsNew DEF OneNewAnswer
<1>5. ASSUME NEW c \in converting, FinishConversion(c) PROVE OneNewAnswer
  <2>1. c.call \notin DOMAIN answered
    BY DEF Open, Converting
  <2>2. Answered(c.call, Converted(c.item))
    BY <1>5 DEF FinishConversion
  <2> QED BY <1>1, <2>1, <2>2, AnswerIsNew DEF OneNewAnswer
<1>6. \/ UNCHANGED answered
      \/ \E types, convert : EvaluateUnknown(types, convert)
      \/ \E n \in DOMAIN context : Finish(n)
      \/ \E c \in converting : FinishConversion(c)
  BY DEF Next, vars, Work, Compile, Evaluate, RunAlgorithm
<1> QED BY <1>2, <1>3, <1>4, <1>5, <1>6

(* Whatever is compiled and evaluated at the same time, no call is answered    *)
(* twice and no answer goes to nobody's call.                                  *)
THEOREM AnsweredOnce == Spec => [][OneNewAnswer]_vars
BY OpenInitially, OpenKept, StepAnswersOnce, PTL DEF Spec

----------------------------------------------------------------------------
(* Induction, as a fact about sets: numbers of which there is a next one as    *)
(* long as all before it are there.                                            *)
LEMMA NumbersReached ==
    ASSUME NEW N \in Nat, NEW S, \A n \in 0 .. N : 0 .. n - 1 \subseteq S => n \in S
    PROVE  0 .. N \subseteq S
<1> DEFINE Below == {ss \in Nat \X Nat : ss[1] < ss[2]}
           T == (0 .. N) \ S
<1>1. SUFFICES ASSUME T # {} PROVE FALSE
  OBVIOUS
<1>2. IsWellFoundedOn(Below, Nat)
  BY NatLessThanWellFounded DEF OpToRel
<1>3. T \subseteq Nat
  OBVIOUS
<1>4. PICK x \in T : \A y \in T : ~ (<<y, x>> \in Below)
  <2> HIDE DEF Below, T
  <2> QED BY <1>1, <1>2, <1>3, WFMin
<1>5. ASSUME NEW y \in T PROVE x <= y
  <2>1. <<y, x>> \notin Below
    BY <1>4
  <2>2. x \in Nat /\ y \in Nat
    BY <1>3
  <2> HIDE DEF Below, T
  <2>3. <<y, x>> \in Below <=> y < x
    BY <2>2 DEF Below
  <2> QED  BY <2>1, <2>2, <2>3
<1>6. 0 .. x - 1 \subseteq S
  BY <1>5
<1> QED BY <1>6

LEMMA RangeOfConcat ==
    ASSUME NEW S, NEW a \in Seq(S), NEW b \in Seq(S)
    PROVE  Range(a \o b) = Range(a) \cup Range(b)
<1>1. \A i \in DOMAIN a : i \in DOMAIN (a \o b) /\ (a \o b)[i] = a[i]
  OBVIOUS
<1>2. \A i \in DOMAIN b : Len(a) + i \in DOMAIN (a \o b) /\ (a \o b)[Len(a) + i] = b[i]
  OBVIOUS
<1>3. \A i \in DOMAIN (a \o b) : i \in DOMAIN a \/ \E j \in DOMAIN b : i = Len(a) + j
  <2> SUFFICES ASSUME NEW i \in DOMAIN (a \o b), i \notin DOMAIN a
               PROVE  i - Len(a) \in DOMAIN b /\ i = Len(a) + (i - Len(a))
    OBVIOUS
  <2> QED OBVIOUS
<1>4. \A i \in DOMAIN (a \o b) : (a \o b)[i] \in Range(a) \cup Range(b)
  BY <1>1, <1>2, <1>3 DEF Range
<1>5. \A i \in DOMAIN a : a[i] \in Range(a \o b)
  BY <1>1 DEF Range
<1>6. \A i \in DOMAIN b : b[i] \in Range(a \o b)
  BY <1>2 DEF Range
<1>7. Range(a \o b) \subseteq Range(a) \cup Range(b)
  BY <1>4 DEF Range
<1>8. Range(a) \cup Range(b) \subseteq Range(a \o b)
  BY <1>5, <1>6 DEF Range
<1> QED BY <1>7, <1>8

(* What FlattenSeq defines: every place of the function is the sequence up to  *)
(* there.                                                                      *)
Flattening(f, ss) ==
    f = [i \in 1 .. Len(ss) |-> IF i = 1 THEN ss[i] ELSE f[i - 1] \o ss[i]]

LEMMA FlatteningExists ==
    ASSUME NEW S, NEW ss \in Seq(S)
    PROVE  \E f : Flattening(f, ss)
<1> DEFINE D(f, i) == IF i = 1 THEN ss[i] ELSE f[i - 1] \o ss[i]
           Upto(f, n) == f = [i \in 1 .. n |-> D(f, i)]
           R == {n \in 0 .. Len(ss) : \E f : Upto(f, n)}
<1>1. ASSUME NEW n \in 0 .. Len(ss), 0 .. n - 1 \subseteq R
      PROVE  n \in R
  <2>1. CASE n = 0
    <3>1. Upto([i \in {} |-> 0], n)
      BY <2>1
    <3> QED BY <3>1
  <2>2. CASE n # 0
    <3>1. n - 1 \in 0 .. n - 1 /\ n \in Nat
      BY <2>2
    <3>2. PICK f : Upto(f, n - 1)
      <4> HIDE DEF Upto
      <4> QED BY <1>1, <3>1
    <3> DEFINE g == [i \in 1 .. n |-> IF i = n THEN D(f, n) ELSE f[i]]
    <3>3. \A i \in 1 .. n : D(g, i) = D(f, i)
      BY <2>2
    <3>4. ASSUME NEW i \in 1 .. n PROVE g[i] = D(f, i)
      <4>1. CASE i = n
        BY <4>1
      <4>2. CASE i # n
        <5>1. i \in 1 .. n - 1 /\ g[i] = f[i]
          BY <4>2, <3>1
        <5> HIDE DEF g, D
        <5> QED BY <3>2, <5>1
      <4> QED BY <4>1, <4>2
    <3>5. DOMAIN g = 1 .. n /\ g = [i \in 1 .. n |-> g[i]]
      OBVIOUS
    <3> HIDE DEF g, D
    <3>6. Upto(g, n)
      BY <3>3, <3>4, <3>5
    <3> QED BY <3>6
  <2> QED BY <2>1, <2>2
<1>2. Len(ss) \in R
  <2> HIDE DEF R
  <2>1. \A n \in 0 .. Len(ss) : 0 .. n - 1 \subseteq R => n \in R
    BY <1>1
  <2>2. Len(ss) \in Nat
    OBVIOUS
  <2>3. 0 .. Len(ss) \subseteq R
    BY <2>1, <2>2, NumbersReached
  <2> QED BY <2>2, <2>3
<1> QED BY <1>2 DEF Flattening

LEMMA FlattenIs ==
    ASSUME NEW S, NEW ss \in Seq(S), ss # <<>>
    PROVE  \E f : Flattening(f, ss) /\ FlattenSeq(ss) = f[Len(ss)]
<1> DEFINE f == CHOOSE f : f = [i \in 1 .. Len(ss) |-> IF i = 1 THEN ss[i] ELSE f[i - 1] \o ss[i]]
<1>1. Flattening(f, ss)
  BY FlatteningExists DEF Flattening
<1>2. FlattenSeq(ss) = f[Len(ss)]
  BY DEF FlattenSeq
<1> QED BY <1>1, <1>2

(* A set of sequences that has the sequences put together from its own has     *)
(* what is flattened too.                                                      *)
LEMMA FlattenIn ==
    ASSUME NEW G, <<>> \in G, \A a, b \in G : a \o b \in G, NEW ss \in Seq(G)
    PROVE  FlattenSeq(ss) \in G
<1>1. CASE ss = <<>>
  BY <1>1 DEF FlattenSeq
<1>2. CASE ss # <<>>
  <2>1. PICK f : Flattening(f, ss) /\ FlattenSeq(ss) = f[Len(ss)]
    BY <1>2, FlattenIs
  <2> DEFINE R == {n \in 0 .. Len(ss) : n = 0 \/ f[n] \in G}
  <2>2. ASSUME NEW n \in 0 .. Len(ss), 0 .. n - 1 \subseteq R
        PROVE  n \in R
    <3>1. CASE n \in {0, 1}
      BY <3>1, <2>1 DEF Flattening
    <3>2. CASE n \notin {0, 1}
      <4>1. n - 1 \in R /\ n - 1 # 0
        BY <2>2, <3>2
      <4>2. n \in 1 .. Len(ss) /\ ss[n] \in G
        BY <3>2
      <4>3. f[n] = f[n - 1] \o ss[n]
        BY <3>2, <4>2, <2>1 DEF Flattening
      <4> QED BY <4>1, <4>2, <4>3
    <3> QED BY <3>1, <3>2
  <2>3. Len(ss) \in R /\ Len(ss) # 0
    <3> HIDE DEF R
    <3>1. \A n \in 0 .. Len(ss) : 0 .. n - 1 \subseteq R => n \in R
      BY <2>2
    <3>2. Len(ss) \in Nat /\ Len(ss) # 0
      BY <1>2
    <3>3. 0 .. Len(ss) \subseteq R
      BY <3>1, <3>2, NumbersReached
    <3> QED BY <3>2, <3>3
  <2> QED BY <2>1, <2>3
<1> QED BY <1>1, <1>2

(* Nothing is lost by it.                                                      *)
LEMMA FlattenHas ==
    ASSUME NEW S, NEW ss \in Seq(Seq(S)), NEW k \in DOMAIN ss
    PROVE  Range(ss[k]) \subseteq Range(FlattenSeq(ss))
<1>1. ss # <<>> /\ k \in 1 .. Len(ss)
  OBVIOUS
<1>2. PICK f : Flattening(f, ss) /\ FlattenSeq(ss) = f[Len(ss)]
  BY <1>1, FlattenIs
<1> DEFINE R == {n \in 0 .. Len(ss) : /\ n # 0 => f[n] \in Seq(S)
                                      /\ n >= k => Range(ss[k]) \subseteq Range(f[n])}
<1>3. ASSUME NEW n \in 0 .. Len(ss), 0 .. n - 1 \subseteq R
      PROVE  n \in R
  <2>1. CASE n = 0
    BY <2>1, <1>1
  <2>2. CASE n = 1
    BY <2>2, <1>1, <1>2 DEF Flattening
  <2>3. CASE n \notin {0, 1}
    <3>1. n - 1 \in R /\ n - 1 # 0
      BY <1>3, <2>3
    <3>2. n \in 1 .. Len(ss) /\ ss[n] \in Seq(S) /\ f[n - 1] \in Seq(S)
      BY <2>3, <3>1
    <3>a. f[n] = f[n - 1] \o ss[n]
      BY <2>3, <1>2, <3>2 DEF Flattening
    <3>3. Range(f[n - 1]) \subseteq Range(f[n]) /\ Range(ss[n]) \subseteq Range(f[n])
      <4> DEFINE a == f[n - 1]
                 b == ss[n]
      <4>1. f[n] = a \o b /\ a \in Seq(S) /\ b \in Seq(S)
        BY <3>2, <3>a
      <4> HIDE DEF a, b
      <4>4. Range(a) \subseteq Range(a \o b) /\ Range(b) \subseteq Range(a \o b)
        BY <4>1, RangeOfConcat
      <4> QED BY <4>1, <4>4 DEF a, b
    <3>4. n >= k => n = k \/ n - 1 >= k
      OBVIOUS
    <3>5. f[n] \in Seq(S)
      BY <3>2, <3>a
    <3>6. n >= k => Range(ss[k]) \subseteq Range(f[n])
      BY <3>1, <3>3, <3>4
    <3> QED BY <3>5, <3>6
  <2> QED BY <2>1, <2>2, <2>3
<1>4. Len(ss) \in R
  <2> HIDE DEF R
  <2>1. \A n \in 0 .. Len(ss) : 0 .. n - 1 \subseteq R => n \in R
    BY <1>3
  <2>2. Len(ss) \in Nat
    OBVIOUS
  <2>3. 0 .. Len(ss) \subseteq R
    BY <2>1, <2>2, NumbersReached
  <2>4. Len(ss) \in 0 .. Len(ss)
    BY <2>2
  <2> QED BY <2>3, <2>4, Zenon
<1>5. Range(ss[k]) \subseteq Range(f[Len(ss)])
  <2> DEFINE n == Len(ss)
  <2>1. n >= k
    BY <1>1
  <2> HIDE DEF n
  <2>2. n \in R
    BY <1>4 DEF n
  <2>3. n >= k => Range(ss[k]) \subseteq Range(f[n])
    BY <2>2
  <2>4. Range(ss[k]) \subseteq Range(f[n])
    BY <2>1, <2>3
  <2> QED BY <2>4 DEF n
<1> QED BY <1>2, <1>5

----------------------------------------------------------------------------
(* What the parser lets pass: images come from earlier calls.                  *)
Earlier(script) ==
    /\ Len(script) \in Nat /\ DOMAIN script = 1 .. Len(script)
    /\ \A i \in DOMAIN script :
           /\ script[i].args \in Seq(1 .. i - 1)
           /\ Links(script[i]) \in Seq(1 .. i - 1)
           /\ script[i].algorithm = "resize_to" => DOMAIN script[i].args = 1 .. 2
           /\ script[i].algorithm # "input" => script[i].algorithm \in Algorithms
           /\ script[i].source \in Nat

LEMMA ParsedIsEarlier ==
    ASSUME NEW script, IsScript(script), Parsed(script)
    PROVE  Earlier(script)
<1>1. Len(script) \in Nat /\ DOMAIN script = 1 .. Len(script)
  BY DEF IsScript
<1>2. ASSUME NEW i \in DOMAIN script
      PROVE  /\ script[i].args \in Seq(1 .. i - 1)
             /\ script[i].algorithm # "input" => script[i].algorithm \in Algorithms
             /\ script[i].algorithm = "resize_to" => DOMAIN script[i].args = 1 .. 2
  <2> DEFINE args == script[i].args
  <2> DEFINE C == [algorithm : STRING, args : Seq(Nat), mode : STRING, source : Nat]
  <2>0. script \in Seq(C)
    BY DEF IsScript
  <2>a. script[i] \in C
    <3> HIDE DEF C
    <3> QED BY <2>0
  <2>1. args \in Seq(Nat)
    BY <2>a
  <2>2. CASE script[i].algorithm = "input"
    <3>1. script[i].args = <<>>
      BY <2>2 DEF IsScript
    <3>2. <<>> \in Seq(1 .. i - 1)
      OBVIOUS
    <3> QED BY <2>2, <3>1, <3>2
  <2>3. CASE script[i].algorithm # "input"
    <3> DEFINE types == LET type == TypesOfItems(SubSeq(script, 1, i - 1)) IN [k \in DOMAIN args |-> type[args[k]]]
    <3>1. /\ script[i].algorithm \in Algorithms
          /\ \A k \in DOMAIN args : args[k] \in 1 .. i - 1
          /\ types \in DOMAIN Parses[script[i].algorithm]
      BY <2>3 DEF Parsed
    <3>2. DOMAIN types = DOMAIN args
      OBVIOUS
    <3> HIDE DEF types
    <3>3. args \in Seq(1 .. i - 1)
      <4>1. \A k \in 1 .. Len(args) : args[k] \in 1 .. i - 1
        BY <2>1, <3>1
      <4> DEFINE J == 1 .. i - 1
      <4> HIDE DEF args, J
      <4>2. Len(args) \in Nat /\ args \in [1 .. Len(args) -> J]
        BY <2>1, <4>1 DEF J
      <4>3. args \in Seq(J)
        BY <4>2, SeqDef
      <4> QED BY <4>3 DEF J
    <3>4. ASSUME script[i].algorithm = "resize_to" PROVE DOMAIN args = 1 .. 2
      <4>1. types \in Pairs
        BY <3>1, <3>4 DEF Parses, ResizeToParse, Filter
      <4>2. DOMAIN types = 1 .. 2
        BY <4>1 DEF Pairs
      <4> QED BY <3>2, <4>2
    <3> QED BY <3>1, <3>3, <3>4
  <2> QED BY <2>2, <2>3
<1>3. ASSUME NEW i \in DOMAIN script PROVE Links(script[i]) \in Seq(1 .. i - 1)
  <2>1. CASE script[i].algorithm = "resize_to"
    <3> DEFINE args == script[i].args
    <3>1. args \in Seq(1 .. i - 1) /\ DOMAIN args = 1 .. 2
      BY <1>2, <2>1
    <3>2. args[1] \in 1 .. i - 1
      <4> DEFINE J == 1 .. i - 1
      <4>1. args \in Seq(J) /\ 1 \in DOMAIN args
        BY <3>1
      <4> HIDE DEF args, J
      <4>2. 1 \in 1 .. Len(args)
        BY <4>1, LenProperties
      <4>3. args[1] \in J
        BY <4>1, <4>2, ElementOfSeq
      <4> QED BY <4>3 DEF J, args
    <3> QED BY <2>1, <3>2 DEF Links
  <2>2. CASE script[i].algorithm # "resize_to"
    BY <1>2, <2>2 DEF Links
  <2> QED BY <2>1, <2>2
<1>4. ASSUME NEW i \in DOMAIN script PROVE script[i].source \in Nat
  <2> DEFINE C == [algorithm : STRING, args : Seq(Nat), mode : STRING, source : Nat]
  <2>1. script \in Seq(C)
    BY DEF IsScript
  <2> HIDE DEF C
  <2>2. script[i] \in C
    BY <2>1
  <2> QED BY <2>2 DEF C
<1> QED BY <1>1, <1>2, <1>3, <1>4 DEF Earlier

Needed(script, i) == Range(Links(script[i]))

LEMMA NeededIsEarlier ==
    ASSUME NEW script, Earlier(script), NEW i \in DOMAIN script
    PROVE  i \in Nat /\ Needed(script, i) \subseteq 1 .. i - 1 /\ 1 .. i - 1 \subseteq DOMAIN script
BY DEF Earlier, Needed, Range

(* An order of all items has every item.                                       *)
LEMMA OrderHasAll ==
    ASSUME NEW script, Earlier(script), NEW order \in SetToSeqs(DOMAIN script)
    PROVE  order \in Seq(DOMAIN script) /\ Range(order) = DOMAIN script
<1> DEFINE n == Len(script)
           D == 1 .. n
<1>1. n \in Nat /\ DOMAIN script = D
  BY DEF Earlier
<1>2. IsFiniteSet(D) /\ Cardinality(D) = n
  <2>1. n \in Int /\ 1 \in Int
    BY <1>1
  <2>2. /\ IsFiniteSet(1 .. n)
        /\ Cardinality(1 .. n) = IF 1 > n THEN 0 ELSE n - 1 + 1
    <3> HIDE DEF n
    <3> QED BY <2>1, FS_Interval, ZenonT(40)
  <2> QED BY <1>1, <2>2
<1>3. order \in [D -> D] /\ \A i, j \in D : i # j => order[i] # order[j]
  BY <1>1, <1>2, Zenon DEF SetToSeqs
<1> HIDE DEF D
<1>4. Range(order) \subseteq D
  BY <1>3 DEF Range
<1>5. order \in Bijection(D, Range(order))
  <2>1. order \in [D -> Range(order)]
    BY <1>3 DEF Range
  <2>2. \A y \in Range(order) : \E x \in D : order[x] = y
    BY <1>3 DEF Range
  <2> QED BY <1>3, <2>1, <2>2 DEF Bijection, Injection, Surjection, IsInjective
<1>6. Cardinality(Range(order)) = Cardinality(D) /\ IsFiniteSet(Range(order))
  <2>1. ExistsBijection(D, Range(order))
    BY <1>5 DEF ExistsBijection
  <2> QED BY <1>2, <2>1, FS_Bijection
<1>7. Range(order) = D
  BY <1>2, <1>4, <1>6, FS_Subset
<1>8. order \in Seq(D)
  BY <1>1, <1>3 DEF D
<1> QED BY <1>1, <1>7, <1>8

LEMMA LinksFromAre ==
    ASSUME NEW script, Earlier(script), NEW i \in DOMAIN script, NEW p
    PROVE  /\ LinksFrom(script, i, p) \in Seq(Needed(script, i))
           /\ p \in Needed(script, i) => p \in Range(LinksFrom(script, i, p))
<1> DEFINE links == Links(script[i])
           at == {l \in DOMAIN links : links[l] = p}
           n == Cardinality(at)
<1>1. links \in Seq(1 .. i - 1)
  BY DEF Earlier
<1>2. IsFiniteSet(DOMAIN links)
  <2>1. DOMAIN links = 1 .. Len(links) /\ 1 \in Int /\ Len(links) \in Int
    BY <1>1
  <2> HIDE DEF links
  <2> QED BY <2>1, FS_Interval, ZenonT(40)
<1>3. IsFiniteSet(at) /\ n \in Nat
  <2>1. at \in SUBSET DOMAIN links
    OBVIOUS
  <2> HIDE DEF at, links
  <2> QED BY <1>2, <2>1, FS_Subset, FS_CardinalityType
<1>4. n # 0 <=> at # {}
  <2> HIDE DEF at
  <2> QED BY <1>3, FS_EmptySet
<1>5. at # {} <=> p \in Needed(script, i)
  BY DEF Needed, Range
<1>6. LinksFrom(script, i, p) = [m \in 1 .. n |-> p]
  BY DEF LinksFrom
<1> HIDE DEF n, at
<1>7. n # 0 => 1 \in 1 .. n
  BY <1>3
<1>8. [m \in 1 .. n |-> p] \in Seq(Needed(script, i))
  BY <1>3, <1>4, <1>5, <1>7
<1>9. n # 0 => p \in Range([m \in 1 .. n |-> p])
  BY <1>7 DEF Range
<1> QED BY <1>4, <1>5, <1>6, <1>8, <1>9

(* The predecessors left are such, and one is left out only if another needs   *)
(* it.                                                                         *)
LEMMA FilteredAre ==
    ASSUME NEW script, Earlier(script), NEW order \in SetToSeqs(DOMAIN script), NEW i \in DOMAIN script
    PROVE  /\ FilteredPredecessors(script, order, i) \in Seq(Needed(script, i))
           /\ \A p \in Needed(script, i) :
                  \/ \E q \in Needed(script, i) : p \in Needed(script, q)
                  \/ p \in Range(FilteredPredecessors(script, order, i))
<1> DEFINE part(k) == IF \E q \in Range(Links(script[i])) : q \in Successors(script, order[k])
                      THEN <<>> ELSE LinksFrom(script, i, order[k])
           parts == [k \in DOMAIN order |-> part(k)]
           G == Seq(Needed(script, i))
<1>1. order \in Seq(DOMAIN script) /\ Range(order) = DOMAIN script
  BY OrderHasAll
<1>2. Needed(script, i) \subseteq DOMAIN script
  BY NeededIsEarlier
<1>3. \A k \in DOMAIN order : part(k) \in G
  BY LinksFromAre
<1>4. parts \in Seq(G)
  <2>1. Len(order) \in Nat /\ DOMAIN order = 1 .. Len(order)
    BY <1>1
  <2> HIDE DEF part, G
  <2>2. parts \in [1 .. Len(order) -> G]
    BY <1>3, <2>1
  <2> QED BY <2>1, <2>2, SeqDef
<1>5. FilteredPredecessors(script, order, i) = FlattenSeq(parts)
  BY DEF FilteredPredecessors
<1>6. FlattenSeq(parts) \in G
  <2>1. <<>> \in G /\ \A a, b \in G : a \o b \in G
    OBVIOUS
  <2> HIDE DEF parts, G
  <2> QED BY <1>4, <2>1, FlattenIn
<1>7. ASSUME NEW p \in Needed(script, i), \A q \in Needed(script, i) : p \notin Needed(script, q)
      PROVE  p \in Range(FlattenSeq(parts))
  <2>1. PICK k \in DOMAIN order : order[k] = p
    BY <1>1, <1>2 DEF Range
  <2>2. part(k) = LinksFrom(script, i, p)
    BY <1>7, <2>1 DEF Successors, Needed
  <2>3. p \in Range(parts[k])
    BY <2>1, <2>2, LinksFromAre
  <2>4. Range(parts[k]) \subseteq Range(FlattenSeq(parts))
    <3>1. k \in DOMAIN parts
      OBVIOUS
    <3> HIDE DEF parts
    <3> QED BY <1>4, <3>1, FlattenHas
  <2> QED BY <2>3, <2>4
<1> HIDE DEF parts
<1> QED BY <1>5, <1>6, <1>7

(* The flow to an item, by the flows to its predecessors.                      *)
LEMMA FlowToIs ==
    ASSUME NEW script, Earlier(script), NEW order \in SetToSeqs(DOMAIN script), NEW i \in DOMAIN script
    PROVE  LET ps == FilteredPredecessors(script, order, i)
           IN  FlowTo(script, order)[i] = Append(FlattenSeq([k \in DOMAIN ps |-> FlowTo(script, order)[ps[k]]]), i)
<1> DEFINE ps(j) == FilteredPredecessors(script, order, j)
           D(f, j) == Append(FlattenSeq([k \in DOMAIN ps(j) |-> f[ps(j)[k]]]), j)
           Upto(f, n) == f = [j \in 1 .. n |-> D(f, j)]
           R == {n \in 0 .. Len(script) : \E f : Upto(f, n)}
<1>1. Len(script) \in Nat /\ DOMAIN script = 1 .. Len(script)
  BY DEF Earlier
<1>2. \A j \in DOMAIN script : \A k \in DOMAIN ps(j) : ps(j)[k] \in 1 .. j - 1
  <2> SUFFICES ASSUME NEW j \in DOMAIN script, NEW k \in DOMAIN ps(j) PROVE ps(j)[k] \in 1 .. j - 1
    OBVIOUS
  <2>1. ps(j) \in Seq(Needed(script, j)) /\ Needed(script, j) \subseteq 1 .. j - 1
    BY FilteredAre, NeededIsEarlier
  <2> HIDE DEF ps
  <2> QED BY <2>1
<1> HIDE DEF ps
<1>3. ASSUME NEW n \in 0 .. Len(script), 0 .. n - 1 \subseteq R
      PROVE  n \in R
  <2>1. CASE n = 0
    <3>1. Upto([j \in {} |-> 0], n)
      BY <2>1
    <3> QED BY <3>1
  <2>2. CASE n # 0
    <3>1. n - 1 \in 0 .. n - 1 /\ n \in Nat /\ 1 .. n \subseteq DOMAIN script
      BY <2>2, <1>1
    <3>2. PICK f : Upto(f, n - 1)
      <4> HIDE DEF Upto
      <4> QED BY <1>3, <3>1
    <3> DEFINE g == [j \in 1 .. n |-> IF j = n THEN D(f, n) ELSE f[j]]
    <3>3. ASSUME NEW j \in 1 .. n PROVE D(g, j) = D(f, j)
      <4>1. \A k \in DOMAIN ps(j) : g[ps(j)[k]] = f[ps(j)[k]]
        <5>1. \A k \in DOMAIN ps(j) : ps(j)[k] \in 1 .. n - 1
          BY <1>2, <3>1
        <5> HIDE DEF D
        <5> QED BY <5>1, <3>1
      <4> HIDE DEF g
      <4>2. [k \in DOMAIN ps(j) |-> g[ps(j)[k]]] = [k \in DOMAIN ps(j) |-> f[ps(j)[k]]]
        BY <4>1
      <4> QED BY <4>2
    <3>4. ASSUME NEW j \in 1 .. n PROVE g[j] = D(f, j)
      <4>1. CASE j = n
        BY <4>1
      <4>2. CASE j # n
        <5>1. j \in 1 .. n - 1 /\ g[j] = f[j]
          BY <4>2, <3>1
        <5> HIDE DEF g, D
        <5> QED BY <3>2, <5>1
      <4> QED BY <4>1, <4>2
    <3>5. DOMAIN g = 1 .. n /\ g = [j \in 1 .. n |-> g[j]]
      OBVIOUS
    <3> HIDE DEF g, D
    <3>6. Upto(g, n)
      BY <3>3, <3>4, <3>5
    <3> QED BY <3>6
  <2> QED BY <2>1, <2>2
<1>4. \E f : Upto(f, Len(script))
  <2> HIDE DEF Upto
  <2>1. \A n \in 0 .. Len(script) : 0 .. n - 1 \subseteq R => n \in R
    BY <1>3
  <2> HIDE DEF R
  <2>2. 0 .. Len(script) \subseteq R
    BY <1>1, <2>1, NumbersReached
  <2>3. Len(script) \in R
    BY <1>1, <2>2
  <2> QED BY <2>3 DEF R
<1>5. FlowTo(script, order) = CHOOSE f : f = [j \in DOMAIN script |-> D(f, j)]
  BY DEF FlowTo, ps
<1>6. Upto(FlowTo(script, order), Len(script))
  BY <1>1, <1>4, <1>5
<1>7. FlowTo(script, order)[i] = D(FlowTo(script, order), i)
  <2> DEFINE f == FlowTo(script, order)
  <2>1. Upto(f, Len(script)) /\ i \in 1 .. Len(script)
    BY <1>1, <1>6
  <2> HIDE DEF f, D
  <2>2. f[i] = D(f, i)
    BY <2>1
  <2> QED BY <2>2 DEF f
<1> QED BY <1>7 DEF ps

(* Flows in which an item comes after everything it needs.                     *)
InOrder(script) ==
    {s \in Seq(DOMAIN script) :
        \A p \in DOMAIN s : \A j \in Needed(script, s[p]) : \E q \in 1 .. p - 1 : s[q] = j}

LEMMA FlowsJoin ==
    ASSUME NEW script, NEW a \in InOrder(script), NEW b \in InOrder(script)
    PROVE  a \o b \in InOrder(script)
<1> DEFINE S == DOMAIN script
           c == a \o b
<1>1. a \in Seq(S) /\ b \in Seq(S)
  BY DEF InOrder
<1> HIDE DEF S
<1>2. /\ c \in Seq(S) /\ Len(a) \in Nat
      /\ \A p \in DOMAIN a : c[p] = a[p] /\ p \in Nat
      /\ \A p \in DOMAIN b : c[Len(a) + p] = b[p] /\ p \in Nat
      /\ DOMAIN a = 1 .. Len(a) /\ DOMAIN b = 1 .. Len(b) /\ Len(b) \in Nat
      /\ DOMAIN c = 1 .. Len(a) + Len(b)
  BY <1>1
<1> HIDE DEF c
<1>3. ASSUME NEW p \in DOMAIN c, NEW j \in Needed(script, c[p])
      PROVE  \E q \in 1 .. p - 1 : c[q] = j
  <2>1. CASE p \in DOMAIN a
    <3>1. PICK q \in 1 .. p - 1 : a[q] = j
      BY <1>2, <1>3, <2>1 DEF InOrder
    <3>2. q \in DOMAIN a
      BY <1>2, <2>1
    <3> QED BY <1>2, <3>1, <3>2
  <2>2. CASE p \notin DOMAIN a
    <3> DEFINE r == p - Len(a)
    <3>1. r \in DOMAIN b /\ p = Len(a) + r /\ p \in Nat /\ r \in Nat
      BY <1>2, <2>2
    <3> HIDE DEF r
    <3>2. c[p] = b[r]
      BY <1>2, <3>1
    <3>3. PICK q \in 1 .. r - 1 : b[q] = j
      BY <1>3, <3>1, <3>2 DEF InOrder
    <3>4. q \in DOMAIN b /\ Len(a) + q \in 1 .. p - 1
      BY <1>2, <3>1
    <3> QED BY <1>2, <3>3, <3>4
  <2> QED BY <2>1, <2>2
<1> QED BY <1>2, <1>3 DEF InOrder, S, c

LEMMA NoFlow == ASSUME NEW script PROVE <<>> \in InOrder(script)
BY DEF InOrder

(* An item may follow what it needs.                                           *)
LEMMA FlowGoesOn ==
    ASSUME NEW script, NEW a \in InOrder(script), NEW i \in DOMAIN script, Needed(script, i) \subseteq Range(a)
    PROVE  /\ Append(a, i) \in InOrder(script)
           /\ i \in Range(Append(a, i)) /\ Range(a) \subseteq Range(Append(a, i))
<1> DEFINE S == DOMAIN script
           c == Append(a, i)
<1>1. a \in Seq(S) /\ i \in S
  BY DEF InOrder
<1> HIDE DEF S
<1>2. /\ c \in Seq(S) /\ Len(a) \in Nat
      /\ \A p \in DOMAIN a : c[p] = a[p]
      /\ DOMAIN a = 1 .. Len(a) /\ c[Len(a) + 1] = i
      /\ DOMAIN c = 1 .. Len(a) + 1
  BY <1>1
<1> HIDE DEF c
<1>3. ASSUME NEW p \in DOMAIN c, NEW j \in Needed(script, c[p])
      PROVE  \E q \in 1 .. p - 1 : c[q] = j
  <2>1. CASE p \in DOMAIN a
    <3>1. PICK q \in 1 .. p - 1 : a[q] = j
      BY <1>2, <1>3, <2>1 DEF InOrder
    <3>2. q \in DOMAIN a
      BY <1>2, <2>1
    <3> QED BY <1>2, <3>1, <3>2
  <2>2. CASE p \notin DOMAIN a
    <3>1. p = Len(a) + 1 /\ c[p] = i
      BY <1>2, <2>2
    <3>2. PICK q \in DOMAIN a : a[q] = j
      BY <1>3, <3>1 DEF Range
    <3>3. q \in 1 .. p - 1
      BY <1>2, <3>1
    <3> QED BY <1>2, <3>2, <3>3
  <2> QED BY <2>1, <2>2
<1>4. c \in InOrder(script)
  BY <1>2, <1>3 DEF InOrder, S
<1>5. i \in Range(c)
  BY <1>2 DEF Range
<1>6. ASSUME NEW p \in DOMAIN a PROVE a[p] \in Range(c)
  BY <1>2 DEF Range
<1>7. Range(a) \subseteq Range(c)
  BY <1>6 DEF Range
<1> QED BY <1>4, <1>5, <1>7 DEF c

(* What a flow in order has, it has all that is needed for it.                 *)
LEMMA FlowIsClosed ==
    ASSUME NEW script, NEW a \in InOrder(script), NEW i \in Range(a)
    PROVE  Needed(script, i) \subseteq Range(a)
<1>1. PICK p \in DOMAIN a : a[p] = i
  BY DEF Range
<1>2. DOMAIN a = 1 .. Len(a) /\ Len(a) \in Nat
  BY DEF InOrder
<1> QED BY <1>1, <1>2 DEF InOrder, Range

LEMMA FlowToInOrder ==
    ASSUME NEW script, Earlier(script), NEW order \in SetToSeqs(DOMAIN script), NEW i \in DOMAIN script
    PROVE  FlowTo(script, order)[i] \in InOrder(script) /\ i \in Range(FlowTo(script, order)[i])
<1> DEFINE flow == FlowTo(script, order)
           Good(n) == flow[n] \in InOrder(script) /\ n \in Range(flow[n])
           R == {n \in 0 .. Len(script) : n # 0 => Good(n)}
<1>1. Len(script) \in Nat /\ DOMAIN script = 1 .. Len(script)
  BY DEF Earlier
<1>2. ASSUME NEW n \in 0 .. Len(script), 0 .. n - 1 \subseteq R, n # 0
      PROVE  Good(n)
  <2> DEFINE ps == FilteredPredecessors(script, order, n)
             flows == [k \in DOMAIN ps |-> flow[ps[k]]]
             G == InOrder(script)
             before == FlattenSeq(flows)
  <2>1. n \in DOMAIN script /\ n \in Nat
    BY <1>1, <1>2
  <2>2. ps \in Seq(Needed(script, n)) /\ Needed(script, n) \subseteq 1 .. n - 1
    BY <2>1, FilteredAre, NeededIsEarlier
  <2>3. \A m \in 1 .. n - 1 : Good(m) /\ m \in DOMAIN script
    BY <1>1, <1>2
  <2>4. flow[n] = Append(before, n)
    BY <2>1, FlowToIs
  <2> HIDE DEF ps, flow
  <2>5. \A k \in DOMAIN ps : ps[k] \in 1 .. n - 1 /\ Len(ps) \in Nat /\ DOMAIN ps = 1 .. Len(ps)
    BY <2>2
  <2>6. flows \in Seq(G)
    <3>1. Len(ps) \in Nat /\ flows \in [1 .. Len(ps) -> G]
      BY <2>2, <2>3, <2>5
    <3> QED BY <3>1, SeqDef
  <2>7. before \in G
    <3> HIDE DEF flows
    <3> QED BY <2>6, NoFlow, FlowsJoin, FlattenIn
  <2>8. ASSUME NEW k \in DOMAIN ps PROVE ps[k] \in Range(before)
    <3>1. flows \in Seq(Seq(DOMAIN script)) /\ k \in DOMAIN flows
      <4>1. G \subseteq Seq(DOMAIN script)
        BY DEF InOrder
      <4> HIDE DEF flows, G
      <4>2. flows \in Seq(Seq(DOMAIN script))
        BY <4>1, <2>6, SeqMonotonic
      <4> QED BY <4>2, <2>8 DEF flows
    <3>2. ps[k] \in Range(flows[k])
      BY <2>3, <2>5, <2>8
    <3> HIDE DEF flows
    <3>3. Range(flows[k]) \subseteq Range(before)
      BY <3>1, FlattenHas
    <3> QED BY <3>2, <3>3
  <2>9. Needed(script, n) \subseteq Range(before)
    <3> DEFINE Lost == Needed(script, n) \ Range(before)
               T == {m \in 0 .. n : n - m \notin Lost}
    <3> HIDE DEF before
    <3>1. ASSUME NEW m \in 0 .. n, 0 .. m - 1 \subseteq T, n - m \in Lost PROVE FALSE
      <4> DEFINE p == n - m
      <4>1. p \in Needed(script, n) /\ p \notin Range(before) /\ p \in Nat
        BY <2>1, <3>1
      <4> HIDE DEF p
      <4>2. p \notin Range(ps)
        BY <2>8, <4>1 DEF Range
      <4>3. PICK q \in Needed(script, n) : p \in Needed(script, q)
        BY <2>1, <4>1, <4>2, FilteredAre DEF ps
      <4>4. q \in DOMAIN script /\ q \in Nat /\ q < n /\ p < q
        BY <2>1, <2>2, <4>3, NeededIsEarlier
      <4>5. n - q \in 0 .. m - 1
        BY <4>4, <2>1 DEF p
      <4>6. n - q \in T /\ n - (n - q) = q
        BY <3>1, <4>4, <4>5, <2>1
      <4>7. q \in Range(before)
        BY <4>3, <4>6
      <4>8. p \in Range(before)
        BY <2>7, <4>3, <4>7, FlowIsClosed
      <4> QED BY <4>1, <4>8
    <3>2. \A m \in 0 .. n : 0 .. m - 1 \subseteq T => m \in T
      BY <3>1
    <3>3. 0 .. n \subseteq T
      <4> HIDE DEF T
      <4> QED BY <2>1, <3>2, NumbersReached
    <3>4. ASSUME NEW p \in Lost PROVE FALSE
      <4>1. p \in 1 .. n - 1
        BY <2>2
      <4>2. n - p \in 0 .. n /\ n - (n - p) = p
        BY <2>1, <4>1
      <4> HIDE DEF Lost
      <4> QED BY <3>3, <3>4, <4>2
    <3> QED BY <3>4
  <2> HIDE DEF before
  <2> QED BY <2>1, <2>4, <2>7, <2>9, FlowGoesOn
<1> HIDE DEF Good
<1>3. \A n \in 0 .. Len(script) : 0 .. n - 1 \subseteq R => n \in R
  BY <1>2
<1>4. 0 .. Len(script) \subseteq R
  <2> HIDE DEF R
  <2> QED BY <1>1, <1>3, NumbersReached
<1>5. Good(i)
  BY <1>1, <1>4
<1> QED BY <1>5 DEF Good

(* A flow is put together from its end.                                        *)
PartTo(script, order, n) ==
    IF n \in Terminals(script) THEN FlowTo(script, order)[n] ELSE <<>>

LEMMA FlowSteps ==
    ASSUME NEW script, Earlier(script), NEW order
    PROVE  \E f : /\ f[0] = <<>>
                  /\ \A n \in 1 .. Len(script) : f[n] = PartTo(script, order, n) \o f[n - 1]
                  /\ Flow(script, order) = f[Len(script)]
<1> DEFINE part(n) == IF n \in Terminals(script) THEN FlowTo(script, order)[n] ELSE <<>>
           D(f, n) == IF n = 0 THEN <<>> ELSE part(n) \o f[n - 1]
           Upto(f, m) == f = [n \in 0 .. m |-> D(f, n)]
           R == {m \in 0 .. Len(script) : \E f : Upto(f, m)}
<1>2. Len(script) \in Nat /\ DOMAIN script = 1 .. Len(script)
  BY DEF Earlier
<1>3. \A n : part(n) = PartTo(script, order, n)
  BY DEF PartTo
<1> HIDE DEF part
<1>4. ASSUME NEW m \in 0 .. Len(script), 0 .. m - 1 \subseteq R
      PROVE  m \in R
  <2>1. CASE m = 0
    <3> DEFINE f == [n \in 0 .. 0 |-> <<>>]
    <3>1. \A n \in 0 .. 0 : D(f, n) = <<>>
      OBVIOUS
    <3>2. Upto(f, m)
      BY <2>1
    <3> HIDE DEF f, Upto
    <3> QED BY <3>2
  <2>2. CASE m # 0
    <3>1. m - 1 \in 0 .. m - 1 /\ m \in Nat /\ m \in 1 .. Len(script)
      BY <2>2, <1>2
    <3>2. PICK f : Upto(f, m - 1)
      <4> HIDE DEF Upto
      <4> QED BY <1>4, <3>1
    <3> DEFINE g == [n \in 0 .. m |-> IF n = m THEN D(f, m) ELSE f[n]]
    <3>3. ASSUME NEW n \in 0 .. m PROVE D(g, n) = D(f, n)
      <4>1. CASE n = 0
        BY <4>1
      <4>2. CASE n # 0
        <5>1. n - 1 \in 0 .. m /\ n - 1 # m
          BY <4>2, <3>1
        <5>2. g[n - 1] = f[n - 1]
          BY <5>1
        <5> HIDE DEF g
        <5> QED BY <5>2
      <4> QED BY <4>1, <4>2
    <3>4. ASSUME NEW n \in 0 .. m PROVE g[n] = D(f, n)
      <4>1. CASE n = m
        BY <4>1
      <4>2. CASE n # m
        <5>1. n \in 0 .. m - 1 /\ g[n] = f[n]
          BY <4>2, <3>1
        <5> HIDE DEF g, D
        <5> QED BY <3>2, <5>1
      <4> QED BY <4>1, <4>2
    <3>5. DOMAIN g = 0 .. m /\ g = [n \in 0 .. m |-> g[n]]
      OBVIOUS
    <3> HIDE DEF g, D
    <3>6. Upto(g, m)
      BY <3>3, <3>4, <3>5
    <3> QED BY <3>6
  <2> QED BY <2>1, <2>2
<1>5. \E f : Upto(f, Len(script))
  <2> HIDE DEF Upto
  <2>1. \A n \in 0 .. Len(script) : 0 .. n - 1 \subseteq R => n \in R
    BY <1>4
  <2> HIDE DEF R
  <2>2. 0 .. Len(script) \subseteq R
    BY <1>2, <2>1, NumbersReached
  <2>3. Len(script) \in R
    BY <1>2, <2>2
  <2> QED BY <2>3 DEF R
<1> DEFINE f == CHOOSE f : f = [n \in 0 .. Len(script) |-> D(f, n)]
<1>6. Flow(script, order) = f[Len(script)]
  BY DEF Flow, part
<1>7. Upto(f, Len(script))
  BY <1>5
<1> HIDE DEF f
<1>8. \A n \in 0 .. Len(script) : f[n] = D(f, n)
  <2> HIDE DEF D
  <2> QED BY <1>7
<1>9. f[0] = <<>>
  <2>1. 0 \in 0 .. Len(script)
    BY <1>2
  <2> QED BY <1>8, <2>1
<1>10. ASSUME NEW n \in 1 .. Len(script) PROVE f[n] = PartTo(script, order, n) \o f[n - 1]
  <2>1. n \in 0 .. Len(script) /\ n # 0
    BY <1>2
  <2> QED BY <1>3, <1>8, <2>1
<1> QED BY <1>6, <1>9, <1>10

LEMMA PartsInOrder ==
    ASSUME NEW script, Earlier(script), NEW order \in SetToSeqs(DOMAIN script), NEW n \in 1 .. Len(script)
    PROVE  PartTo(script, order, n) \in InOrder(script)
<1>1. n \in DOMAIN script
  BY DEF Earlier
<1> QED BY <1>1, FlowToInOrder, NoFlow DEF PartTo

(* Whatever the order of the links: an item is run after all it needs.         *)
LEMMA FlowsInOrder ==
    ASSUME NEW script, Earlier(script), NEW flow \in Flows(script)
    PROVE  flow \in InOrder(script)
<1>1. PICK order \in SetToSeqs(DOMAIN script) : flow = Flow(script, order)
  BY DEF Flows
<1>2. PICK f : /\ f[0] = <<>>
               /\ \A n \in 1 .. Len(script) : f[n] = PartTo(script, order, n) \o f[n - 1]
               /\ Flow(script, order) = f[Len(script)]
  BY FlowSteps
<1>3. Len(script) \in Nat
  BY DEF Earlier
<1> DEFINE T == {m \in 0 .. Len(script) : f[m] \in InOrder(script)}
<1>4. ASSUME NEW m \in 0 .. Len(script), 0 .. m - 1 \subseteq T
      PROVE  m \in T
  <2>1. CASE m = 0
    BY <1>2, <2>1, NoFlow
  <2>2. CASE m # 0
    <3>1. m - 1 \in T /\ m \in 1 .. Len(script)
      BY <1>3, <1>4, <2>2
    <3>2. f[m] = PartTo(script, order, m) \o f[m - 1] /\ f[m - 1] \in InOrder(script)
      BY <1>2, <3>1
    <3>3. PartTo(script, order, m) \in InOrder(script)
      BY <3>1, PartsInOrder
    <3>4. f[m] \in InOrder(script)
      BY <3>2, <3>3, FlowsJoin
    <3> QED BY <3>4
  <2> QED BY <2>1, <2>2
<1>5. \A m \in 0 .. Len(script) : 0 .. m - 1 \subseteq T => m \in T
  BY <1>4
<1> HIDE DEF T
<1>6. 0 .. Len(script) \subseteq T
  BY <1>3, <1>5, NumbersReached
<1>7. Len(script) \in T
  BY <1>3, <1>6
<1> QED BY <1>1, <1>2, <1>7 DEF T

(* The item that is run last is the one whose value is the result.             *)
EndsWith(a, i) == a # <<>> /\ a[Len(a)] = i

LEMMA FlowEnds ==
    ASSUME NEW script, Earlier(script), NEW flow \in Flows(script), flow # <<>>
    PROVE  flow[Len(flow)] = Result(script)
<1>1. PICK order \in SetToSeqs(DOMAIN script) : flow = Flow(script, order)
  BY DEF Flows
<1>2. PICK f : /\ f[0] = <<>>
               /\ \A n \in 1 .. Len(script) : f[n] = PartTo(script, order, n) \o f[n - 1]
               /\ Flow(script, order) = f[Len(script)]
  BY FlowSteps
<1>3. Len(script) \in Nat /\ DOMAIN script = 1 .. Len(script)
  BY DEF Earlier
<1>4. Terminals(script) \subseteq 1 .. Len(script)
  BY <1>3 DEF Terminals, Nodes
<1> DEFINE Good(m) == \/ f[m] = <<>> /\ \A t \in Terminals(script) : t > m
                      \/ EndsWith(f[m], Result(script))
           T == {m \in 0 .. Len(script) : f[m] \in Seq(DOMAIN script) /\ Good(m)}
<1>5. ASSUME NEW a \in Seq(DOMAIN script), NEW b \in Seq(DOMAIN script), NEW i, EndsWith(b, i)
      PROVE  EndsWith(a \o b, i)
  <2> DEFINE S == DOMAIN script
  <2>1. a \in Seq(S) /\ b \in Seq(S)
    OBVIOUS
  <2> HIDE DEF S
  <2>2. Len(b) # 0 /\ Len(b) \in Nat /\ Len(a) \in Nat /\ b # <<>>
    BY <1>5, <2>1 DEF EndsWith
  <2>3. Len(a \o b) = Len(a) + Len(b) /\ (a \o b)[Len(a) + Len(b)] = b[Len(b)]
    BY <2>1, <2>2
  <2>4. a \o b # <<>>
    BY <2>2, <2>3
  <2> QED BY <1>5, <2>3, <2>4 DEF EndsWith
<1>6. ASSUME NEW m \in Terminals(script)
      PROVE  PartTo(script, order, m) \in Seq(DOMAIN script) /\ EndsWith(PartTo(script, order, m), m)
  <2> DEFINE S == DOMAIN script
             ps == FilteredPredecessors(script, order, m)
             before == FlattenSeq([k \in DOMAIN ps |-> FlowTo(script, order)[ps[k]]])
             part == PartTo(script, order, m)
  <2>1. m \in 1 .. Len(script) /\ m \in DOMAIN script
    BY <1>3, <1>4
  <2>2. part = Append(before, m)
    BY <2>1, FlowToIs DEF PartTo
  <2>3. part \in Seq(S)
    BY <2>1, PartsInOrder DEF InOrder
  <2> HIDE DEF S, before, part
  <2>4. part # <<>> /\ part[Len(part)] = m
    BY <2>2, <2>3
  <2> QED BY <2>3, <2>4 DEF EndsWith, part, S
<1>7. ASSUME NEW m \in 0 .. Len(script), 0 .. m - 1 \subseteq T
      PROVE  m \in T
  <2>1. CASE m = 0
    <3>1. \A t \in Terminals(script) : t > m
      BY <1>3, <1>4, <2>1
    <3>2. f[m] = <<>> /\ <<>> \in Seq(DOMAIN script)
      BY <1>2, <2>1
    <3> QED BY <3>1, <3>2
  <2>2. CASE m # 0
    <3>1. m - 1 \in T /\ m \in 1 .. Len(script)
      BY <1>3, <1>7, <2>2
    <3>2. f[m] = PartTo(script, order, m) \o f[m - 1] /\ f[m - 1] \in Seq(DOMAIN script)
      BY <1>2, <3>1
    <3>3. CASE m \notin Terminals(script)
      <4>1. f[m] = f[m - 1]
        BY <3>2, <3>3 DEF PartTo
      <4>2. (\A t \in Terminals(script) : t > m - 1) => \A t \in Terminals(script) : t > m
        BY <1>3, <1>4, <3>1, <3>3
      <4> QED BY <3>1, <3>2, <4>1, <4>2
    <3>4. CASE m \in Terminals(script)
      <4> DEFINE a == PartTo(script, order, m)
      <4>1. a \in Seq(DOMAIN script) /\ EndsWith(a, m)
        BY <1>6, <3>4
      <4> HIDE DEF a
      <4>2. f[m] = a \o f[m - 1]
        BY <3>2 DEF a
      <4>3. f[m] \in Seq(DOMAIN script)
        BY <3>2, <4>1, <4>2
      <4>4. CASE f[m - 1] = <<>> /\ \A t \in Terminals(script) : t > m - 1
        <5>1. f[m] = a
          BY <4>1, <4>2, <4>4
        <5>2. \A t \in Terminals(script) : m <= t
          BY <1>3, <1>4, <3>1, <4>4
        <5>3. \A x \in Terminals(script) : (\A t \in Terminals(script) : x <= t) => x = m
          BY <1>3, <1>4, <3>4, <5>2
        <5>4. Result(script) = m
          BY <3>4, <5>2, <5>3, Zenon DEF Result, Min
        <5> QED BY <4>1, <4>3, <5>1, <5>4
      <4>5. CASE EndsWith(f[m - 1], Result(script))
        BY <1>5, <3>2, <4>1, <4>2, <4>3, <4>5
      <4> QED BY <3>1, <4>4, <4>5
    <3> QED BY <3>3, <3>4
  <2> QED BY <2>1, <2>2
<1>8. Len(script) \in T
  <2>1. \A m \in 0 .. Len(script) : 0 .. m - 1 \subseteq T => m \in T
    BY <1>7
  <2> HIDE DEF T
  <2>2. 0 .. Len(script) \subseteq T
    BY <1>3, <2>1, NumbersReached
  <2> QED BY <1>3, <2>2
<1>9. EndsWith(flow, Result(script))
  BY <1>1, <1>2, <1>8
<1> QED BY <1>9 DEF EndsWith

(* What an item is computed from, step by step.                                *)
LEMMA NeedsIs ==
    ASSUME NEW script, Earlier(script), NEW j, NEW i \in DOMAIN script, Needs(script, i, j)
    PROVE  i = j \/ \E l \in Needed(script, i) : Needs(script, l, j)
<1> DEFINE D(f, k) == k = j \/ \E l \in Needed(script, k) : f[l]
           Upto(f, n) == f = [k \in 1 .. n |-> D(f, k)]
           R == {n \in 0 .. Len(script) : \E f : Upto(f, n)}
<1>1. Len(script) \in Nat /\ DOMAIN script = 1 .. Len(script)
  BY DEF Earlier
<1>2. \A k \in DOMAIN script : Needed(script, k) \subseteq 1 .. k - 1
  BY NeededIsEarlier
<1>3. ASSUME NEW n \in 0 .. Len(script), 0 .. n - 1 \subseteq R
      PROVE  n \in R
  <2>1. CASE n = 0
    <3>1. Upto([k \in {} |-> 0], n)
      BY <2>1
    <3> QED BY <3>1
  <2>2. CASE n # 0
    <3>1. n - 1 \in 0 .. n - 1 /\ n \in Nat /\ 1 .. n \subseteq DOMAIN script
      BY <2>2, <1>1
    <3>2. PICK f : Upto(f, n - 1)
      <4> HIDE DEF Upto
      <4> QED BY <1>3, <3>1
    <3> DEFINE g == [k \in 1 .. n |-> IF k = n THEN D(f, n) ELSE f[k]]
    <3>3. ASSUME NEW k \in 1 .. n PROVE D(g, k) <=> D(f, k)
      <4>1. \A l \in Needed(script, k) : g[l] = f[l]
        <5>1. \A l \in Needed(script, k) : l \in 1 .. n - 1
          BY <1>2, <3>1
        <5> HIDE DEF D
        <5> QED BY <5>1, <3>1
      <4> HIDE DEF g
      <4> QED BY <4>1, Zenon
    <3>4. ASSUME NEW k \in 1 .. n PROVE g[k] = D(f, k)
      <4>1. CASE k = n
        BY <4>1, Zenon
      <4>2. CASE k # n
        <5>1. k \in 1 .. n - 1 /\ g[k] = f[k]
          BY <4>2, <3>1
        <5> HIDE DEF g, D
        <5> QED BY <3>2, <5>1, Zenon
      <4> QED BY <4>1, <4>2
    <3>5. DOMAIN g = 1 .. n /\ g = [k \in 1 .. n |-> g[k]]
      BY Zenon
    <3> HIDE DEF g
    <3>6. \A k \in 1 .. n : g[k] = D(g, k)
      BY <3>3, <3>4, Zenon
    <3> HIDE DEF D
    <3>7. Upto(g, n)
      BY <3>5, <3>6, Zenon
    <3> QED BY <3>7
  <2> QED BY <2>1, <2>2
<1>4. \E f : Upto(f, Len(script))
  <2> HIDE DEF Upto
  <2>1. \A n \in 0 .. Len(script) : 0 .. n - 1 \subseteq R => n \in R
    BY <1>3
  <2> HIDE DEF R
  <2>2. 0 .. Len(script) \subseteq R
    BY <1>1, <2>1, NumbersReached
  <2>3. Len(script) \in R
    BY <1>1, <2>2
  <2> QED BY <2>3 DEF R
<1> DEFINE needs == CHOOSE f : f = [k \in DOMAIN script |-> D(f, k)]
<1>5. ASSUME NEW k PROVE Needs(script, k, j) <=> needs[k]
  BY Zenon DEF Needs, Needed
<1>6. Upto(needs, Len(script))
  BY <1>1, <1>4, Zenon
<1> HIDE DEF needs
<1>7. needs[i] <=> D(needs, i)
  <2>1. i \in 1 .. Len(script)
    BY <1>1
  <2> HIDE DEF D
  <2> QED BY <1>6, <2>1, Zenon
<1> QED BY <1>5, <1>7, Zenon

(* All that an item of a flow in order is computed from comes before it.       *)
LEMMA FlowHasNeeds ==
    ASSUME NEW script, Earlier(script), NEW a \in InOrder(script), NEW p \in DOMAIN a, NEW j, Needs(script, a[p], j)
    PROVE  \E q \in 1 .. p : a[q] = j
<1> DEFINE Good(n) == Needs(script, a[n], j) => \E q \in 1 .. n : a[q] = j
           R == {n \in 0 .. Len(a) : n # 0 => Good(n)}
<1>1. Len(a) \in Nat /\ DOMAIN a = 1 .. Len(a) /\ \A n \in DOMAIN a : a[n] \in DOMAIN script
  <2> DEFINE S == DOMAIN script
  <2>1. a \in Seq(S)
    BY DEF InOrder
  <2> HIDE DEF S
  <2>2. Len(a) \in Nat /\ DOMAIN a = 1 .. Len(a) /\ a \in [1 .. Len(a) -> S]
    BY <2>1, LenProperties
  <2>3. \A n \in DOMAIN a : a[n] \in S
    BY <2>2
  <2>4. \A n \in DOMAIN a : a[n] \in DOMAIN script
    BY <2>3 DEF S
  <2> QED BY <2>2, <2>4, Zenon
<1>2. ASSUME NEW n \in 0 .. Len(a), 0 .. n - 1 \subseteq R, n # 0, Needs(script, a[n], j)
      PROVE  \E q \in 1 .. n : a[q] = j
  <2>1. n \in DOMAIN a /\ n \in Nat /\ a[n] \in DOMAIN script
    <3> DEFINE N == Len(a)
    <3>1. n \in 0 .. N /\ n # 0 /\ N \in Nat /\ DOMAIN a = 1 .. N
      BY <1>1, <1>2, Zenon
    <3> HIDE DEF N
    <3>2. n \in DOMAIN a /\ n \in Nat
      BY <3>1
    <3> QED BY <1>1, <3>2, Zenon
  <2>2. CASE a[n] = j
    <3>1. \A k \in Nat : k # 0 => k \in 1 .. k
      OBVIOUS
    <3>2. n \in 1 .. n
      BY <1>2, <2>1, <3>1, Zenon
    <3> QED BY <2>2, <3>2, Zenon
  <2>3. CASE a[n] # j
    <3>1. PICK l \in Needed(script, a[n]) : Needs(script, l, j)
      BY <1>2, <2>1, <2>3, NeedsIs
    <3>2. PICK m \in 1 .. n - 1 : a[m] = l
      BY <2>1 DEF InOrder
    <3>3. m \in 0 .. n - 1 /\ m # 0
      BY <2>1
    <3>4. Good(m)
      <4> HIDE DEF Good
      <4> QED BY <1>2, <3>3
    <3>5. PICK q \in 1 .. m : a[q] = j
      BY <3>1, <3>2, <3>4
    <3> QED BY <2>1, <3>5
  <2> QED BY <2>2, <2>3
<1>3. \A n \in 0 .. Len(a) : 0 .. n - 1 \subseteq R => n \in R
  <2> SUFFICES ASSUME NEW n \in 0 .. Len(a), 0 .. n - 1 \subseteq R, n # 0 PROVE Good(n)
    BY Zenon
  <2> QED BY <1>2
<1>4. 0 .. Len(a) \subseteq R
  <2> HIDE DEF R
  <2> QED BY <1>1, <1>3, NumbersReached
<1>5. Good(p)
  <2>1. p \in 0 .. Len(a) /\ p # 0
    BY <1>1
  <2> HIDE DEF Good
  <2> QED BY <1>4, <2>1
<1> QED BY <1>5

----------------------------------------------------------------------------
LEMMA ArgumentsAreEarlier ==
    ASSUME NEW script, Earlier(script), NEW i \in DOMAIN script, NEW k \in DOMAIN script[i].args
    PROVE  script[i].args[k] \in 1 .. i - 1 /\ script[i].args[k] \in DOMAIN script
<1> DEFINE J == 1 .. i - 1
           args == script[i].args
<1>1. args \in Seq(J)
  BY DEF Earlier
<1>2. i \in Nat /\ J \subseteq DOMAIN script
  BY DEF Earlier
<1> HIDE DEF J, args
<1>3. args \in [1 .. Len(args) -> J]
  BY <1>1, LenProperties
<1>4. k \in DOMAIN args => args[k] \in J
  BY <1>3
<1> QED BY <1>2, <1>4 DEF J, args

(* What a script means and which types its items have, step by step.           *)
ValueAt(script, images, value, i) ==
    IF script[i].algorithm = "input" THEN images[script[i].source - 1]
    ELSE Applied(script[i].algorithm, [k \in DOMAIN script[i].args |-> value[script[i].args[k]]])

Values(script, images) == CHOOSE f : f = [i \in DOMAIN script |-> ValueAt(script, images, f, i)]

TypeAt(script, type, i) ==
    IF script[i].algorithm = "input" THEN script[i].mode
    ELSE Parses[script[i].algorithm][[k \in DOMAIN script[i].args |-> type[script[i].args[k]]]]

LEMMA ValuesAre ==
    ASSUME NEW script, Earlier(script), NEW images, NEW i \in DOMAIN script
    PROVE  Values(script, images)[i] = ValueAt(script, images, Values(script, images), i)
<1> DEFINE D(f, j) == ValueAt(script, images, f, j)
           Upto(f, n) == f = [j \in 1 .. n |-> D(f, j)]
           R == {n \in 0 .. Len(script) : \E f : Upto(f, n)}
<1>1. Len(script) \in Nat /\ DOMAIN script = 1 .. Len(script)
  BY DEF Earlier
<1>2. \A j \in DOMAIN script : \A k \in DOMAIN script[j].args : script[j].args[k] \in 1 .. j - 1
  BY ArgumentsAreEarlier
<1>3. ASSUME NEW n \in 0 .. Len(script), 0 .. n - 1 \subseteq R
      PROVE  n \in R
  <2>1. CASE n = 0
    <3>1. Upto([j \in {} |-> 0], n)
      BY <2>1
    <3> QED BY <3>1
  <2>2. CASE n # 0
    <3>1. n - 1 \in 0 .. n - 1 /\ n \in Nat /\ 1 .. n \subseteq DOMAIN script
      BY <2>2, <1>1
    <3>2. PICK f : Upto(f, n - 1)
      <4> HIDE DEF Upto
      <4> QED BY <1>3, <3>1
    <3> DEFINE g == [j \in 1 .. n |-> IF j = n THEN D(f, n) ELSE f[j]]
    <3>3. ASSUME NEW j \in 1 .. n PROVE D(g, j) = D(f, j)
      <4> DEFINE args == script[j].args
      <4>1. \A k \in DOMAIN args : args[k] \in 1 .. n - 1
        BY <1>2, <3>1
      <4>2. \A k \in DOMAIN args : g[args[k]] = f[args[k]]
        <5> HIDE DEF D, args
        <5> QED BY <4>1, <3>1
      <4> HIDE DEF g
      <4>3. [k \in DOMAIN args |-> g[args[k]]] = [k \in DOMAIN args |-> f[args[k]]]
        BY <4>2
      <4> QED BY <4>3, Zenon DEF ValueAt
    <3>4. ASSUME NEW j \in 1 .. n PROVE g[j] = D(f, j)
      <4>1. CASE j = n
        BY <4>1, Zenon
      <4>2. CASE j # n
        <5>1. j \in 1 .. n - 1 /\ g[j] = f[j]
          BY <4>2, <3>1
        <5> HIDE DEF g, D
        <5> QED BY <3>2, <5>1
      <4> QED BY <4>1, <4>2
    <3>5. DOMAIN g = 1 .. n /\ g = [j \in 1 .. n |-> g[j]]
      BY Zenon
    <3> HIDE DEF g, D
    <3>6. Upto(g, n)
      BY <3>3, <3>4, <3>5
    <3> QED BY <3>6
  <2> QED BY <2>1, <2>2
<1>4. \E f : Upto(f, Len(script))
  <2> HIDE DEF Upto
  <2>1. \A n \in 0 .. Len(script) : 0 .. n - 1 \subseteq R => n \in R
    BY <1>3
  <2> HIDE DEF R
  <2>2. 0 .. Len(script) \subseteq R
    BY <1>1, <2>1, NumbersReached
  <2>3. Len(script) \in R
    BY <1>1, <2>2
  <2> QED BY <2>3 DEF R
<1> DEFINE V == Values(script, images)
<1>5. Upto(V, Len(script))
  BY <1>1, <1>4, Zenon DEF Values
<1>6. i \in 1 .. Len(script)
  BY <1>1
<1>7. V[i] = D(V, i)
  <2> HIDE DEF V, D
  <2> QED BY <1>5, <1>6
<1> QED BY <1>7

LEMMA MeaningIs ==
    ASSUME NEW script, NEW images
    PROVE  Meaning(script, images) = Values(script, images)[Result(script)]
BY Zenon DEF Meaning, Values, ValueAt

LEMMA TypesAre ==
    ASSUME NEW script, Earlier(script), NEW i \in DOMAIN script
    PROVE  TypesOfItems(script)[i] = TypeAt(script, TypesOfItems(script), i)
<1> DEFINE D(f, j) == TypeAt(script, f, j)
           Upto(f, n) == f = [j \in 1 .. n |-> D(f, j)]
           R == {n \in 0 .. Len(script) : \E f : Upto(f, n)}
<1>1. Len(script) \in Nat /\ DOMAIN script = 1 .. Len(script)
  BY DEF Earlier
<1>2. \A j \in DOMAIN script : \A k \in DOMAIN script[j].args : script[j].args[k] \in 1 .. j - 1
  BY ArgumentsAreEarlier
<1>3. ASSUME NEW n \in 0 .. Len(script), 0 .. n - 1 \subseteq R
      PROVE  n \in R
  <2>1. CASE n = 0
    <3>1. Upto([j \in {} |-> 0], n)
      BY <2>1
    <3> QED BY <3>1
  <2>2. CASE n # 0
    <3>1. n - 1 \in 0 .. n - 1 /\ n \in Nat /\ 1 .. n \subseteq DOMAIN script
      BY <2>2, <1>1
    <3>2. PICK f : Upto(f, n - 1)
      <4> HIDE DEF Upto
      <4> QED BY <1>3, <3>1
    <3> DEFINE g == [j \in 1 .. n |-> IF j = n THEN D(f, n) ELSE f[j]]
    <3>3. ASSUME NEW j \in 1 .. n PROVE D(g, j) = D(f, j)
      <4> DEFINE args == script[j].args
      <4>1. \A k \in DOMAIN args : args[k] \in 1 .. n - 1
        BY <1>2, <3>1
      <4>2. \A k \in DOMAIN args : g[args[k]] = f[args[k]]
        <5> HIDE DEF D, args
        <5> QED BY <4>1, <3>1
      <4> HIDE DEF g
      <4>3. [k \in DOMAIN args |-> g[args[k]]] = [k \in DOMAIN args |-> f[args[k]]]
        BY <4>2
      <4> QED BY <4>3, Zenon DEF TypeAt
    <3>4. ASSUME NEW j \in 1 .. n PROVE g[j] = D(f, j)
      <4>1. CASE j = n
        BY <4>1, Zenon
      <4>2. CASE j # n
        <5>1. j \in 1 .. n - 1 /\ g[j] = f[j]
          BY <4>2, <3>1
        <5> HIDE DEF g, D
        <5> QED BY <3>2, <5>1
      <4> QED BY <4>1, <4>2
    <3>5. DOMAIN g = 1 .. n /\ g = [j \in 1 .. n |-> g[j]]
      BY Zenon
    <3> HIDE DEF g, D
    <3>6. Upto(g, n)
      BY <3>3, <3>4, <3>5
    <3> QED BY <3>6
  <2> QED BY <2>1, <2>2
<1>4. \E f : Upto(f, Len(script))
  <2> HIDE DEF Upto
  <2>1. \A n \in 0 .. Len(script) : 0 .. n - 1 \subseteq R => n \in R
    BY <1>3
  <2> HIDE DEF R
  <2>2. 0 .. Len(script) \subseteq R
    BY <1>1, <2>1, NumbersReached
  <2>3. Len(script) \in R
    BY <1>1, <2>2
  <2> QED BY <2>3 DEF R
<1> DEFINE V == TypesOfItems(script)
<1>5. V = CHOOSE f : f = [j \in DOMAIN script |-> D(f, j)]
  BY Zenon DEF TypesOfItems, TypeAt
<1>6. Upto(V, Len(script))
  <2> HIDE DEF V, D
  <2> QED BY <1>1, <1>4, <1>5, Zenon
<1>7. i \in 1 .. Len(script)
  BY <1>1
<1>8. V[i] = D(V, i)
  <2> HIDE DEF V, D
  <2> QED BY <1>6, <1>7
<1> QED BY <1>8

(* The types that the parser counts on are those of the values.                *)
LEMMA TypesOfValues ==
    ASSUME NEW script, Earlier(script), NEW images, Fits(script, images), NEW i \in DOMAIN script
    PROVE  Values(script, images)[i].type = TypesOfItems(script)[i]
<1> DEFINE V == Values(script, images)
           T == TypesOfItems(script)
           R == {n \in 0 .. Len(script) : n # 0 => V[n].type = T[n]}
<1>1. Len(script) \in Nat /\ DOMAIN script = 1 .. Len(script)
  BY DEF Earlier
<1>2. ASSUME NEW n \in 0 .. Len(script), 0 .. n - 1 \subseteq R, n # 0
      PROVE  V[n].type = T[n]
  <2> DEFINE args == script[n].args
  <2>1. n \in DOMAIN script
    BY <1>1, <1>2
  <2>2. V[n] = ValueAt(script, images, V, n) /\ T[n] = TypeAt(script, T, n)
    BY <2>1, ValuesAre, TypesAre
  <2>3. ASSUME NEW k \in DOMAIN args PROVE V[args[k]].type = T[args[k]]
    <3>1. args[k] \in 1 .. n - 1 /\ n \in Nat
      BY <1>1, <2>1, ArgumentsAreEarlier
    <3> DEFINE a == args[k]
    <3> HIDE DEF V, T
    <3>2. a \in 0 .. n - 1 /\ a # 0
      BY <3>1
    <3> HIDE DEF a
    <3>3. V[a].type = T[a]
      BY <1>2, <3>2
    <3> QED BY <3>3 DEF a
  <2>4. CASE script[n].algorithm = "input"
    <3>1. V[n] = images[script[n].source - 1] /\ T[n] = script[n].mode
      BY <2>2, <2>4 DEF ValueAt, TypeAt
    <3> HIDE DEF V, T
    <3> QED BY <2>1, <2>4, <3>1 DEF Fits
  <2>5. CASE script[n].algorithm # "input"
    <3> HIDE DEF V, T, args
    <3> DEFINE from == [k \in DOMAIN args |-> V[args[k]]]
    <3>1. V[n] = Applied(script[n].algorithm, from)
      BY <2>2, <2>5 DEF ValueAt, args
    <3>2. T[n] = Parses[script[n].algorithm][[k \in DOMAIN args |-> T[args[k]]]]
      BY <2>2, <2>5 DEF TypeAt, args
    <3>3. [k \in DOMAIN from |-> from[k].type] = [k \in DOMAIN args |-> T[args[k]]]
      BY <2>3
    <3> HIDE DEF from
    <3>4. V[n].type = Parses[script[n].algorithm][[k \in DOMAIN from |-> from[k].type]]
      BY <3>1 DEF Applied
    <3> QED BY <3>2, <3>3, <3>4
  <2> QED BY <2>4, <2>5
<1>3. \A n \in 0 .. Len(script) : 0 .. n - 1 \subseteq R => n \in R
  <2> SUFFICES ASSUME NEW n \in 0 .. Len(script), 0 .. n - 1 \subseteq R, n # 0 PROVE V[n].type = T[n]
    BY Zenon
  <2> QED BY <1>2
<1>4. 0 .. Len(script) \subseteq R
  <2> HIDE DEF R
  <2> QED BY <1>1, <1>3, NumbersReached
<1>5. i \in 0 .. Len(script) /\ i # 0
  BY <1>1
<1> HIDE DEF V, T
<1>6. V[i].type = T[i]
  BY <1>4, <1>5
<1> QED BY <1>6 DEF V, T

----------------------------------------------------------------------------
(* What is compiled runs every item after all that it needs, and last the one   *)
(* whose value is the result.                                                  *)
Ordered ==
    /\ Len(compiled) \in Nat /\ DOMAIN compiled = 1 .. Len(compiled)
    /\ \A k \in DOMAIN compiled :
           /\ compiled[k].script # <<>> /\ Earlier(compiled[k].script)
           /\ compiled[k].flow \in InOrder(compiled[k].script)
           /\ compiled[k].flow # <<>> => EndsWith(compiled[k].flow, Result(compiled[k].script))

LEMMA CompileKeepsOrdered ==
    ASSUME Ordered, Entries, NEW script \in Scripts, Compile(script)
    PROVE  /\ Ordered'
           /\ Len(compiled) <= Len(compiled')
           /\ \A k \in DOMAIN compiled : compiled'[k] = compiled[k]
<1>1. CASE UNCHANGED compiled
  BY <1>1 DEF Ordered
<1>2. CASE /\ Parsed(script)
           /\ \E flow \in Flows(script) :
                  compiled' = Append(compiled, [script |-> script, flow |-> flow])
  <2>1. PICK flow \in Flows(script) :
            compiled' = Append(compiled, [script |-> script, flow |-> flow])
    BY <1>2
  <2>2. /\ script # <<>> /\ Earlier(script) /\ flow \in InOrder(script)
        /\ flow # <<>> => EndsWith(flow, Result(script))
    <3>1. script # <<>> /\ Earlier(script)
      BY <1>2, ScriptsAssumption, ParsedIsEarlier DEF IsScript
    <3>2. flow \in InOrder(script)
      BY <3>1, FlowsInOrder
    <3>3. flow # <<>> => EndsWith(flow, Result(script))
      BY <3>1, FlowEnds DEF EndsWith
    <3> QED BY <3>1, <3>2, <3>3
  <2> DEFINE n == Len(compiled)
             entry == [script |-> script, flow |-> flow]
             E == [script : Scripts, flow : UNION {Flows(s) : s \in Scripts}]
  <2>3. entry \in E /\ compiled \in Seq(E)
    BY DEF Entries
  <2>4. entry.script = script /\ entry.flow = flow
    OBVIOUS
  <2> HIDE DEF entry, E
  <2>5. /\ n \in Nat /\ Len(compiled') = n + 1 /\ DOMAIN compiled' = 1 .. n + 1
        /\ DOMAIN compiled = 1 .. n
        /\ \A k \in 1 .. n : compiled'[k] = compiled[k]
        /\ compiled'[n + 1] = entry
    BY <2>1, <2>3, AppendProperties, LenProperties DEF entry
  <2> HIDE DEF n
  <2>6. \A k \in 1 .. n + 1 : k \in 1 .. n \/ k = n + 1
    BY <2>5
  <2>7. \A k \in DOMAIN compiled' :
            /\ compiled'[k].script # <<>> /\ Earlier(compiled'[k].script)
            /\ compiled'[k].flow \in InOrder(compiled'[k].script)
            /\ compiled'[k].flow # <<>> => EndsWith(compiled'[k].flow, Result(compiled'[k].script))
    BY <2>2, <2>4, <2>5, <2>6, Zenon DEF Ordered
  <2>8. Len(compiled') \in Nat /\ DOMAIN compiled' = 1 .. Len(compiled') /\ n <= Len(compiled')
    BY <2>5
  <2> QED BY <2>5, <2>7, <2>8 DEF Ordered, n
<1> QED BY <1>1, <1>2 DEF Compile

(* The record of an evaluation.                                                *)
IsContext(c) ==
    c = [call |-> c.call, id |-> c.id, items |-> c.items,
         last |-> c.last, at |-> c.at, status |-> c.status]

FlowOf(c) == compiled[c.id + 1].flow

(* An evaluation in progress: all images it keeps are images, and if those of  *)
(* the call are what the script reads, the items before the place of the       *)
(* executor are computed.                                                      *)
Progress(c) ==
    /\ IsContext(c)
    /\ c.id \in 0 .. Len(compiled) - 1
    /\ c.call.script = compiled[c.id + 1].script
    /\ c.at \in DOMAIN FlowOf(c)
    /\ c.last \in DOMAIN c.items
    /\ \A k \in DOMAIN c.items : c.items[k].type \in ImageTypes
    /\ c.status \in {"running", "done", "failed", "silent"}
    /\ Imaged(c.call) =>
           /\ DOMAIN Stored(c.call.types) \subseteq DOMAIN c.items
           /\ c.status = "running" => \A q \in 1 .. c.at - 1 : FlowOf(c)[q] \in DOMAIN c.items

LEMMA StoredAreImages ==
    ASSUME NEW types \in ImageSets
    PROVE  /\ (IF Len(types) = 1 THEN 0 ELSE 2) \in DOMAIN Stored(types)
           /\ \A k \in DOMAIN Stored(types) : Stored(types)[k].type \in ImageTypes
<1>1. PICK t \in ImageTypes : types \in {<<t>>, <<t, t>>}
  BY ImagesAssumption
<1>2. types[1] = t /\ Len(types) \in {1, 2}
  BY <1>1
<1>3. \A name : Image(t, name).type = t
  BY DEF Image
<1> QED BY <1>2, <1>3 DEF Stored

LEMMA EvaluateStartsInProgress ==
    ASSUME Ordered, NEW types \in ImageSets, NEW convert \in BOOLEAN,
           NEW id \in 0 .. Len(compiled) - 1, Evaluate(id, types, convert)
    PROVE  /\ DOMAIN context' = DOMAIN context \cup {counter}
           /\ \A n \in DOMAIN context : n # counter => context'[n] = context[n]
           /\ Progress(context'[counter])
<1> DEFINE call == [number |-> counter, script |-> compiled[id + 1].script,
                    types  |-> types, convert |-> convert]
           c == [call   |-> call, id |-> id,
                 items  |-> Stored(types),
                 last   |-> IF Len(types) = 1 THEN 0 ELSE 2,
                 at     |-> 1,
                 status |-> "running"]
<1>1. /\ DOMAIN context' = DOMAIN context \cup {counter}
      /\ \A n \in DOMAIN context : n # counter => context'[n] = context[n]
      /\ context'[counter] = c
      /\ compiled[id + 1].flow # <<>>
  BY DEF Evaluate
<1>2. IsContext(c)
  BY DEF IsContext
<1>3. /\ c.call = call /\ c.id = id /\ c.items = Stored(types) /\ c.at = 1 /\ c.status = "running"
      /\ c.last = (IF Len(types) = 1 THEN 0 ELSE 2)
      /\ call.script = compiled[id + 1].script /\ call.types = types
  OBVIOUS
<1> HIDE DEF c, call
<1>4. 1 \in DOMAIN compiled[id + 1].flow
  <2>1. id + 1 \in DOMAIN compiled
    BY DEF Ordered
  <2> DEFINE S == DOMAIN compiled[id + 1].script
             flow == compiled[id + 1].flow
  <2>2. flow \in Seq(S)
    BY <2>1 DEF Ordered, InOrder
  <2>3. flow # <<>>
    BY <1>1
  <2> HIDE DEF S, flow
  <2>4. 1 \in DOMAIN flow
    BY <2>2, <2>3, EmptySeq, LenProperties
  <2> QED BY <2>4 DEF flow
<1>5. c.at \in DOMAIN FlowOf(c)
  BY <1>3, <1>4 DEF FlowOf
<1>6. c.last \in DOMAIN c.items /\ \A k \in DOMAIN c.items : c.items[k].type \in ImageTypes
  BY <1>3, StoredAreImages
<1>7. \A q \in 1 .. c.at - 1 : FALSE
  BY <1>3
<1>8. Progress(c)
  BY <1>2, <1>3, <1>5, <1>6, <1>7, Zenon DEF Progress
<1> QED BY <1>1, <1>8

(* A task that stores stores an image.                                         *)
LEMMA TaskStoresImage ==
    ASSUME NEW algorithm \in Algorithms, NEW types, "stores" \in Outcomes(algorithm, types)
    PROVE  Tasks[algorithm][types] \in ImageTypes
<1>1. types \in DOMAIN Tasks[algorithm]
  BY DEF Outcomes
<1>2. ASSUME NEW set, NEW type \in ImageTypes, types \in set PROVE ToType(set, type)[types] \in ImageTypes
  BY <1>2 DEF ToType
<1>3. ASSUME NEW set, \A a \in set : a[1] \in ImageTypes, types \in set PROVE Filter(set)[types] \in ImageTypes
  BY <1>3 DEF Filter
<1>4. /\ \A a \in OneImage : a[1] \in ImageTypes
      /\ \A a \in Pairs : a[1] \in ImageTypes
      /\ \A a \in EqualPairs : a[1] \in ImageTypes
      /\ "gray" \in ImageTypes /\ "rgb" \in ImageTypes
  BY DEF OneImage, Pairs, EqualPairs, ImageTypes
<1>5. /\ DOMAIN Filter(OneImage) = OneImage
      /\ DOMAIN Filter(Pairs) = Pairs
      /\ DOMAIN Filter(EqualPairs) = EqualPairs
      /\ \A set, type : DOMAIN ToType(set, type) = set
  BY DEF Filter, ToType
<1>6. Tasks[algorithm] \in {Filter(OneImage), Filter(Pairs), Filter(EqualPairs),
                            ToType({<<"rgb">>}, "gray"), ToType({<<"gray">>}, "rgb"),
                            ToType({<<"gray">>}, "gray")}
  BY DEF Algorithms, Parses, Tasks, AndTask, OrTask, DiffTask, ConvertToGrayTask, ConvertToRgbTask,
         HistogramEqualizationTask, HogImageTask, BinaryThresholdTask, KMeansTask, MeanTask,
         MultiplyAddTask, PaintMetaTask, PoolingTask, ResizeTask, ScharrTask, SobelTask,
         ThresholdTask, ResizeToTask
<1> QED BY <1>1, <1>2, <1>3, <1>4, <1>5, <1>6

(* The flow of an evaluation and the place in it.                              *)
LEMMA PlaceInFlow ==
    ASSUME Ordered, NEW c, Progress(c)
    PROVE  /\ Earlier(c.call.script)
           /\ FlowOf(c) \in InOrder(c.call.script)
           /\ Len(FlowOf(c)) \in Nat /\ DOMAIN FlowOf(c) = 1 .. Len(FlowOf(c))
           /\ c.at \in 1 .. Len(FlowOf(c))
           /\ ItemToRun(c) = FlowOf(c)[c.at] /\ ItemToRun(c) \in DOMAIN c.call.script
           /\ CallToRun(c) = c.call.script[ItemToRun(c)]
<1>1. c.id + 1 \in DOMAIN compiled
  BY DEF Progress, Ordered
<1>2. Earlier(c.call.script) /\ FlowOf(c) \in InOrder(c.call.script)
  BY <1>1 DEF Progress, Ordered, FlowOf
<1> DEFINE S == DOMAIN c.call.script
           flow == FlowOf(c)
<1>3. flow \in Seq(S)
  BY <1>2 DEF InOrder
<1>4. c.at \in DOMAIN flow
  BY DEF Progress
<1> HIDE DEF S, flow
<1>5. Len(flow) \in Nat /\ DOMAIN flow = 1 .. Len(flow) /\ flow \in [1 .. Len(flow) -> S]
  BY <1>3, LenProperties
<1>6. c.at \in 1 .. Len(flow) /\ flow[c.at] \in S
  BY <1>4, <1>5
<1>7. ItemToRun(c) = flow[c.at] /\ CallToRun(c) = c.call.script[ItemToRun(c)]
  BY Zenon DEF ItemToRun, CallToRun, FlowOf, flow
<1> QED BY <1>2, <1>5, <1>6, <1>7, Zenon DEF flow, S

(* What Store, Visit and a failure do to the record of an evaluation.          *)
LEMMA StoreFields ==
    ASSUME NEW c, IsContext(c), NEW k, NEW value
    PROVE  LET d == Store(c, k, value)
           IN  /\ IsContext(d)
               /\ d.call = c.call /\ d.id = c.id /\ d.last = k
               /\ d.at = c.at /\ d.status = c.status
               /\ DOMAIN d.items = DOMAIN c.items \cup {k} /\ d.items[k] = value
               /\ \A m \in DOMAIN c.items : m # k => d.items[m] = c.items[m]
               /\ FlowOf(d) = FlowOf(c) /\ ItemToRun(d) = ItemToRun(c)
<1> DEFINE items == [m \in DOMAIN c.items \cup {k} |-> IF m = k THEN value ELSE c.items[m]]
           d == Store(c, k, value)
<1>1. d = [c EXCEPT !.items = items, !.last = k]
  BY DEF Store
<1> HIDE DEF d, items
<1>2. /\ IsContext(d)
      /\ d.call = c.call /\ d.id = c.id /\ d.last = k
      /\ d.at = c.at /\ d.status = c.status
      /\ d.items = items
  BY <1>1 DEF IsContext
<1>3. FlowOf(d) = FlowOf(c) /\ ItemToRun(d) = ItemToRun(c)
  BY <1>2, Zenon DEF FlowOf, ItemToRun
<1>4. /\ DOMAIN items = DOMAIN c.items \cup {k} /\ items[k] = value
      /\ \A m \in DOMAIN c.items : m # k => items[m] = c.items[m]
  BY DEF items
<1> QED BY <1>2, <1>3, <1>4, Zenon DEF d

LEMMA VisitFields ==
    ASSUME NEW c, IsContext(c)
    PROVE  LET d == Visit(c)
               more == c.at < Len(FlowOf(c))
           IN  /\ IsContext(d)
               /\ d.call = c.call /\ d.id = c.id /\ d.last = c.last /\ d.items = c.items
               /\ more => d.at = c.at + 1 /\ d.status = c.status
               /\ ~more => d.at = c.at /\ d.status = "done"
               /\ FlowOf(d) = FlowOf(c)
<1> DEFINE d == Visit(c)
           more == c.at < Len(FlowOf(c))
<1>1. d = IF more THEN [c EXCEPT !.at = @ + 1] ELSE [c EXCEPT !.status = "done"]
  BY DEF Visit, FlowOf
<1> HIDE DEF d, more
<1>2. /\ IsContext(d)
      /\ d.call = c.call /\ d.id = c.id /\ d.last = c.last /\ d.items = c.items
      /\ more => d.at = c.at + 1 /\ d.status = c.status
      /\ ~more => d.at = c.at /\ d.status = "done"
  BY <1>1 DEF IsContext
<1>3. FlowOf(d) = FlowOf(c)
  BY <1>2, Zenon DEF FlowOf
<1> QED BY <1>2, <1>3 DEF d, more

LEMMA StatusFields ==
    ASSUME NEW c, IsContext(c), NEW status
    PROVE  LET d == [c EXCEPT !.status = status]
           IN  /\ IsContext(d)
               /\ d.call = c.call /\ d.id = c.id /\ d.last = c.last /\ d.items = c.items
               /\ d.at = c.at /\ d.status = status
               /\ FlowOf(d) = FlowOf(c)
<1> DEFINE d == [c EXCEPT !.status = status]
<1>1. /\ IsContext(d)
      /\ d.call = c.call /\ d.id = c.id /\ d.last = c.last /\ d.items = c.items
      /\ d.at = c.at /\ d.status = status
  BY DEF IsContext
<1> HIDE DEF d
<1>2. FlowOf(d) = FlowOf(c)
  BY <1>1, Zenon DEF FlowOf
<1> QED BY <1>1, <1>2 DEF d

(* The executor may go on when the item of its place is computed.              *)
LEMMA VisitKeepsProgress ==
    ASSUME Ordered, NEW c, Progress(c),
           Imaged(c.call) /\ c.status = "running" => ItemToRun(c) \in DOMAIN c.items
    PROVE  Progress(Visit(c))
<1> DEFINE n == Len(FlowOf(c))
           d == Visit(c)
<1>1. /\ n \in Nat /\ DOMAIN FlowOf(c) = 1 .. n /\ c.at \in 1 .. n
      /\ ItemToRun(c) = FlowOf(c)[c.at]
  BY PlaceInFlow
<1>2. /\ IsContext(d)
      /\ d.call = c.call /\ d.id = c.id /\ d.last = c.last /\ d.items = c.items
      /\ c.at < n => d.at = c.at + 1 /\ d.status = c.status
      /\ ~(c.at < n) => d.at = c.at /\ d.status = "done"
      /\ FlowOf(d) = FlowOf(c)
  BY VisitFields DEF Progress
<1> HIDE DEF d, n
<1>3. CASE c.at < n
  <2>1. d.at \in DOMAIN FlowOf(d) /\ d.at - 1 = c.at
    BY <1>1, <1>2, <1>3
  <2>2. \A q \in 1 .. c.at : q \in 1 .. c.at - 1 \/ q = c.at
    BY <1>1
  <2>3. Imaged(c.call) /\ c.status = "running" =>
            \A q \in 1 .. d.at - 1 : FlowOf(d)[q] \in DOMAIN c.items
    BY <1>1, <1>2, <2>1, <2>2, Zenon DEF Progress
  <2>4. Progress(d)
    BY <1>2, <1>3, <2>1, <2>3, Zenon DEF Progress
  <2> QED BY <2>4 DEF d
<1>4. CASE ~(c.at < n)
  <2>1. "done" # "running"
    OBVIOUS
  <2>2. Progress(d)
    BY <1>2, <1>4, <2>1, Zenon DEF Progress
  <2> QED BY <2>2 DEF d
<1> QED BY <1>3, <1>4

LEMMA StoreKeepsProgress ==
    ASSUME Ordered, NEW c, Progress(c), NEW k, NEW value, value.type \in ImageTypes
    PROVE  Progress(Store(c, k, value)) /\ k \in DOMAIN Store(c, k, value).items
<1> DEFINE d == Store(c, k, value)
<1>1. /\ IsContext(d)
      /\ d.call = c.call /\ d.id = c.id /\ d.last = k
      /\ d.at = c.at /\ d.status = c.status
      /\ DOMAIN d.items = DOMAIN c.items \cup {k} /\ d.items[k] = value
      /\ \A m \in DOMAIN c.items : m # k => d.items[m] = c.items[m]
      /\ FlowOf(d) = FlowOf(c)
  <2>1. IsContext(c)
    BY DEF Progress
  <2> QED BY <2>1, StoreFields
<1> HIDE DEF d
<1>2. \A m \in DOMAIN d.items : d.items[m].type \in ImageTypes
  BY <1>1 DEF Progress
<1>3. DOMAIN c.items \subseteq DOMAIN d.items /\ k \in DOMAIN d.items
  BY <1>1
<1>4. Imaged(d.call) =>
           /\ DOMAIN Stored(d.call.types) \subseteq DOMAIN d.items
           /\ d.status = "running" => \A q \in 1 .. d.at - 1 : FlowOf(d)[q] \in DOMAIN d.items
  BY <1>1, <1>3 DEF Progress
<1>5. Progress(d)
  BY <1>1, <1>2, <1>3, <1>4, Zenon DEF Progress
<1> QED BY <1>3, <1>5, Zenon DEF d

LEMMA ResultKeepsProgress ==
    ASSUME Ordered, NEW c, Progress(c), NEW value, value.type \in ImageTypes
    PROVE  Progress(Visit(Store(c, ItemToRun(c), value)))
<1> DEFINE i == ItemToRun(c)
           d == Store(c, i, value)
<1>1. IsContext(c)
  BY DEF Progress
<1> HIDE DEF i
<1>2. Progress(d) /\ i \in DOMAIN d.items
  BY StoreKeepsProgress
<1>3. ItemToRun(d) = i
  BY <1>1, StoreFields, Zenon DEF i
<1> HIDE DEF d
<1>4. Progress(Visit(d))
  BY <1>2, <1>3, VisitKeepsProgress
<1> QED BY <1>4 DEF d, i

LEMMA FailureKeepsProgress ==
    ASSUME NEW c, Progress(c), NEW status \in {"failed", "silent"}
    PROVE  Progress([c EXCEPT !.status = status])
<1> DEFINE d == [c EXCEPT !.status = status]
<1>1. /\ IsContext(d)
      /\ d.call = c.call /\ d.id = c.id /\ d.last = c.last /\ d.items = c.items
      /\ d.at = c.at /\ d.status = status
      /\ FlowOf(d) = FlowOf(c)
  BY StatusFields DEF Progress
<1> HIDE DEF d
<1>2. status # "running" /\ status \in {"running", "done", "failed", "silent"}
  OBVIOUS
<1>3. Progress(d)
  BY <1>1, <1>2, Zenon DEF Progress
<1> QED BY <1>3 DEF d

LEMMA InputKeepsProgress ==
    ASSUME Ordered, NEW c, Progress(c), CallToRun(c).algorithm = "input", NEW d \in InputTask(c)
    PROVE  Progress(d)
<1> DEFINE s == CallToRun(c).source - 1
           image == Load(c, s)
<1>1. d = Visit(IF image = NoItem THEN c ELSE Store(c, ItemToRun(c), image))
  BY DEF InputTask
<1>2. CASE image = NoItem
  <2>1. s \notin DOMAIN c.items
    <3>1. NoItem.type \notin ImageTypes
      BY DEF NoItem, ImageTypes
    <3> HIDE DEF s
    <3> QED BY <1>2, <3>1 DEF Load, Progress
  <2>2. ~Imaged(c.call)
    <3>1. /\ ItemToRun(c) \in DOMAIN c.call.script
          /\ CallToRun(c) = c.call.script[ItemToRun(c)]
      BY PlaceInFlow
    <3>2. Imaged(c.call) => s \in DOMAIN Stored(c.call.types)
      BY <3>1 DEF Imaged, Fits
    <3> HIDE DEF s
    <3> QED BY <2>1, <3>2 DEF Progress
  <2>3. d = Visit(c)
    BY <1>1, <1>2
  <2> QED BY <2>2, <2>3, VisitKeepsProgress
<1>3. CASE image # NoItem
  <2>1. image.type \in ImageTypes
    BY <1>3 DEF Load, Progress
  <2>2. d = Visit(Store(c, ItemToRun(c), image))
    BY <1>1, <1>3
  <2> HIDE DEF image
  <2> QED BY <2>1, <2>2, ResultKeepsProgress
<1> QED BY <1>2, <1>3

LEMMA ImageTaskKeepsProgress ==
    ASSUME Ordered, NEW c, Progress(c), CallToRun(c).algorithm # "input", NEW d \in ImageTask(c)
    PROVE  Progress(d)
<1>1. CallToRun(c).algorithm \in Algorithms
  <2>1. /\ Earlier(c.call.script) /\ ItemToRun(c) \in DOMAIN c.call.script
        /\ CallToRun(c) = c.call.script[ItemToRun(c)]
    BY PlaceInFlow
  <2> QED BY <2>1 DEF Earlier
<1> DEFINE call == CallToRun(c)
           from == [k \in DOMAIN call.args |-> Load(c, call.args[k])]
           types == [k \in DOMAIN from |-> from[k].type]
           value == [type |-> Tasks[call.algorithm][types], of |-> call.algorithm, from |-> from]
<1>2. PICK outcome \in Outcomes(call.algorithm, types) : d = Ended(c, outcome, value)
  BY Zenon DEF ImageTask
<1>3. outcome \in {"stores", "throws", "silent"}
  BY <1>2 DEF Outcomes
<1>4. CASE outcome = "stores"
  <2>1. value.type \in ImageTypes
    <3>1. value.type = Tasks[call.algorithm][types]
      OBVIOUS
    <3> HIDE DEF types
    <3> QED BY <1>1, <1>2, <1>4, <3>1, TaskStoresImage
  <2>2. d = Visit(Store(c, ItemToRun(c), value))
    BY <1>2, <1>4 DEF Ended
  <2> HIDE DEF value
  <2> QED BY <2>1, <2>2, ResultKeepsProgress
<1>5. CASE outcome \in {"throws", "silent"}
  <2> HIDE DEF value, call, types
  <2>1. PICK status \in {"failed", "silent"} : d = [c EXCEPT !.status = status]
    BY <1>2, <1>5 DEF Ended
  <2> QED BY <2>1, FailureKeepsProgress
<1> QED BY <1>3, <1>4, <1>5

Evaluating ==
    /\ \A n \in DOMAIN context : Progress(context[n])
    /\ \A c \in converting : c.item.type \in ImageTypes
    /\ counter \in 0 .. MaxEvaluations

(* The invariant: scripts are compiled in order, evaluations on their way.     *)
Served == Tables /\ Ordered /\ Open /\ Evaluating

(* A record is in progress as long as its script stays where it is.            *)
LEMMA FlowNext ==
    ASSUME Ordered, NEW c, Progress(c),
           Len(compiled') \in Nat, Len(compiled) <= Len(compiled'),
           \A k \in DOMAIN compiled : compiled'[k] = compiled[k],
           NEW n, context'[n] = c
    PROVE  /\ c.id \in 0 .. Len(compiled') - 1
           /\ compiled'[c.id + 1] = compiled[c.id + 1]
           /\ FlowOf(context[n])' = FlowOf(c)
<1>1. c.id \in 0 .. Len(compiled) - 1 /\ c.id + 1 \in DOMAIN compiled
  BY DEF Progress, Ordered
<1>2. Len(compiled) \in Nat
  BY DEF Ordered
<1>3. c.id \in 0 .. Len(compiled') - 1
  BY <1>1, <1>2
<1>4. compiled'[c.id + 1] = compiled[c.id + 1]
  BY <1>1
<1>5. FlowOf(context[n])' = FlowOf(c)
  BY <1>4, Zenon DEF FlowOf
<1> QED BY <1>3, <1>4, <1>5

LEMMA ProgressNext ==
    ASSUME Ordered, NEW c, Progress(c),
           Len(compiled') \in Nat, Len(compiled) <= Len(compiled'),
           \A k \in DOMAIN compiled : compiled'[k] = compiled[k],
           NEW n, context'[n] = c
    PROVE  Progress(context[n])'
<1>1. /\ c.id \in 0 .. Len(compiled') - 1
      /\ compiled'[c.id + 1] = compiled[c.id + 1]
  BY FlowNext
<1>2. FlowOf(context[n])' = FlowOf(c)
  BY FlowNext
<1>3. IsContext(context[n])'
  BY Zenon DEF IsContext, Progress
<1> QED BY <1>1, <1>2, <1>3, Zenon DEF Progress

LEMMA CompileKeepsEvaluating ==
    ASSUME Entries, Ordered, Evaluating, NEW script \in Scripts, Compile(script)
    PROVE  Evaluating'
<1>1. /\ Len(compiled') \in Nat /\ Len(compiled) <= Len(compiled')
      /\ \A k \in DOMAIN compiled : compiled'[k] = compiled[k]
  BY CompileKeepsOrdered DEF Ordered
<1>2. UNCHANGED <<context, counter, converting>>
  BY DEF Compile
<1>3. \A n \in DOMAIN context' : Progress(context[n])'
  <2> SUFFICES ASSUME NEW n \in DOMAIN context' PROVE Progress(context[n])'
    OBVIOUS
  <2> DEFINE c == context[n]
  <2>1. Progress(c) /\ context'[n] = c
    BY <1>2 DEF Evaluating
  <2> HIDE DEF c
  <2> QED BY <1>1, <2>1, ProgressNext
<1> QED BY <1>2, <1>3 DEF Evaluating

(* What all other steps do: the scripts stay.                                  *)
LEMMA ScriptsStay ==
    ASSUME Ordered, UNCHANGED compiled,
           \A n \in DOMAIN context' : Progress(context'[n])
    PROVE  \A n \in DOMAIN context' : Progress(context[n])'
<1> SUFFICES ASSUME NEW n \in DOMAIN context' PROVE Progress(context[n])'
  OBVIOUS
<1>1. /\ Len(compiled') \in Nat /\ Len(compiled) <= Len(compiled')
      /\ \A k \in DOMAIN compiled : compiled'[k] = compiled[k]
  BY DEF Ordered
<1> DEFINE c == context'[n]
<1>2. Progress(c) /\ context'[n] = c
  OBVIOUS
<1> HIDE DEF c
<1> QED BY <1>1, <1>2, ProgressNext

LEMMA EvaluateKeepsEvaluating ==
    ASSUME Ordered, Evaluating, NEW types \in ImageSets, NEW convert \in BOOLEAN,
           NEW id \in 0 .. Len(compiled) - 1, Evaluate(id, types, convert)
    PROVE  Evaluating'
<1>1. UNCHANGED <<compiled, converting>> /\ counter < MaxEvaluations /\ counter' = counter + 1
  BY DEF Evaluate
<1>2. /\ DOMAIN context' = DOMAIN context \cup {counter}
      /\ \A n \in DOMAIN context : n # counter => context'[n] = context[n]
      /\ Progress(context'[counter])
  BY EvaluateStartsInProgress
<1>3. \A n \in DOMAIN context' : Progress(context'[n])
  BY <1>2, Zenon DEF Evaluating
<1>4. \A n \in DOMAIN context' : Progress(context[n])'
  BY <1>1, <1>3, ScriptsStay
<1>5. counter' \in 0 .. MaxEvaluations
  BY <1>1, BoundsAssumption DEF Evaluating
<1> QED BY <1>1, <1>4, <1>5 DEF Evaluating

LEMMA WorkKeepsEvaluating ==
    ASSUME Ordered, Evaluating, Work
    PROVE  Evaluating'
<1>1. ASSUME NEW n \in DOMAIN context, RunAlgorithm(n) PROVE Evaluating'
  <2> DEFINE c == context[n]
  <2>1. PICK d \in IF CallToRun(c).algorithm = "input" THEN InputTask(c) ELSE ImageTask(c) :
                context' = [context EXCEPT ![n] = d]
    BY <1>1 DEF RunAlgorithm
  <2>2. UNCHANGED <<compiled, converting, counter>>
    BY <1>1 DEF RunAlgorithm
  <2>3. Progress(c)
    BY DEF Evaluating
  <2> HIDE DEF c
  <2>4. Progress(d)
    BY <2>1, <2>3, InputKeepsProgress, ImageTaskKeepsProgress
  <2>5. \A m \in DOMAIN context' : m \in DOMAIN context /\ context'[m] = IF m = n THEN d ELSE context[m]
    BY <2>1
  <2>6. \A m \in DOMAIN context' : Progress(context'[m])
    BY <2>4, <2>5, Zenon DEF Evaluating
  <2> QED BY <2>2, <2>6, ScriptsStay DEF Evaluating
<1>2. ASSUME NEW n \in DOMAIN context, Finish(n) PROVE Evaluating'
  <2> DEFINE c == context[n]
             item == LoadResult(c)
  <2>1. /\ UNCHANGED <<compiled, counter>>
        /\ DOMAIN context' = DOMAIN context \ {n}
        /\ \A m \in DOMAIN context' : context'[m] = context[m]
    BY <1>2 DEF Finish, Erased
  <2>2. \A m \in DOMAIN context' : Progress(context'[m])
    BY <2>1, Zenon DEF Evaluating
  <2>3. item.type \in ImageTypes
    BY DEF LoadResult, Load, Evaluating, Progress
  <2>4. \A e \in converting' : e \in converting \/ e = [call |-> c.call, item |-> item]
    BY <1>2 DEF Finish
  <2>5. \A e \in converting' : e.item.type \in ImageTypes
    <3> HIDE DEF c, item
    <3> QED BY <2>3, <2>4 DEF Evaluating
  <2> QED BY <2>1, <2>2, <2>5, ScriptsStay DEF Evaluating
<1>3. ASSUME NEW c \in converting, FinishConversion(c) PROVE Evaluating'
  <2>1. UNCHANGED <<compiled, context, counter>> /\ converting' \subseteq converting
    BY <1>3 DEF FinishConversion
  <2>2. \A m \in DOMAIN context' : Progress(context'[m])
    BY <2>1 DEF Evaluating
  <2> QED BY <2>1, <2>2, ScriptsStay DEF Evaluating
<1> QED BY <1>1, <1>2, <1>3 DEF Work

LEMMA ServedKept ==
    ASSUME Served, [Next]_vars
    PROVE  Served'
<1>1. Tables' /\ Open'
  BY TablesKept, OpenKept DEF Served
<1>2. CASE \E script \in Scripts : Compile(script)
  <2>1. Ordered' /\ Evaluating'
    BY <1>2, CompileKeepsOrdered, CompileKeepsEvaluating DEF Served, Tables
  <2> QED BY <1>1, <2>1 DEF Served
<1>3. ASSUME UNCHANGED compiled PROVE Ordered'
  BY <1>3 DEF Served, Ordered
<1>4. ASSUME NEW types \in ImageSets, NEW convert \in BOOLEAN,
             NEW id \in 0 .. Len(compiled) - 1, Evaluate(id, types, convert)
      PROVE  Served'
  <2>1. Evaluating'
    BY <1>4, EvaluateKeepsEvaluating DEF Served
  <2>2. UNCHANGED compiled
    BY <1>4 DEF Evaluate
  <2> QED BY <1>1, <1>3, <2>1, <2>2 DEF Served
<1>5. ASSUME NEW types \in ImageSets, NEW convert \in BOOLEAN, EvaluateUnknown(types, convert)
      PROVE  Served'
  <2>1. UNCHANGED <<compiled, context, converting>> /\ counter < MaxEvaluations /\ counter' = counter + 1
    BY <1>5 DEF EvaluateUnknown
  <2>2. \A n \in DOMAIN context' : Progress(context'[n])
    BY <2>1 DEF Served, Evaluating
  <2>3. counter' \in 0 .. MaxEvaluations
    BY <2>1, BoundsAssumption DEF Served, Evaluating
  <2>4. Evaluating'
    BY <2>1, <2>2, <2>3, ScriptsStay DEF Served, Evaluating
  <2> QED BY <1>1, <1>3, <2>1, <2>4 DEF Served
<1>6. CASE Work
  <2>1. Evaluating'
    BY <1>6, WorkKeepsEvaluating DEF Served
  <2>2. UNCHANGED compiled
    BY <1>6 DEF Work, RunAlgorithm, Finish, FinishConversion
  <2> QED BY <1>1, <1>3, <2>1, <2>2 DEF Served
<1>7. CASE UNCHANGED vars
  <2>1. UNCHANGED <<compiled, context, converting, counter>>
    BY <1>7 DEF vars
  <2>2. \A n \in DOMAIN context' : Progress(context'[n])
    BY <2>1 DEF Served, Evaluating
  <2>3. Evaluating'
    BY <2>1, <2>2, ScriptsStay DEF Served, Evaluating
  <2> QED BY <1>1, <1>3, <2>1, <2>3 DEF Served
<1> QED BY <1>2, <1>4, <1>5, <1>6, <1>7 DEF Next

LEMMA ServedInitially == Init => Served
<1> SUFFICES ASSUME Init PROVE Served
  OBVIOUS
<1>1. Tables /\ Open
  BY TablesInitially, OpenInitially
<1>2. compiled = <<>> /\ DOMAIN context = {} /\ converting = {} /\ counter = 0
  BY DEF Init
<1>3. Ordered
  BY <1>2 DEF Ordered
<1>4. Evaluating
  BY <1>2, BoundsAssumption DEF Evaluating
<1> QED BY <1>1, <1>3, <1>4 DEF Served

(* The tables of the image processor fit together: an entry of the hashes      *)
(* leads to a script, a flow to items of its script, an evaluation to a call   *)
(* that was made, to a place of its flow and to a result that is an item, and  *)
(* what is converted is an image.                                              *)
THEOREM ProcessorTypeCorrect == Spec => []TypeOK
<1>1. Served => TypeOK
  <2> SUFFICES ASSUME Served PROVE TypeOK
    OBVIOUS
  <2>1. ASSUME NEW k \in DOMAIN compiled
        PROVE  Range(compiled[k].flow) \subseteq DOMAIN compiled[k].script
    <3> DEFINE S == DOMAIN compiled[k].script
               flow == compiled[k].flow
    <3>1. flow \in Seq(S)
      BY DEF Served, Ordered, InOrder
    <3> HIDE DEF S, flow
    <3>2. flow \in [1 .. Len(flow) -> S]
      BY <3>1, LenProperties
    <3>3. Range(flow) \subseteq S
      BY <3>2 DEF Range
    <3> QED BY <3>3 DEF S, flow
  <2>2. \A s \in DOMAIN hashes : hashes[s] + 1 \in DOMAIN compiled
    BY DEF Served, Tables, Hashed, Ordered
  <2>3. counter \in 0 .. MaxEvaluations
    BY DEF Served, Evaluating
  <2>4. ASSUME NEW n \in DOMAIN context
        PROVE  /\ n < counter
               /\ context[n].call \in asked
               /\ context[n].last \in DOMAIN context[n].items
               /\ context[n].at \in DOMAIN compiled[context[n].id + 1].flow
               /\ context[n].status \in {"running", "done", "failed", "silent"}
    <3>1. context[n].call \in asked /\ n < counter
      BY DEF Served, Open, Running, Numbered
    <3>2. Progress(context[n])
      BY DEF Served, Evaluating
    <3> QED BY <3>1, <3>2 DEF Progress, FlowOf
  <2>5. \A c \in converting : c.call \in asked /\ c.item.type \in ImageTypes
    BY DEF Served, Open, Converting, Evaluating
  <2> QED BY <2>1, <2>2, <2>3, <2>4, <2>5 DEF TypeOK
<1> QED BY <1>1, ServedInitially, ServedKept, PTL DEF Spec

(* The compiler puts the algorithms into an order in which every image an      *)
(* algorithm asks for comes before it, the destination of a resize_to among    *)
(* them if the script has it computed before.                                  *)
LEMMA ArgumentsComeBefore ==
    ASSUME Ordered, NEW c, Progress(c), DestinationsReady(c.call.script),
           NEW k \in DOMAIN CallToRun(c).args
    PROVE  \E q \in 1 .. c.at - 1 : FlowOf(c)[q] = CallToRun(c).args[k]
<1> DEFINE script == c.call.script
           flow == FlowOf(c)
           i == ItemToRun(c)
           arg == CallToRun(c).args[k]
<1>1. /\ Earlier(script) /\ flow \in InOrder(script)
      /\ Len(flow) \in Nat /\ DOMAIN flow = 1 .. Len(flow) /\ c.at \in 1 .. Len(flow)
      /\ i = flow[c.at] /\ i \in DOMAIN script
      /\ CallToRun(c) = script[i]
  BY PlaceInFlow
<1>2. DestinationsReady(script)
  OBVIOUS
<1> HIDE DEF script, flow, i
<1>3. \A j \in Needed(script, i) : \E q \in 1 .. c.at - 1 : flow[q] = j
  BY <1>1 DEF InOrder
<1>4. CASE script[i].algorithm # "resize_to"
  <2>1. arg \in Needed(script, i)
    BY <1>1, <1>4 DEF Needed, Links, Range
  <2> QED BY <1>3, <2>1 DEF flow
<1>5. CASE script[i].algorithm = "resize_to"
  <2>1. k \in 1 .. 2
    BY <1>1, <1>5 DEF Earlier
  <2> DEFINE source == script[i].args[1]
             destination == script[i].args[2]
  <2>2. source \in Needed(script, i)
    BY <1>5 DEF Needed, Links, Range
  <2>3. Needs(script, source, destination)
    BY <1>1, <1>2, <1>5 DEF DestinationsReady
  <2> HIDE DEF source, destination
  <2>4. PICK p \in 1 .. c.at - 1 : flow[p] = source
    BY <1>3, <2>2
  <2>5. p \in DOMAIN flow
    BY <1>1
  <2>6. PICK q \in 1 .. p : flow[q] = destination
    BY <1>1, <2>3, <2>4, <2>5, FlowHasNeeds
  <2>7. q \in 1 .. c.at - 1
    BY <1>1
  <2>8. arg \in {source, destination}
    BY <1>1, <2>1 DEF source, destination
  <2> QED BY <2>4, <2>6, <2>7, <2>8 DEF flow
<1> QED BY <1>4, <1>5

LEMMA ItemsAreThere ==
    ASSUME Ordered, NEW c, Progress(c), Promised(c.call), c.status = "running",
           NEW k \in DOMAIN CallToRun(c).args
    PROVE  CallToRun(c).args[k] \in DOMAIN c.items
<1>1. Imaged(c.call) /\ DestinationsReady(c.call.script)
  BY DEF Promised
<1>2. PICK q \in 1 .. c.at - 1 : FlowOf(c)[q] = CallToRun(c).args[k]
  BY <1>1, ArgumentsComeBefore
<1> QED BY <1>1, <1>2 DEF Progress

(* Whatever else is compiled and evaluated, an algorithm does not run before   *)
(* the images it gets are computed.                                            *)
THEOREM ArgumentsAreReady == Spec => []ArgumentsReady
<1>1. Served => ArgumentsReady
  <2> SUFFICES ASSUME Served, NEW n \in DOMAIN context,
                      Promised(context[n].call), context[n].status = "running",
                      NEW k \in DOMAIN CallToRun(context[n]).args
               PROVE  CallToRun(context[n]).args[k] \in DOMAIN context[n].items
    BY DEF ArgumentsReady
  <2>1. Ordered /\ Progress(context[n])
    BY DEF Served, Evaluating
  <2> QED BY <2>1, ItemsAreThere
<1> QED BY <1>1, ServedInitially, ServedKept, PTL DEF Spec

----------------------------------------------------------------------------
(* The values of a script that is evaluated, by its text alone.                *)
ValuesOf(call) == Values(call.script, Stored(call.types))
MeaningOf(call) == Meaning(call.script, Stored(call.types))

(* An evaluation that keeps what is promised: the items before the place of    *)
(* the executor have the values of the script, the images of the call are      *)
(* what they were unless an item has taken the place, and the end is right.    *)
Valued(c) ==
    Promised(c.call) =>
        /\ c.status = "running" =>
               /\ \A q \in 1 .. c.at - 1 : c.items[FlowOf(c)[q]] = ValuesOf(c.call)[FlowOf(c)[q]]
               /\ \A k \in DOMAIN Stored(c.call.types) :
                      \/ c.items[k] = Stored(c.call.types)[k]
                      \/ \E q \in 1 .. c.at - 1 : FlowOf(c)[q] = k
        /\ c.status = "done" => c.items[c.last] = MeaningOf(c.call)
        /\ c.status = "failed" =>
               \E j \in DOMAIN c.call.script : c.call.script[j].algorithm = "pooling"

LEMMA StartIsValued ==
    ASSUME NEW c, c.status = "running", c.at = 1, c.items = Stored(c.call.types)
    PROVE  Valued(c)
<1>1. \A q \in 1 .. c.at - 1 : FALSE
  OBVIOUS
<1>2. "running" # "done" /\ "running" # "failed"
  OBVIOUS
<1> QED BY <1>1, <1>2, Zenon DEF Valued

(* If the value of its item is stored, an evaluation goes on as it should.     *)
LEMMA ValueKeepsValued ==
    ASSUME Ordered, NEW c, Progress(c), Valued(c), Promised(c.call), c.status = "running",
           NEW value, value = ValuesOf(c.call)[ItemToRun(c)]
    PROVE  Valued(Visit(Store(c, ItemToRun(c), value)))
<1> DEFINE i == ItemToRun(c)
           d == Store(c, i, value)
           e == Visit(d)
           flow == FlowOf(c)
           n == Len(flow)
<1>1. IsContext(c)
  BY DEF Progress
<1>2. /\ IsContext(d)
      /\ d.call = c.call /\ d.id = c.id /\ d.last = i
      /\ d.at = c.at /\ d.status = c.status
      /\ DOMAIN d.items = DOMAIN c.items \cup {i} /\ d.items[i] = value
      /\ \A m \in DOMAIN c.items : m # i => d.items[m] = c.items[m]
      /\ FlowOf(d) = flow
  BY <1>1, StoreFields
<1>3. /\ n \in Nat /\ c.at \in 1 .. n /\ i = flow[c.at]
      /\ flow # <<>>
  <2>1. n \in Nat /\ c.at \in 1 .. n /\ i = flow[c.at] /\ DOMAIN flow = 1 .. n
    BY PlaceInFlow
  <2>2. flow # <<>>
    BY <2>1
  <2> QED BY <2>1, <2>2
<1> HIDE DEF d, n, i
<1>4. /\ e.call = c.call /\ e.last = i /\ e.items = d.items
      /\ c.at < n => e.at = c.at + 1 /\ e.status = "running"
      /\ ~(c.at < n) => e.status = "done"
      /\ FlowOf(e) = flow
  <2>1. /\ e.call = d.call /\ e.last = d.last /\ e.items = d.items
        /\ d.at < Len(FlowOf(d)) => e.at = d.at + 1 /\ e.status = d.status
        /\ ~(d.at < Len(FlowOf(d))) => e.status = "done"
        /\ FlowOf(e) = FlowOf(d)
    BY <1>2, VisitFields
  <2> HIDE DEF e, flow
  <2> QED BY <1>2, <2>1 DEF n
<1> HIDE DEF e, flow
<1>5. "running" # "done" /\ "running" # "failed" /\ "done" # "failed"
  OBVIOUS
<1>6. CASE c.at < n
  <2>1. c.at \in Nat /\ e.at - 1 = c.at /\ \A q \in 1 .. c.at : q \in 1 .. c.at - 1 \/ q = c.at
    BY <1>3, <1>4, <1>6
  <2>2. ASSUME NEW q \in 1 .. c.at PROVE e.items[flow[q]] = ValuesOf(c.call)[flow[q]]
    <3>1. CASE flow[q] = i
      BY <1>2, <1>4, <3>1 DEF i
    <3>2. CASE flow[q] # i
      <4>1. q \in 1 .. c.at - 1
        BY <1>3, <2>1, <3>2
      <4>2. flow[q] \in DOMAIN c.items
        BY <4>1 DEF Progress, Promised, flow
      <4>3. c.items[flow[q]] = ValuesOf(c.call)[flow[q]]
        BY <4>1 DEF Valued, flow
      <4> QED BY <1>2, <1>4, <3>2, <4>2, <4>3
    <3> QED BY <3>1, <3>2
  <2>3. ASSUME NEW k \in DOMAIN Stored(c.call.types)
        PROVE  e.items[k] = Stored(c.call.types)[k] \/ \E q \in 1 .. c.at : flow[q] = k
    <3>1. c.at \in 1 .. c.at /\ 1 .. c.at - 1 \subseteq 1 .. c.at
      BY <2>1, <1>3
    <3>2. CASE k = i
      BY <1>3, <3>1, <3>2
    <3>3. CASE k # i
      <4>1. k \in DOMAIN c.items
        BY DEF Progress, Promised
      <4>2. e.items[k] = c.items[k]
        BY <1>2, <1>4, <3>3, <4>1
      <4>3. c.items[k] = Stored(c.call.types)[k] \/ \E q \in 1 .. c.at - 1 : flow[q] = k
        BY DEF Valued, flow
      <4> QED BY <3>1, <4>2, <4>3
    <3> QED BY <3>2, <3>3
  <2>4. e.status = "running" /\ FlowOf(e) = flow /\ e.call = c.call
    BY <1>4, <1>6
  <2>5. \A q \in 1 .. e.at - 1 : e.items[FlowOf(e)[q]] = ValuesOf(e.call)[FlowOf(e)[q]]
    BY <2>1, <2>2, <2>4
  <2>6. \A k \in DOMAIN Stored(e.call.types) :
            e.items[k] = Stored(e.call.types)[k] \/ \E q \in 1 .. e.at - 1 : FlowOf(e)[q] = k
    BY <2>1, <2>3, <2>4
  <2>7. Valued(e)
    BY <1>5, <2>4, <2>5, <2>6, Zenon DEF Valued
  <2> QED BY <2>7 DEF e, d, i
<1>7. CASE ~(c.at < n)
  <2>1. c.at = n
    BY <1>3, <1>7
  <2>2. i = Result(c.call.script)
    <3>1. c.id + 1 \in DOMAIN compiled
      BY DEF Ordered, Progress
    <3>2. EndsWith(flow, Result(c.call.script))
      BY <1>3, <3>1 DEF Ordered, Progress, flow, FlowOf
    <3> QED BY <1>3, <2>1, <3>2 DEF EndsWith, n
  <2>3. e.items[e.last] = MeaningOf(c.call)
    <3>1. e.items[e.last] = ValuesOf(c.call)[i]
      BY <1>2, <1>4 DEF i
    <3> QED BY <2>2, <3>1, MeaningIs DEF ValuesOf, MeaningOf
  <2>4. e.status = "done" /\ e.call = c.call
    BY <1>4, <1>7
  <2>5. Valued(e)
    BY <1>5, <2>3, <2>4, Zenon DEF Valued
  <2> QED BY <2>5 DEF e, d, i
<1> QED BY <1>6, <1>7

(* input finds the image of the call, although an item may have its place.     *)
LEMMA InputIsRight ==
    ASSUME Ordered, NEW c, Progress(c), Valued(c), Promised(c.call), c.status = "running",
           CallToRun(c).algorithm = "input"
    PROVE  /\ Load(c, CallToRun(c).source - 1) # NoItem
           /\ Load(c, CallToRun(c).source - 1) = ValuesOf(c.call)[ItemToRun(c)]
<1> DEFINE s == CallToRun(c).source - 1
           i == ItemToRun(c)
           images == Stored(c.call.types)
           script == c.call.script
<1>1. Earlier(script) /\ i \in DOMAIN script /\ CallToRun(c) = script[i]
  BY PlaceInFlow
<1>2. Fits(script, images) /\ SecondImageKept(script) /\ Imaged(c.call)
  BY DEF Promised, Imaged
<1>3. s \in DOMAIN images /\ s = script[i].source - 1
  BY <1>1, <1>2 DEF Fits
<1>4. DOMAIN images \subseteq {0, 2}
  BY DEF Stored
<1>5. s \in DOMAIN c.items
  BY <1>2, <1>3 DEF Progress
<1> HIDE DEF s
<1>6. Load(c, s) = c.items[s] /\ Load(c, s).type \in ImageTypes
  BY <1>5 DEF Load, Progress
<1>7. Load(c, s) # NoItem
  BY <1>6 DEF NoItem, ImageTypes
<1>8. ValuesOf(c.call)[i] = images[s]
  BY <1>1, <1>3, ValuesAre, ZenonT(40) DEF ValuesOf, ValueAt
<1>9. c.items[s] = images[s]
  <2>1. CASE \E q \in 1 .. c.at - 1 : FlowOf(c)[q] = s
    <3>1. PICK q \in 1 .. c.at - 1 : FlowOf(c)[q] = s
      BY <2>1
    <3>2. s \in DOMAIN script
      <4> DEFINE flow == FlowOf(c)
                 S == DOMAIN script
      <4>1. /\ flow \in Seq(S) /\ Len(flow) \in Nat /\ DOMAIN flow = 1 .. Len(flow)
            /\ c.at \in 1 .. Len(flow)
        BY PlaceInFlow DEF InOrder
      <4> HIDE DEF flow, S
      <4>2. q \in 1 .. Len(flow) /\ flow \in [1 .. Len(flow) -> S]
        BY <4>1, LenProperties
      <4>3. flow[q] \in S
        BY <4>2
      <4> QED BY <3>1, <4>3 DEF flow, S
    <3>3. s = 2
      <4>1. 0 \notin DOMAIN script
        BY <1>1 DEF Earlier
      <4> HIDE DEF images, script
      <4> QED BY <1>3, <1>4, <3>2, <4>1
    <3>4. script[i].source = 3
      BY <1>1, <1>3, <3>3 DEF Earlier
    <3>5. script[2].algorithm = "input" /\ script[2].source = 3
      BY <1>1, <1>2, <3>4 DEF SecondImageKept
    <3>6. ValuesOf(c.call)[2] = images[2]
      <4>1. 2 \in DOMAIN script /\ 3 - 1 = 2
        BY <3>2, <3>3
      <4>2. ValuesOf(c.call)[2] = ValueAt(script, images, ValuesOf(c.call), 2)
        BY <1>1, <4>1, ValuesAre DEF ValuesOf
      <4> HIDE DEF images, script
      <4> QED BY <3>5, <4>1, <4>2 DEF ValueAt
    <3>7. c.items[s] = ValuesOf(c.call)[s]
      BY <3>1 DEF Valued
    <3> QED BY <3>3, <3>6, <3>7
  <2>2. CASE ~ \E q \in 1 .. c.at - 1 : FlowOf(c)[q] = s
    BY <1>3, <2>2 DEF Valued
  <2> QED BY <2>1, <2>2
<1> QED BY <1>6, <1>7, <1>8, <1>9 DEF s

(* The side of an algorithm that runs stores the type that the other side, at  *)
(* the parser, has registered.                                                 *)
LEMMA TaskAsParsed ==
    ASSUME NEW algorithm \in Algorithms, NEW types \in DOMAIN Tasks[algorithm]
    PROVE  Tasks[algorithm][types] = Parses[algorithm][types]
<1>1. CASE algorithm # "hog_image"
  BY <1>1 DEF Algorithms, Parses, Tasks, AndTask, OrTask, DiffTask, ConvertToGrayTask, ConvertToRgbTask,
         HistogramEqualizationTask, HogImageTask, BinaryThresholdTask, KMeansTask, MeanTask,
         MultiplyAddTask, PaintMetaTask, PoolingTask, ResizeTask, ScharrTask, SobelTask,
         ThresholdTask, ResizeToTask,
         AndParse, OrParse, DiffParse, ConvertToGrayParse, ConvertToRgbParse,
         HistogramEqualizationParse, HogImageParse, BinaryThresholdParse, KMeansParse, MeanParse,
         MultiplyAddParse, PaintMetaParse, PoolingParse, ResizeParse, ScharrParse, SobelParse,
         ThresholdParse, ResizeToParse
<1>2. CASE algorithm = "hog_image"
  <2>1. Tasks[algorithm] = HogImageTask /\ Parses[algorithm] = HogImageParse
    BY <1>2 DEF Tasks, Parses
  <2>2. types = <<"gray">> /\ <<"gray">> \in OneImage
    BY <2>1 DEF HogImageTask, ToType, OneImage, ImageTypes
  <2> QED BY <2>1, <2>2 DEF HogImageTask, HogImageParse, ToType
<1> QED BY <1>1, <1>2

LEMMA ArgumentValues ==
    ASSUME Ordered, NEW c, Progress(c), Valued(c), Promised(c.call), c.status = "running",
           NEW k \in DOMAIN CallToRun(c).args
    PROVE  /\ Load(c, CallToRun(c).args[k]) = ValuesOf(c.call)[CallToRun(c).args[k]]
           /\ Load(c, CallToRun(c).args[k]).type \in ImageTypes
<1> DEFINE arg == CallToRun(c).args[k]
<1>1. arg \in DOMAIN c.items
  BY ItemsAreThere
<1>2. \E q \in 1 .. c.at - 1 : FlowOf(c)[q] = arg
  BY ArgumentsComeBefore DEF Promised
<1> HIDE DEF arg
<1>3. Load(c, arg) = c.items[arg] /\ c.items[arg].type \in ImageTypes
  BY <1>1 DEF Load, Progress
<1>4. c.items[arg] = ValuesOf(c.call)[arg]
  BY <1>2 DEF Valued
<1> QED BY <1>3, <1>4 DEF arg

LEMMA ImageTaskIsRight ==
    ASSUME Ordered, NEW c, Progress(c), Valued(c), Promised(c.call), c.status = "running",
           CallToRun(c).algorithm # "input", NEW d \in ImageTask(c)
    PROVE  Valued(d)
<1> DEFINE call == CallToRun(c)
           i == ItemToRun(c)
           V == ValuesOf(c.call)
           from == [k \in DOMAIN call.args |-> Load(c, call.args[k])]
           types == [k \in DOMAIN from |-> from[k].type]
           value == [type |-> Tasks[call.algorithm][types], of |-> call.algorithm, from |-> from]
<1>1. /\ Earlier(c.call.script) /\ i \in DOMAIN c.call.script /\ call = c.call.script[i]
      /\ call.algorithm \in Algorithms
  <2>1. Earlier(c.call.script) /\ i \in DOMAIN c.call.script /\ call = c.call.script[i]
    BY PlaceInFlow
  <2> QED BY <2>1 DEF Earlier
<1>2. PICK outcome \in Outcomes(call.algorithm, types) : d = Ended(c, outcome, value)
  BY Zenon DEF ImageTask
<1>3. outcome \in {"stores", "throws", "silent"}
  BY <1>2 DEF Outcomes
<1>4. /\ DOMAIN types = DOMAIN call.args
      /\ \A k \in DOMAIN call.args :
             types[k] = Load(c, call.args[k]).type /\ types[k] = V[call.args[k]].type /\ types[k] \in ImageTypes
  <2>1. \A k \in DOMAIN call.args : types[k] = Load(c, call.args[k]).type
    OBVIOUS
  <2>2. DOMAIN types = DOMAIN call.args
    OBVIOUS
  <2> HIDE DEF types
  <2> QED BY <2>1, <2>2, ArgumentValues
<1>5. CASE outcome = "stores"
  <2>1. types \in DOMAIN Tasks[call.algorithm]
    <3> HIDE DEF types
    <3> QED BY <1>2, <1>5 DEF Outcomes
  <2>2. from = [k \in DOMAIN call.args |-> V[call.args[k]]]
    <3>1. \A k \in DOMAIN call.args : Load(c, call.args[k]) = V[call.args[k]]
      BY ArgumentValues
    <3> HIDE DEF V
    <3> QED BY <3>1
  <2>3. value = V[i]
    <3>1. V[i] = Applied(call.algorithm, [k \in DOMAIN call.args |-> V[call.args[k]]])
      <4>1. V[i] = ValueAt(c.call.script, Stored(c.call.types), V, i)
        BY <1>1, ValuesAre DEF ValuesOf
      <4> HIDE DEF V
      <4> QED BY <1>1, <4>1 DEF ValueAt
    <3>2. Tasks[call.algorithm][types] = Parses[call.algorithm][types]
      <4> HIDE DEF types
      <4> QED BY <1>1, <2>1, TaskAsParsed
    <3>3. V[i] = Applied(call.algorithm, from)
      <4> HIDE DEF from, V
      <4> QED BY <2>2, <3>1
    <3>4. Applied(call.algorithm, from) =
              [type |-> Parses[call.algorithm][types], of |-> call.algorithm, from |-> from]
      BY Zenon DEF Applied
    <3> HIDE DEF from, types, V
    <3> QED BY <3>2, <3>3, <3>4
  <2>4. d = Visit(Store(c, i, value))
    BY <1>2, <1>5 DEF Ended
  <2> HIDE DEF value, V
  <2> QED BY <2>3, <2>4, ValueKeepsValued DEF V
<1>6. CASE outcome = "throws"
  <2> HIDE DEF types, value
  <2>1. call.algorithm # "resize_to" \/ types[2] \in ImageTypes
    <3>1. call.algorithm = "resize_to" => 2 \in DOMAIN call.args
      BY <1>1 DEF Earlier
    <3> QED BY <1>4, <3>1
  <2>2. ~(call.algorithm = "hog_image" /\ types = <<"rgb">>)
    <3> SUFFICES ASSUME call.algorithm = "hog_image", types = <<"rgb">> PROVE FALSE
      OBVIOUS
    <3>1. 1 \in DOMAIN call.args /\ types[1] = "rgb"
      BY <1>4
    <3> DEFINE arg == call.args[1]
    <3>2. arg \in DOMAIN c.call.script
      BY <1>1, <3>1, ArgumentsAreEarlier
    <3>3. TypesOfItems(c.call.script)[arg] = "gray"
      BY <1>1 DEF Promised, HogImagesGray
    <3>4. V[arg].type = TypesOfItems(c.call.script)[arg]
      BY <1>1, <3>2, TypesOfValues DEF Promised, Imaged, ValuesOf
    <3> QED BY <1>4, <3>1, <3>3, <3>4
  <2>3. call.algorithm = "pooling"
    BY <1>2, <1>6, <2>1, <2>2 DEF Outcomes
  <2>4. d = [c EXCEPT !.status = "failed"]
    BY <1>2, <1>6 DEF Ended
  <2>5. IsContext(c)
    BY DEF Progress
  <2>6. d.call = c.call /\ d.status = "failed"
    BY <2>4, <2>5 DEF IsContext
  <2>7. "failed" # "running" /\ "failed" # "done"
    OBVIOUS
  <2>8. \E j \in DOMAIN c.call.script : c.call.script[j].algorithm = "pooling"
    BY <1>1, <2>3
  <2> QED BY <2>6, <2>7, <2>8, Zenon DEF Valued
<1>7. CASE outcome = "silent"
  <2> HIDE DEF types, value
  <2>1. d = [c EXCEPT !.status = "silent"]
    BY <1>2, <1>7 DEF Ended
  <2>2. IsContext(c)
    BY DEF Progress
  <2>3. d.call = c.call /\ d.status = "silent"
    BY <2>1, <2>2 DEF IsContext
  <2>4. "silent" # "running" /\ "silent" # "done" /\ "silent" # "failed"
    OBVIOUS
  <2> QED BY <2>3, <2>4, Zenon DEF Valued
<1> QED BY <1>3, <1>5, <1>6, <1>7

LEMMA InputTaskIsRight ==
    ASSUME Ordered, NEW c, Progress(c), Valued(c), Promised(c.call), c.status = "running",
           CallToRun(c).algorithm = "input", NEW d \in InputTask(c)
    PROVE  Valued(d)
<1> DEFINE image == Load(c, CallToRun(c).source - 1)
<1>1. image # NoItem /\ image = ValuesOf(c.call)[ItemToRun(c)]
  BY InputIsRight
<1>2. d = Visit(Store(c, ItemToRun(c), image))
  BY <1>1 DEF InputTask
<1> HIDE DEF image
<1> QED BY <1>1, <1>2, ValueKeepsValued

LEMMA TaskIsRight ==
    ASSUME Ordered, NEW n \in DOMAIN context, Progress(context[n]), Valued(context[n]),
           context[n].status = "running",
           NEW d \in IF CallToRun(context[n]).algorithm = "input"
                     THEN InputTask(context[n]) ELSE ImageTask(context[n])
    PROVE  Valued(d)
<1>1. CASE ~ Promised(context[n].call)
  <2>1. "call" \in DOMAIN context[n]
    BY DEF Progress, IsContext
  <2>2. d.call = context[n].call
    BY <2>1, OutcomeIsForTheCall
  <2> QED BY <1>1, <2>2 DEF Valued
<1>2. CASE Promised(context[n].call)
  <2> DEFINE c == context[n]
  <2>1. /\ Progress(c) /\ Valued(c) /\ Promised(c.call) /\ c.status = "running"
        /\ d \in IF CallToRun(c).algorithm = "input" THEN InputTask(c) ELSE ImageTask(c)
    BY <1>2
  <2> HIDE DEF c
  <2> QED BY <2>1, InputTaskIsRight, ImageTaskIsRight
<1> QED BY <1>1, <1>2

(* What is promised for all evaluations and conversions on their way.          *)
Answering ==
    /\ \A n \in DOMAIN context : Valued(context[n])
    /\ \A e \in converting :
           /\ e.call.script # <<>>
           /\ Promised(e.call) => e.item = MeaningOf(e.call) /\ NeedsConversion(e.call, e.item)

LEMMA ValuedNext ==
    ASSUME Ordered, NEW c, Progress(c), Valued(c),
           Len(compiled') \in Nat, Len(compiled) <= Len(compiled'),
           \A k \in DOMAIN compiled : compiled'[k] = compiled[k],
           NEW n, context'[n] = c
    PROVE  Valued(context[n])'
<1>1. FlowOf(context[n])' = FlowOf(c)
  BY FlowNext
<1> QED BY <1>1, ZenonT(40) DEF Valued

LEMMA AllValuedNext ==
    ASSUME Ordered, Len(compiled') \in Nat, Len(compiled) <= Len(compiled'),
           \A k \in DOMAIN compiled : compiled'[k] = compiled[k],
           \A n \in DOMAIN context' : Progress(context'[n]) /\ Valued(context'[n])
    PROVE  \A n \in DOMAIN context' : Valued(context[n])'
<1> SUFFICES ASSUME NEW n \in DOMAIN context' PROVE Valued(context[n])'
  OBVIOUS
<1> DEFINE c == context'[n]
<1>1. Progress(c) /\ Valued(c) /\ context'[n] = c
  OBVIOUS
<1> HIDE DEF c
<1> QED BY <1>1, ValuedNext

LEMMA ScriptIsThere ==
    ASSUME Ordered, NEW c, Progress(c)
    PROVE  c.call.script # <<>> /\ LoadResult(c) = c.items[c.last]
<1>1. c.id + 1 \in DOMAIN compiled
  BY DEF Ordered, Progress
<1>2. c.call.script # <<>>
  BY <1>1 DEF Ordered, Progress
<1>3. LoadResult(c) = c.items[c.last]
  BY DEF LoadResult, Load, Progress
<1> QED BY <1>2, <1>3

LEMMA FinishKeepsAnswering ==
    ASSUME Ordered, Evaluating, Answering, NEW n \in DOMAIN context, Finish(n)
    PROVE  Answering'
<1> DEFINE c == context[n]
           item == LoadResult(c)
           new == [call |-> c.call, item |-> item]
<1>1. /\ UNCHANGED compiled
      /\ DOMAIN context' = DOMAIN context \ {n}
      /\ \A m \in DOMAIN context' : context'[m] = context[m]
  BY DEF Finish, Erased
<1>2. \A m \in DOMAIN context' : Progress(context'[m]) /\ Valued(context'[m])
  BY <1>1, Zenon DEF Evaluating, Answering
<1>3. \A m \in DOMAIN context' : Valued(context[m])'
  BY <1>1, <1>2, AllValuedNext DEF Ordered
<1>4. /\ converting' \subseteq converting \cup {new}
      /\ new \in converting' \ converting => c.status = "done" /\ NeedsConversion(c.call, item)
  BY DEF Finish
<1>5. Progress(c) /\ Valued(c)
  BY DEF Evaluating, Answering
<1>6. new.call = c.call /\ new.item = item
  OBVIOUS
<1> HIDE DEF c
<1>7. c.call.script # <<>> /\ item = c.items[c.last]
  BY <1>5, ScriptIsThere
<1> HIDE DEF item, new
<1>8. ASSUME NEW e \in converting'
      PROVE  /\ e.call.script # <<>>
             /\ Promised(e.call) => e.item = MeaningOf(e.call) /\ NeedsConversion(e.call, e.item)
  <2>1. CASE e \in converting
    BY <2>1 DEF Answering
  <2>2. CASE e \notin converting
    <3>1. e = new /\ c.status = "done" /\ NeedsConversion(c.call, item)
      BY <1>4, <2>2
    <3>2. Promised(c.call) => item = MeaningOf(c.call)
      BY <1>5, <1>7, <3>1 DEF Valued
    <3> QED BY <1>6, <1>7, <3>1, <3>2
  <2> QED BY <2>1, <2>2
<1>9. \A e \in converting' :
          /\ e.call.script # <<>>
          /\ Promised(e.call) => e.item = MeaningOf(e.call) /\ NeedsConversion(e.call, e.item)
  BY <1>8
<1> QED BY <1>3, <1>9, Zenon DEF Answering

LEMMA AnsweringKept ==
    ASSUME Served, Answering, [Next]_vars
    PROVE  Answering'
<1>0. Ordered /\ Evaluating /\ Entries
  BY DEF Served, Tables
<1>a. ASSUME UNCHANGED <<compiled, converting>>,
             \A n \in DOMAIN context' : Progress(context'[n]) /\ Valued(context'[n])
      PROVE  Answering'
  <2>1. \A n \in DOMAIN context' : Valued(context[n])'
    BY <1>0, <1>a, AllValuedNext DEF Ordered
  <2> QED BY <1>a, <2>1 DEF Answering
<1>1. ASSUME NEW script \in Scripts, Compile(script) PROVE Answering'
  <2>1. /\ Len(compiled') \in Nat /\ Len(compiled) <= Len(compiled')
        /\ \A k \in DOMAIN compiled : compiled'[k] = compiled[k]
    BY <1>0, <1>1, CompileKeepsOrdered DEF Ordered
  <2>2. UNCHANGED <<context, converting>>
    BY <1>1 DEF Compile
  <2>3. \A n \in DOMAIN context' : Progress(context'[n]) /\ Valued(context'[n])
    BY <1>0, <2>2 DEF Evaluating, Answering
  <2>4. \A n \in DOMAIN context' : Valued(context[n])'
    BY <1>0, <2>1, <2>3, AllValuedNext
  <2> QED BY <2>2, <2>4 DEF Answering
<1>2. ASSUME NEW types \in ImageSets, NEW convert \in BOOLEAN,
             NEW id \in 0 .. Len(compiled) - 1, Evaluate(id, types, convert)
      PROVE  Answering'
  <2>1. /\ DOMAIN context' = DOMAIN context \cup {counter}
        /\ \A n \in DOMAIN context : n # counter => context'[n] = context[n]
        /\ Progress(context'[counter])
    BY <1>0, <1>2, EvaluateStartsInProgress
  <2>2. UNCHANGED <<compiled, converting>>
    BY <1>2 DEF Evaluate
  <2>3. Valued(context'[counter])
    <3> DEFINE c == context'[counter]
    <3>1. c.status = "running" /\ c.at = 1 /\ c.items = Stored(c.call.types)
      BY <1>2 DEF Evaluate
    <3> HIDE DEF c
    <3>2. Valued(c)
      BY <3>1, StartIsValued
    <3> QED BY <3>2 DEF c
  <2>4. \A n \in DOMAIN context' : Progress(context'[n]) /\ Valued(context'[n])
    BY <1>0, <2>1, <2>3, Zenon DEF Evaluating, Answering
  <2> QED BY <1>a, <2>2, <2>4
<1>3. ASSUME NEW types, NEW convert, EvaluateUnknown(types, convert)
      PROVE  Answering'
  <2>1. UNCHANGED <<compiled, context, converting>>
    BY <1>3 DEF EvaluateUnknown
  <2>2. \A n \in DOMAIN context' : Progress(context'[n]) /\ Valued(context'[n])
    BY <1>0, <2>1 DEF Evaluating, Answering
  <2> QED BY <1>a, <2>1, <2>2
<1>4. ASSUME NEW n \in DOMAIN context, RunAlgorithm(n) PROVE Answering'
  <2>1. PICK d \in IF CallToRun(context[n]).algorithm = "input"
                   THEN InputTask(context[n]) ELSE ImageTask(context[n]) :
                context' = [context EXCEPT ![n] = d]
    BY <1>4 DEF RunAlgorithm
  <2>2. UNCHANGED <<compiled, converting>> /\ context[n].status = "running"
    BY <1>4 DEF RunAlgorithm
  <2>3. Progress(context[n]) /\ Valued(context[n])
    BY <1>0 DEF Evaluating, Answering
  <2>4. Valued(d)
    BY <1>0, <2>1, <2>2, <2>3, TaskIsRight
  <2>5. Progress(d)
    <3> DEFINE c == context[n]
    <3>1. Progress(c) /\ d \in IF CallToRun(c).algorithm = "input" THEN InputTask(c) ELSE ImageTask(c)
      BY <2>1, <2>3
    <3> HIDE DEF c
    <3> QED BY <1>0, <3>1, InputKeepsProgress, ImageTaskKeepsProgress
  <2>6. \A m \in DOMAIN context' : m \in DOMAIN context /\ context'[m] = IF m = n THEN d ELSE context[m]
    BY <2>1
  <2>7. \A m \in DOMAIN context' : Progress(context'[m]) /\ Valued(context'[m])
    BY <1>0, <2>4, <2>5, <2>6, Zenon DEF Evaluating, Answering
  <2> QED BY <1>a, <2>2, <2>7
<1>5. ASSUME NEW n \in DOMAIN context, Finish(n) PROVE Answering'
  BY <1>0, <1>5, FinishKeepsAnswering
<1>6. ASSUME NEW c \in converting, FinishConversion(c) PROVE Answering'
  <2>1. UNCHANGED <<compiled, context>> /\ converting' \subseteq converting
    BY <1>6 DEF FinishConversion
  <2>2. \A m \in DOMAIN context' : Progress(context'[m]) /\ Valued(context'[m])
    BY <1>0, <2>1 DEF Evaluating, Answering
  <2>3. \A m \in DOMAIN context' : Valued(context[m])'
    BY <1>0, <2>1, <2>2, AllValuedNext DEF Ordered
  <2>4. \A e \in converting' :
            /\ e.call.script # <<>>
            /\ Promised(e.call) => e.item = MeaningOf(e.call) /\ NeedsConversion(e.call, e.item)
    BY <2>1 DEF Answering
  <2> QED BY <2>3, <2>4, Zenon DEF Answering
<1>7. CASE UNCHANGED vars
  <2>1. UNCHANGED <<compiled, context, converting>>
    BY <1>7 DEF vars
  <2>2. \A n \in DOMAIN context' : Progress(context'[n]) /\ Valued(context'[n])
    BY <1>0, <2>1 DEF Evaluating, Answering
  <2> QED BY <1>a, <2>1, <2>2
<1> QED BY <1>1, <1>2, <1>3, <1>4, <1>5, <1>6, <1>7 DEF Next, Work

(* The answer of an evaluation that has come to its end.                       *)
LEMMA AnswerIsCorrect ==
    ASSUME Ordered, NEW c, Progress(c), Valued(c), c.status \in {"done", "failed"},
           ~ (c.status = "done" /\ NeedsConversion(c.call, LoadResult(c))),
           CorrectAnswers(c.call) # {}
    PROVE  (IF c.status = "done" THEN LoadResult(c) ELSE Error) \in CorrectAnswers(c.call)
<1>1. c.call.script # <<>> /\ LoadResult(c) = c.items[c.last]
  BY ScriptIsThere
<1>2. Promised(c.call)
  BY <1>1 DEF CorrectAnswers
<1>3. CorrectAnswers(c.call) =
          {IF NeedsConversion(c.call, MeaningOf(c.call)) THEN Converted(MeaningOf(c.call)) ELSE MeaningOf(c.call)}
              \cup {Error : i \in {j \in DOMAIN c.call.script : c.call.script[j].algorithm = "pooling"}}
  BY <1>1, <1>2 DEF CorrectAnswers, MeaningOf
<1>4. CASE c.status = "done"
  <2>1. LoadResult(c) = MeaningOf(c.call)
    BY <1>1, <1>2, <1>4 DEF Valued
  <2> QED BY <1>3, <1>4, <2>1
<1>5. CASE c.status = "failed"
  <2>1. \E j \in DOMAIN c.call.script : c.call.script[j].algorithm = "pooling"
    BY <1>2, <1>5 DEF Valued
  <2>2. c.status # "done"
    BY <1>5
  <2> QED BY <1>3, <2>1, <2>2
<1> QED BY <1>4, <1>5

LEMMA ConvertedIsCorrect ==
    ASSUME Answering, NEW e \in converting, CorrectAnswers(e.call) # {}
    PROVE  Converted(e.item) \in CorrectAnswers(e.call)
<1>1. e.call.script # <<>>
  BY DEF Answering
<1>2. Promised(e.call)
  BY <1>1 DEF CorrectAnswers
<1>3. e.item = MeaningOf(e.call) /\ NeedsConversion(e.call, MeaningOf(e.call))
  BY <1>2 DEF Answering
<1> QED BY <1>1, <1>2, <1>3 DEF CorrectAnswers, MeaningOf

(* A step of the image processor is a step of what its callers rely on.        *)
LEMMA AnsweredIsAnswer ==
    ASSUME NEW call \in asked', asked \subseteq asked', call \notin DOMAIN answered,
           NEW answer, Answered(call, answer),
           CorrectAnswers(call) # {} => answer \in CorrectAnswers(call)
    PROVE  Service!Next
<1>1. /\ DOMAIN answered' = DOMAIN answered \cup {call}
      /\ answered'[call] = answer
      /\ \A c \in DOMAIN answered : answered'[c] = answered[c]
  BY DEF Answered
<1> QED BY <1>1 DEF Service!Next, Service!Answer

LEMMA StepIsServiceStep ==
    ASSUME Served, Answering, [Next]_vars
    PROVE  [Service!Next]_(Service!vars)
<1>0. Ordered /\ Evaluating /\ Open
  BY DEF Served
<1>1. ASSUME UNCHANGED <<asked, answered>> PROVE UNCHANGED Service!vars
  BY <1>1 DEF Service!vars
<1>2. ASSUME NEW types \in ImageSets, NEW convert \in BOOLEAN,
             NEW id \in 0 .. Len(compiled) - 1, Evaluate(id, types, convert)
      PROVE  Service!Next
  BY <1>2 DEF Evaluate, Service!Next, Service!Ask
<1>3. ASSUME NEW types, NEW convert, EvaluateUnknown(types, convert)
      PROVE  Service!Next
  <2> DEFINE call == [number |-> counter, script |-> <<>>, types |-> types, convert |-> convert]
  <2>1. asked' = asked \cup {call} /\ Answered(call, Error)
    BY <1>3 DEF EvaluateUnknown
  <2>2. call.number = counter /\ call.script = <<>>
    OBVIOUS
  <2> HIDE DEF call
  <2>3. call \notin DOMAIN answered
    BY <1>0, <2>2 DEF Open, Numbered
  <2>4. Error \in CorrectAnswers(call)
    BY <2>2 DEF CorrectAnswers
  <2> QED BY <2>1, <2>3, <2>4, AnsweredIsAnswer
<1>4. ASSUME NEW n \in DOMAIN context, Finish(n)
      PROVE  Service!Next \/ UNCHANGED Service!vars
  <2> DEFINE c == context[n]
             answer == IF c.status = "done" THEN LoadResult(c) ELSE Error
  <2>1. /\ UNCHANGED asked /\ c.status \in {"done", "failed"}
        /\ \/ UNCHANGED answered
           \/ /\ ~ (c.status = "done" /\ NeedsConversion(c.call, LoadResult(c)))
              /\ Answered(c.call, answer)
    BY <1>4 DEF Finish
  <2>2. c.call \in asked /\ c.call \notin DOMAIN answered
    BY <1>0 DEF Open, Running
  <2>3. Progress(c) /\ Valued(c)
    BY <1>0 DEF Evaluating, Answering
  <2>4. CASE UNCHANGED answered
    BY <1>1, <2>1, <2>4
  <2> HIDE DEF c
  <2>5. CASE /\ ~ (c.status = "done" /\ NeedsConversion(c.call, LoadResult(c)))
             /\ Answered(c.call, answer)
    <3>1. CorrectAnswers(c.call) # {} => answer \in CorrectAnswers(c.call)
      BY <1>0, <2>1, <2>3, <2>5, AnswerIsCorrect
    <3> HIDE DEF answer
    <3>2. c.call \in asked' /\ asked \subseteq asked'
      BY <2>1, <2>2
    <3> QED BY <2>2, <2>5, <3>1, <3>2, AnsweredIsAnswer
  <2> QED BY <2>1, <2>4, <2>5
<1>5. ASSUME NEW e \in converting, FinishConversion(e) PROVE Service!Next
  <2>1. Answered(e.call, Converted(e.item)) /\ UNCHANGED asked
    BY <1>5 DEF FinishConversion
  <2>2. e.call \in asked /\ e.call \notin DOMAIN answered
    BY <1>0 DEF Open, Converting
  <2>3. CorrectAnswers(e.call) # {} => Converted(e.item) \in CorrectAnswers(e.call)
    BY ConvertedIsCorrect
  <2>4. e.call \in asked' /\ asked \subseteq asked'
    BY <2>1, <2>2
  <2> QED BY <2>1, <2>2, <2>3, <2>4, AnsweredIsAnswer
<1>6. \/ UNCHANGED <<asked, answered>>
      \/ \E types \in ImageSets, convert \in BOOLEAN :
             \/ \E id \in 0 .. Len(compiled) - 1 : Evaluate(id, types, convert)
             \/ EvaluateUnknown(types, convert)
      \/ \E n \in DOMAIN context : Finish(n)
      \/ \E e \in converting : FinishConversion(e)
  BY DEF Next, vars, Work, Compile, RunAlgorithm
<1> QED BY <1>1, <1>2, <1>3, <1>4, <1>5, <1>6

(* Whatever scripts are compiled, in whichever order the compiler puts their   *)
(* algorithms, and whatever else is evaluated at the same time: a call is      *)
(* answered once, and with the value that the text of its script has for its   *)
(* images, or with an error if pooling threw or the compile id was unknown.    *)
THEOREM ProcessorImplementsEvaluations == Spec => ImplementsEvaluations
<1>1. Init => Service!Init
  BY DEF Init, Service!Init
<1>2. Init => Served /\ Answering
  <2>1. Init => Answering
    BY DEF Init, Answering
  <2> QED BY <2>1, ServedInitially
<1>3. Served /\ Answering /\ [Next]_vars => Served' /\ Answering'
  BY ServedKept, AnsweringKept
<1>4. Served /\ Answering /\ [Next]_vars => [Service!Next]_(Service!vars)
  BY StepIsServiceStep
<1> QED BY <1>1, <1>2, <1>3, <1>4, PTL DEF Spec, ImplementsEvaluations, Service!Spec

=============================================================================
