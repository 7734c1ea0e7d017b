------------------------- MODULE SurveyFieldsProofs -------------------------
(***************************************************************************)
(* Conditions keep their meaning and no question disappears, for surveys   *)
(* of any size and expressions of any depth.                               *)
(*                                                                         *)
(* The parser, the meaning of expressions and that of conditions are       *)
(* recursive functions: Recursion says that they exist, and what they say  *)
(* of an expression follows from what they say of its operands, which are  *)
(* shorter texts.                                                          *)
(***************************************************************************)
EXTENDS SurveyFields, ReferenceIndexProofs

USE DEF unconditional, unread

----------------------------------------------------------------------------
(***************************************************************************)
(* The recursions over expressions, one step of each                       *)
(***************************************************************************)
\* The context of the parser is the index and the current question.
parsedNext(context, parsed, e) ==
  CASE e.op \in unconditional -> Always
    [] e.op = "never" -> Translated([type |-> Str("constant"), value |-> Bool(FALSE)])
    [] isLeaf(e) -> translateLeaf(e, context[1], context[2])
    [] e.op = "not" ->
         IF parsed[e.operand].ok
         THEN Translated([type |-> Str("not"), condition |-> _required(parsed[e.operand])])
         ELSE Unsupported
    [] OTHER ->
         IF \E d \in operandsOf(e) : ~parsed[d].ok THEN Unsupported
         ELSE Translated([type |-> Str(e.op),
                          conditions |-> Arr([i \in DOMAIN e.operands |-> _required(parsed[e.operands[i]])])])

insideNext(context, inside, e) == {e} \cup UNION {inside[d] : d \in operandsOf(e)}

\* What holds is a part of the context here and below.
holdsNext(context, value, e) ==
  CASE e.op \in unconditional -> TRUE
    [] e.op = "never" -> FALSE
    [] isLeaf(e) -> translateLeaf(e, context[1], context[2]).condition \in context[3]
    [] e.op = "not" -> ~value[e.operand]
    [] e.op = "any" -> \E d \in operandsOf(e) : value[d]
    [] OTHER -> \A d \in operandsOf(e) : value[d]

conditionNext(context, value, c) ==
  CASE TextOf(c, "type") \notin {"constant", "any", "all", "not"} -> c \in context
    [] TextOf(c, "type") = "constant" -> Get(c, "value") = Bool(TRUE)
    [] TextOf(c, "type") = "not" -> ~value[Get(c, "condition")]
    [] TextOf(c, "type") = "any" -> \E p \in partsOf(c) : value[p]
    [] OTHER -> \A p \in partsOf(c) : value[p]

Parsing == INSTANCE Recursion WITH Body <- parsedNext
Gathering == INSTANCE Recursion WITH Body <- insideNext
Holding == INSTANCE Recursion WITH Body <- holdsNext
Judging == INSTANCE Recursion WITH Body <- conditionNext

\* The recursion of FlattenSeq, over the places of the lists.
flattenNext(lists, flat, k) == IF k = 1 THEN lists[k] ELSE flat[k - 1] \o lists[k]

Flattening == INSTANCE Recursion WITH Body <- flattenNext

\* The rank of an expression.
lengths == [e \in Expressions |-> TextLength(e)]

LEMMA Lengths ==
  /\ lengths \in [Expressions -> Nat]
  /\ \A e \in Expressions : \A d \in operandsOf(e) : d \in Expressions /\ lengths[d] < lengths[e]
<1>1. \A e \in Expressions : TextLength(e) \in Nat
  BY ExpressionsAssumption
<1>2. lengths \in [Expressions -> Nat] /\ \A e \in Expressions : lengths[e] = TextLength(e)
  BY <1>1 DEF lengths
<1>3. \A e \in Expressions : \A d \in operandsOf(e) : d \in Expressions /\ TextLength(d) < TextLength(e)
  BY ExpressionsAssumption
<1> QED BY <1>2, <1>3

\* The operands by their places.
LEMMA Operands ==
  ASSUME NEW e \in Expressions
  PROVE  /\ e.op \in unconditional \cup {"never", "any", "all", "not"} \cup leafOperators
         /\ e.op \in {"any", "all"} => /\ operandsOf(e) = {e.operands[i] : i \in DOMAIN e.operands}
                                       /\ \A i \in DOMAIN e.operands : e.operands[i] \in operandsOf(e)
         /\ e.op = "not" => operandsOf(e) = {e.operand}
         /\ e.op \notin {"any", "all", "not"} => operandsOf(e) = {}
<1>1. e.op \in {"any", "all"} => operandsOf(e) = {e.operands[i] : i \in DOMAIN e.operands}
  BY DEF operandsOf
<1>2. e.op = "not" => operandsOf(e) = {e.operand}
  BY DEF operandsOf
<1>3. e.op \notin {"any", "all", "not"} => operandsOf(e) = {}
  BY DEF operandsOf
<1>4. e.op \in unconditional \cup {"never", "any", "all", "not"} \cup leafOperators
  BY ExpressionsAssumption
<1> QED BY <1>1, <1>2, <1>3, <1>4

\* A fact about the operands that carries over to the expression holds of all.
LEMMA ExpressionInduction ==
  ASSUME NEW P, \A e \in Expressions : (\A d \in operandsOf(e) : d \in P) => e \in P
  PROVE  Expressions \subseteq P
<1>1. \A e \in Expressions : (\A d \in Expressions : lengths[d] < lengths[e] => d \in P) => e \in P
  BY Lengths
<1>2. lengths \in [Expressions -> Nat]
  BY Lengths
<1> QED BY <1>1, <1>2, Parsing!Descent, Zenon

----------------------------------------------------------------------------
(***************************************************************************)
(* What the recursive definitions are                                      *)
(***************************************************************************)
LEMMA ParseUnfolds ==
  ASSUME NEW i, NEW current
  PROVE  \E parsed : \A e \in Expressions :
           /\ parsed[e] = parsedNext(<<i, current>>, parsed, e)
           /\ parse_limesurvey_condition(e, i, current) = parsed[e]
<1> DEFINE context == <<i, current>>
           Loop(f) == f = [e \in Expressions |->
             CASE e.op \in unconditional -> Always
               [] e.op = "never" -> Translated([type |-> Str("constant"), value |-> Bool(FALSE)])
               [] isLeaf(e) -> translateLeaf(e, i, current)
               [] e.op = "not" ->
                    IF f[e.operand].ok
                    THEN Translated([type |-> Str("not"), condition |-> _required(f[e.operand])])
                    ELSE Unsupported
               [] OTHER ->
                    IF \E d \in operandsOf(e) : ~f[d].ok THEN Unsupported
                    ELSE Translated([type |-> Str(e.op),
                                     conditions |-> Arr([k \in DOMAIN e.operands |-> _required(f[e.operands[k]])])])]
           parsed == CHOOSE f : Loop(f)
<1>1. \A f : Loop(f) <=> f = [e \in Expressions |-> parsedNext(context, f, e)]
  BY DEF parsedNext
<1>2. Parsing!Descends(Expressions, context, lengths)
  <2> SUFFICES ASSUME NEW e \in Expressions, NEW f, NEW g,
                      \A d \in Expressions : lengths[d] < lengths[e] => f[d] = g[d]
               PROVE  parsedNext(context, f, e) = parsedNext(context, g, e)
    BY DEF Parsing!Descends
  <2>1. \A d \in operandsOf(e) : f[d] = g[d]
    BY Lengths
  <2>2. CASE e.op \in {"any", "all"}
    <3>1. \A k \in DOMAIN e.operands : f[e.operands[k]] = g[e.operands[k]]
      BY <2>1, <2>2, Operands
    <3>2. [k \in DOMAIN e.operands |-> _required(f[e.operands[k]])]
            = [k \in DOMAIN e.operands |-> _required(g[e.operands[k]])]
      BY <3>1
    <3>3. (\E d \in operandsOf(e) : ~f[d].ok) <=> (\E d \in operandsOf(e) : ~g[d].ok)
      BY <2>1
    <3> QED BY <2>2, <3>2, <3>3 DEF parsedNext
  <2>3. CASE e.op = "not"
    <3>1. f[e.operand] = g[e.operand]
      BY <2>1, <2>3, Operands
    <3> QED BY <2>3, <3>1 DEF parsedNext
  <2>4. CASE e.op \notin {"any", "all", "not"}
    <3>1. e.op \in unconditional \cup {"never"} \/ isLeaf(e)
      BY <2>4, Operands DEF isLeaf
    <3> QED BY <2>4, <3>1 DEF parsedNext
  <2> QED BY <2>2, <2>3, <2>4
<1>3. \E f : Parsing!Solves(f, Expressions, context)
  <2> HIDE DEF context
  <2> QED BY <1>2, Lengths, Parsing!SolutionExists
<1>4. \E f : Loop(f)
  <2> HIDE DEF Loop, context
  <2> QED BY <1>1, <1>3 DEF Parsing!Solves
<1>5. Loop(parsed)
  <2> HIDE DEF Loop
  <2> QED BY <1>4
<1>6. \A e \in Expressions : parse_limesurvey_condition(e, i, current) = parsed[e]
  BY Zenon DEF parse_limesurvey_condition
<1>7. \A e \in Expressions : parsed[e] = parsedNext(context, parsed, e)
  <2> HIDE DEF parsed, Loop, context
  <2> QED BY <1>1, <1>5
<1> HIDE DEF parsed
<1> QED BY <1>6, <1>7

LEMMA WithinUnfolds ==
  \A e \in Expressions : within(e) = {e} \cup UNION {within(d) : d \in operandsOf(e)}
<1> DEFINE inside == CHOOSE f : f = [e \in Expressions |-> {e} \cup UNION {f[d] : d \in operandsOf(e)}]
<1>1. Gathering!Descends(Expressions, 0, lengths)
  <2> SUFFICES ASSUME NEW e \in Expressions, NEW f, NEW g,
                      \A d \in Expressions : lengths[d] < lengths[e] => f[d] = g[d]
               PROVE  insideNext(0, f, e) = insideNext(0, g, e)
    BY DEF Gathering!Descends
  <2>1. \A d \in operandsOf(e) : f[d] = g[d]
    BY Lengths
  <2> QED BY <2>1 DEF insideNext
<1>2. \E f : Gathering!Solves(f, Expressions, 0)
  BY <1>1, Lengths, Gathering!SolutionExists
<1>3. \E f : f = [e \in Expressions |-> {e} \cup UNION {f[d] : d \in operandsOf(e)}]
  BY <1>2 DEF Gathering!Solves, insideNext
<1>4. inside = [e \in Expressions |-> {e} \cup UNION {inside[d] : d \in operandsOf(e)}]
  BY <1>3
<1>5. \A e \in Expressions : within(e) = inside[e]
  BY Zenon DEF within
<1> HIDE DEF inside
<1>6. \A e \in Expressions : {within(d) : d \in operandsOf(e)} = {inside[d] : d \in operandsOf(e)}
  BY <1>5, Lengths
<1> QED BY <1>4, <1>5, <1>6

LEMMA HoldsUnfolds ==
  ASSUME NEW i, NEW current, NEW true
  PROVE  \E value : \A e \in Expressions :
           /\ value[e] = holdsNext(<<i, current, true>>, value, e)
           /\ holds(e, i, current, true) = value[e]
<1> DEFINE context == <<i, current, true>>
           Loop(f) == f = [e \in Expressions |->
             CASE e.op \in unconditional -> TRUE
               [] e.op = "never" -> FALSE
               [] isLeaf(e) -> translateLeaf(e, i, current).condition \in true
               [] e.op = "not" -> ~f[e.operand]
               [] e.op = "any" -> \E d \in operandsOf(e) : f[d]
               [] OTHER -> \A d \in operandsOf(e) : f[d]]
           value == CHOOSE f : Loop(f)
<1>1. \A f : Loop(f) <=> f = [e \in Expressions |-> holdsNext(context, f, e)]
  BY DEF holdsNext
<1>2. Holding!Descends(Expressions, context, lengths)
  <2> SUFFICES ASSUME NEW e \in Expressions, NEW f, NEW g,
                      \A d \in Expressions : lengths[d] < lengths[e] => f[d] = g[d]
               PROVE  holdsNext(context, f, e) = holdsNext(context, g, e)
    BY DEF Holding!Descends
  <2>1. \A d \in operandsOf(e) : f[d] = g[d]
    BY Lengths
  <2>2. CASE e.op = "any"
    <3>1. (\E d \in operandsOf(e) : f[d]) <=> (\E d \in operandsOf(e) : g[d])
      BY <2>1
    <3> QED BY <2>2, <3>1 DEF holdsNext, isLeaf, leafOperators
  <2>3. CASE e.op = "all"
    <3>1. (\A d \in operandsOf(e) : f[d]) <=> (\A d \in operandsOf(e) : g[d])
      BY <2>1
    <3> QED BY <2>3, <3>1 DEF holdsNext, isLeaf, leafOperators
  <2>4. CASE e.op = "not"
    <3>1. f[e.operand] = g[e.operand]
      BY <2>1, <2>4, Operands
    <3> QED BY <2>4, <3>1 DEF holdsNext, isLeaf, leafOperators
  <2>5. CASE e.op \notin {"any", "all", "not"}
    <3>1. CASE isLeaf(e)
      BY <3>1 DEF holdsNext, isLeaf, leafOperators
    <3>2. CASE e.op \in unconditional
      BY <3>2 DEF holdsNext, isLeaf, leafOperators
    <3>3. CASE e.op = "never"
      BY <3>3 DEF holdsNext, isLeaf, leafOperators
    <3> QED BY <2>5, <3>1, <3>2, <3>3, Operands DEF isLeaf
  <2> QED BY <2>2, <2>3, <2>4, <2>5
<1>3. \E f : Holding!Solves(f, Expressions, context)
  <2> HIDE DEF context
  <2> QED BY <1>2, Lengths, Holding!SolutionExists
<1>4. \E f : Loop(f)
  <2> HIDE DEF Loop, context
  <2> QED BY <1>1, <1>3 DEF Holding!Solves
<1>5. Loop(value)
  <2> HIDE DEF Loop
  <2> QED BY <1>4
<1>6. \A e \in Expressions : holds(e, i, current, true) = value[e]
  BY Zenon DEF holds
<1>7. \A e \in Expressions : value[e] = holdsNext(context, value, e)
  <2> HIDE DEF value, Loop, context
  <2> QED BY <1>1, <1>5
<1> HIDE DEF value
<1> QED BY <1>6, <1>7

\* The parser, case by case.
ParseRules(e, i, current) ==
  LET parse(x) == parse_limesurvey_condition(x, i, current)
  IN /\ e.op \in unconditional => parse(e) = Always
     /\ e.op = "never" => parse(e) = Translated([type |-> Str("constant"), value |-> Bool(FALSE)])
     /\ isLeaf(e) => parse(e) = translateLeaf(e, i, current)
     /\ e.op = "not" =>
          parse(e) = IF parse(e.operand).ok
                     THEN Translated([type |-> Str("not"), condition |-> _required(parse(e.operand))])
                     ELSE Unsupported
     /\ e.op \in {"any", "all"} =>
          parse(e) = IF \E d \in operandsOf(e) : ~parse(d).ok THEN Unsupported
                     ELSE Translated([type |-> Str(e.op),
                                      conditions |-> Arr([k \in DOMAIN e.operands |-> _required(parse(e.operands[k]))])])

LEMMA ParseCases ==
  ASSUME NEW i, NEW current, NEW e \in Expressions
  PROVE  ParseRules(e, i, current)
<1>1. PICK parsed : \A x \in Expressions :
        /\ parsed[x] = parsedNext(<<i, current>>, parsed, x)
        /\ parse_limesurvey_condition(x, i, current) = parsed[x]
  BY ParseUnfolds
<1>2. \A d \in operandsOf(e) : parse_limesurvey_condition(d, i, current) = parsed[d]
  BY <1>1, Lengths
<1>3. CASE e.op \in unconditional \cup {"never"} \/ isLeaf(e)
  BY <1>1, <1>3 DEF ParseRules, parsedNext, isLeaf, leafOperators
<1>4. CASE e.op = "not"
  <2>1. parsed[e] = IF parsed[e.operand].ok
                    THEN Translated([type |-> Str("not"), condition |-> _required(parsed[e.operand])])
                    ELSE Unsupported
    BY <1>1, <1>4 DEF parsedNext, isLeaf, leafOperators
  <2>2. parse_limesurvey_condition(e.operand, i, current) = parsed[e.operand]
    BY <1>2, <1>4, Operands
  <2> QED BY <1>1, <1>4, <2>1, <2>2 DEF ParseRules, isLeaf, leafOperators
<1>5. CASE e.op \in {"any", "all"}
  <2>1. parsed[e] = IF \E d \in operandsOf(e) : ~parsed[d].ok THEN Unsupported
                    ELSE Translated([type |-> Str(e.op),
                                     conditions |-> Arr([k \in DOMAIN e.operands |-> _required(parsed[e.operands[k]])])])
    BY <1>1, <1>5 DEF parsedNext, isLeaf, leafOperators
  <2>2. (\E d \in operandsOf(e) : ~parsed[d].ok)
          <=> (\E d \in operandsOf(e) : ~parse_limesurvey_condition(d, i, current).ok)
    BY <1>2
  <2>3. [k \in DOMAIN e.operands |-> _required(parsed[e.operands[k]])]
          = [k \in DOMAIN e.operands |-> _required(parse_limesurvey_condition(e.operands[k], i, current))]
    BY <1>2, <1>5, Operands
  <2> QED BY <1>1, <1>5, <2>1, <2>2, <2>3 DEF ParseRules, isLeaf, leafOperators
<1> QED BY <1>3, <1>4, <1>5, Operands DEF isLeaf

\* The meaning of expressions, case by case.
HoldsRules(e, i, current, true) ==
  /\ holds(e, i, current, true) \in BOOLEAN
  /\ e.op \in unconditional => holds(e, i, current, true)
  /\ e.op = "never" => ~holds(e, i, current, true)
  /\ isLeaf(e) => (holds(e, i, current, true) <=> translateLeaf(e, i, current).condition \in true)
  /\ e.op = "not" => (holds(e, i, current, true) <=> ~holds(e.operand, i, current, true))
  /\ e.op = "any" => (holds(e, i, current, true) <=> \E d \in operandsOf(e) : holds(d, i, current, true))
  /\ e.op = "all" => (holds(e, i, current, true) <=> \A d \in operandsOf(e) : holds(d, i, current, true))

LEMMA HoldsCases ==
  ASSUME NEW i, NEW current, NEW true, NEW e \in Expressions
  PROVE  HoldsRules(e, i, current, true)
<1>1. PICK value : \A x \in Expressions :
        /\ value[x] = holdsNext(<<i, current, true>>, value, x)
        /\ holds(x, i, current, true) = value[x]
  BY HoldsUnfolds
<1>2. \A d \in operandsOf(e) : holds(d, i, current, true) = value[d]
  BY <1>1, Lengths
<1>3. CASE e.op \in unconditional
  BY <1>1, <1>3 DEF HoldsRules, holdsNext, isLeaf, leafOperators
<1>4. CASE e.op = "never"
  BY <1>1, <1>4 DEF HoldsRules, holdsNext, isLeaf, leafOperators
<1>5. CASE isLeaf(e)
  <2>1. value[e] = (translateLeaf(e, i, current).condition \in true)
    BY <1>1, <1>5 DEF holdsNext, isLeaf, leafOperators
  <2>2. holds(e, i, current, true) = (translateLeaf(e, i, current).condition \in true)
    BY <1>1, <2>1
  <2>3. e.op \notin unconditional \cup {"never", "not", "any", "all"}
    BY <1>5 DEF isLeaf, leafOperators
  <2>4. holds(e, i, current, true) \in BOOLEAN
    <3>1. (translateLeaf(e, i, current).condition \in true) \in BOOLEAN
      OBVIOUS
    <3> QED BY <2>2, <3>1, Zenon
  <2>5. holds(e, i, current, true) <=> translateLeaf(e, i, current).condition \in true
    BY <2>2
  <2> QED BY <2>3, <2>4, <2>5 DEF HoldsRules
<1>6. CASE e.op = "not"
  <2>1. value[e] = ~value[e.operand]
    BY <1>1, <1>6 DEF holdsNext, isLeaf, leafOperators
  <2>2. holds(e.operand, i, current, true) = value[e.operand]
    BY <1>2, <1>6, Operands
  <2> QED BY <1>1, <1>6, <2>1, <2>2 DEF HoldsRules, isLeaf, leafOperators
<1>7. CASE e.op = "any"
  <2>1. value[e] = \E d \in operandsOf(e) : value[d]
    BY <1>1, <1>7 DEF holdsNext, isLeaf, leafOperators
  <2>2. (\E d \in operandsOf(e) : value[d]) <=> \E d \in operandsOf(e) : holds(d, i, current, true)
    BY <1>2
  <2> QED BY <1>1, <1>7, <2>1, <2>2 DEF HoldsRules, isLeaf, leafOperators
<1>8. CASE e.op = "all"
  <2>1. value[e] = \A d \in operandsOf(e) : value[d]
    BY <1>1, <1>8 DEF holdsNext, isLeaf, leafOperators
  <2>2. (\A d \in operandsOf(e) : value[d]) <=> \A d \in operandsOf(e) : holds(d, i, current, true)
    BY <1>2
  <2> QED BY <1>1, <1>8, <2>1, <2>2 DEF HoldsRules, isLeaf, leafOperators
<1>9. \/ e.op \in unconditional \/ e.op = "never" \/ isLeaf(e)
      \/ e.op = "not" \/ e.op = "any" \/ e.op = "all"
  BY Operands DEF isLeaf
<1> QED BY <1>3, <1>4, <1>5, <1>6, <1>7, <1>8, <1>9

----------------------------------------------------------------------------
(***************************************************************************)
(* What expressions become                                                 *)
(***************************************************************************)
\* A leaf becomes a condition about responses, or nothing.
LEMMA LeafConditions ==
  ASSUME NEW i, NEW current, NEW e \in Expressions, isLeaf(e)
  PROVE  LET result == translateLeaf(e, i, current)
         IN \/ result = Unsupported
            \/ /\ result.ok /\ result.condition # Undefined
               /\ TextOf(result.condition, "type") \notin {"constant", "any", "all", "not"}
<1> DEFINE target == targetOf(e, i, current)
           about(type) == [type |-> Str(type), responseReference |-> _reference_payload(target)]
           asked(type) == about(type) ++ [operator |-> Str(e.operator), value |-> e.value]
           counted == _count_type(e, i.questions[target[1]])
           Good(result) == /\ result.ok /\ result.condition # Undefined
                           /\ TextOf(result.condition, "type") \notin {"constant", "any", "all", "not"}
<1>1. ASSUME NEW type \in {"answered", "not-answered", "comparison", "selection-count", "answered-count"}
      PROVE  Good(Translated(about(type))) /\ Good(Translated(asked(type)))
  <2>1. "type" \in DOMAIN about(type) /\ about(type).type = Str(type)
    OBVIOUS
  <2>2. "type" \in DOMAIN asked(type) /\ asked(type)["type"] = Str(type)
    <3> HIDE DEF about
    <3> QED BY <2>1 DEF ++
  <2> HIDE DEF about, asked
  <2>3. \A members : "type" \in DOMAIN members /\ members["type"] = Str(type) => Good(Translated(members))
    BY DEF Translated, Obj, Undefined, TextOf, Get, Keys, getParsedType, Content, Str
  <2> QED BY <2>1, <2>2, <2>3
<1>2. counted \in {"selection-count", "answered-count", ""}
  BY DEF _count_type
<1>3. \/ translateLeaf(e, i, current) = Unsupported
      \/ \E type \in {"answered", "not-answered", "comparison", "selection-count", "answered-count"} :
           translateLeaf(e, i, current) \in {Translated(about(type)), Translated(asked(type))}
  <2>1. translateLeaf(e, i, current) =
          CASE e.op = "unsupported" -> Unsupported
            [] e.op # "unsupported" /\ target = << >> -> Unsupported
            [] e.op = "answered" /\ target # << >> -> Translated(about("answered"))
            [] e.op = "empty" /\ target # << >> -> Translated(about("not-answered"))
            [] e.op = "compare" /\ target # << >> -> Translated(asked("comparison"))
            [] e.op = "count" /\ target # << >> ->
                 IF counted = "" THEN Unsupported ELSE Translated(asked(counted))
    BY DEF translateLeaf
  <2> HIDE DEF about, asked, counted, target
  <2> QED BY <1>2, <2>1 DEF isLeaf, leafOperators
<1> HIDE DEF about, asked, counted, target
<1> QED BY <1>1, <1>3

\* The parts of an expression are expressions, and their parts are its parts.
LEMMA WithinExpressions ==
  ASSUME NEW e \in Expressions
  PROVE  /\ e \in within(e) /\ within(e) \subseteq Expressions
         /\ \A d \in within(e) : operandsOf(d) \subseteq within(e)
<1> DEFINE P == {x \in Expressions : /\ x \in within(x) /\ within(x) \subseteq Expressions
                                     /\ \A d \in within(x) : operandsOf(d) \subseteq within(x)}
<1>1. ASSUME NEW x \in Expressions, \A d \in operandsOf(x) : d \in P
      PROVE  x \in P
  <2>1. within(x) = {x} \cup UNION {within(d) : d \in operandsOf(x)}
    BY WithinUnfolds
  <2>2. \A d \in operandsOf(x) : d \in within(d) /\ within(d) \subseteq within(x)
    BY <1>1, <2>1
  <2>3. operandsOf(x) \subseteq within(x)
    BY <2>2
  <2>4. within(x) \subseteq Expressions
    BY <1>1, <2>1
  <2>5. ASSUME NEW d \in within(x)
        PROVE  operandsOf(d) \subseteq within(x)
    <3>1. CASE d = x
      BY <2>3, <3>1
    <3>2. CASE d # x
      <4>1. PICK y \in operandsOf(x) : d \in within(y)
        BY <2>1, <3>2
      <4>2. operandsOf(d) \subseteq within(y)
        BY <1>1, <4>1
      <4> QED BY <2>2, <4>1, <4>2
    <3> QED BY <3>1, <3>2
  <2>6. x \in within(x)
    BY <2>1
  <2> QED BY <2>4, <2>5, <2>6
<1> HIDE DEF P
<1>2. Expressions \subseteq P
  BY <1>1, ExpressionInduction
<1> QED BY <1>2 DEF P

\* An expression is translated exactly when each of its leaves is, and without
\* a translation it has no condition.
LEMMA TranslatedLeaves ==
  ASSUME NEW i, NEW current, NEW e \in Expressions
  PROVE  /\ parse_limesurvey_condition(e, i, current).ok <=> Undefined \notin leaves(e, i, current)
         /\ ~parse_limesurvey_condition(e, i, current).ok
              => parse_limesurvey_condition(e, i, current).condition = Undefined
<1> DEFINE parse(x) == parse_limesurvey_condition(x, i, current)
           P == {x \in Expressions : /\ parse(x).ok <=> Undefined \notin leaves(x, i, current)
                                     /\ ~parse(x).ok => parse(x).condition = Undefined}
<1>1. ASSUME NEW x \in Expressions, \A d \in operandsOf(x) : d \in P
      PROVE  x \in P
  <2>1. ParseRules(x, i, current)
    BY ParseCases
  <2>2. Undefined \in leaves(x, i, current)
          <=> \/ isLeaf(x) /\ translateLeaf(x, i, current).condition = Undefined
              \/ \E d \in operandsOf(x) : Undefined \in leaves(d, i, current)
    BY WithinUnfolds DEF leaves
  <2>3. \A d \in operandsOf(x) : parse(d).ok <=> Undefined \notin leaves(d, i, current)
    BY <1>1
  <2>4. Unsupported.ok = FALSE /\ Unsupported.condition = Undefined
    BY DEF Unsupported
  <2>5. \A members : Translated(members).ok = TRUE
    BY DEF Translated
  <2>6. CASE isLeaf(x)
    <3>1. parse(x) = translateLeaf(x, i, current)
      BY <2>6, <2>1 DEF ParseRules
    <3> HIDE DEF parse
    <3>2. operandsOf(x) = {}
      BY <2>6, Operands DEF isLeaf, leafOperators
    <3>3. parse(x) = Unsupported \/ (parse(x).ok /\ parse(x).condition # Undefined)
      BY <2>6, <3>1, LeafConditions
    <3>4. parse(x).ok <=> parse(x).condition # Undefined
      BY <2>4, <3>3
    <3>5. parse(x).ok <=> Undefined \notin leaves(x, i, current)
      BY <2>2, <2>6, <3>1, <3>4, <3>2
    <3>6. ~parse(x).ok => parse(x).condition = Undefined
      BY <3>4
    <3> QED BY <3>5, <3>6
  <2>7. CASE x.op \in unconditional \cup {"never"}
    <3>1. operandsOf(x) = {} /\ ~isLeaf(x)
      BY <2>7, Operands DEF isLeaf, leafOperators
    <3>2. parse(x) = Always \/ parse(x) = Translated([type |-> Str("constant"), value |-> Bool(FALSE)])
      BY <2>7, <2>1 DEF ParseRules
    <3>3. parse(x).ok
      <4> HIDE DEF parse
      <4> QED BY <2>5, <3>2 DEF Always
    <3> HIDE DEF parse
    <3> QED BY <2>2, <3>1, <3>3
  <2>8. CASE x.op = "not"
    <3>1. operandsOf(x) = {x.operand} /\ ~isLeaf(x)
      BY <2>8, Operands DEF isLeaf, leafOperators
    <3>2. parse(x) = IF parse(x.operand).ok
                     THEN Translated([type |-> Str("not"), condition |-> _required(parse(x.operand))])
                     ELSE Unsupported
      BY <2>8, <2>1 DEF ParseRules
    <3> HIDE DEF parse
    <3>3. parse(x).ok <=> parse(x.operand).ok
      BY <2>4, <2>5, <3>2
    <3>4. ~parse(x).ok => parse(x).condition = Undefined
      BY <2>4, <2>5, <3>2
    <3> QED BY <2>2, <2>3, <3>1, <3>3, <3>4
  <2>9. CASE x.op \in {"any", "all"}
    <3>1. ~isLeaf(x)
      BY <2>9 DEF isLeaf, leafOperators
    <3> DEFINE junction == Translated([type |-> Str(x.op),
                                       conditions |-> Arr([k \in DOMAIN x.operands |-> _required(parse(x.operands[k]))])])
    <3>2. parse(x) = IF \E d \in operandsOf(x) : ~parse(d).ok THEN Unsupported ELSE junction
      BY <2>9, <2>1 DEF ParseRules
    <3>3. junction.ok = TRUE
      BY <2>5
    <3> HIDE DEF parse, junction
    <3>4. parse(x).ok <=> \A d \in operandsOf(x) : parse(d).ok
      BY <2>4, <3>2, <3>3
    <3>5. ~parse(x).ok => parse(x).condition = Undefined
      BY <2>4, <3>2, <3>3
    <3> QED BY <2>2, <2>3, <3>1, <3>4, <3>5
  <2> QED BY <2>6, <2>7, <2>8, <2>9, Operands DEF isLeaf
<1> HIDE DEF P
<1>2. Expressions \subseteq P
  BY <1>1, ExpressionInduction
<1> QED BY <1>2 DEF P

----------------------------------------------------------------------------
(***************************************************************************)
(* What conditions say                                                     *)
(***************************************************************************)
constantOf(b) == Obj([type |-> Str("constant"), value |-> Bool(b)])

\* What an expression becomes as an operand.
operandOf(e, i, current) == _required(parse_limesurvey_condition(e, i, current))

\* The condition of an operand, case by case.
ConditionRules(e, i, current) ==
  LET ok == parse_limesurvey_condition(e, i, current).ok
      condition == operandOf(e, i, current)
  IN /\ ~ok \/ e.op \in unconditional => condition = constantOf(TRUE)
     /\ e.op = "never" => condition = constantOf(FALSE)
     /\ ok /\ isLeaf(e) => /\ condition = translateLeaf(e, i, current).condition
                           /\ TextOf(condition, "type") \notin {"constant", "any", "all", "not"}
     /\ ok /\ e.op = "not" => /\ TextOf(condition, "type") = "not"
                              /\ Get(condition, "condition") = operandOf(e.operand, i, current)
     /\ ok /\ e.op \in {"any", "all"} => /\ TextOf(condition, "type") = e.op
                                         /\ partsOf(condition) = {operandOf(d, i, current) : d \in operandsOf(e)}

LEMMA ConditionCases ==
  ASSUME NEW i, NEW current, NEW e \in Expressions
  PROVE  ConditionRules(e, i, current)
<1> DEFINE result == parse_limesurvey_condition(e, i, current)
           condition == operandOf(e, i, current)
<1>1. ParseRules(e, i, current)
  BY ParseCases
<1>2. ~result.ok => result.condition = Undefined
  BY TranslatedLeaves
<1>3. \A x : _required(x) = IF x.condition = Undefined THEN constantOf(TRUE) ELSE x.condition
  BY DEF _required, constantOf
<1>4. \A members : Obj(members) # Undefined
  BY DEF Obj, Undefined
<1>5. CASE ~result.ok \/ e.op \in unconditional
  <2>1. result.condition = Undefined
    BY <1>1, <1>2, <1>5 DEF ParseRules, Always
  <2>2. condition = constantOf(TRUE)
    BY <1>3, <2>1 DEF operandOf
  <2>3. e.op # "never" /\ ~(result.ok /\ (isLeaf(e) \/ e.op \in {"not", "any", "all"}))
    BY <1>1, <1>5 DEF ParseRules, Translated, isLeaf, leafOperators
  <2> QED BY <2>2, <2>3 DEF ConditionRules
<1>6. CASE result.ok /\ e.op = "never"
  <2>1. result.condition = constantOf(FALSE)
    BY <1>1, <1>6 DEF ParseRules, Translated, constantOf
  <2>2. condition = constantOf(FALSE)
    BY <1>3, <1>4, <2>1 DEF operandOf, constantOf
  <2> QED BY <1>6, <2>2 DEF ConditionRules, isLeaf, leafOperators
<1>7. CASE result.ok /\ isLeaf(e)
  <2>1. result = translateLeaf(e, i, current)
    BY <1>1, <1>7 DEF ParseRules
  <2>2. result.condition # Undefined /\ TextOf(result.condition, "type") \notin {"constant", "any", "all", "not"}
    BY <1>7, <2>1, LeafConditions DEF Unsupported
  <2>3. condition = result.condition
    BY <1>3, <2>2 DEF operandOf
  <2>4. e.op \notin unconditional \cup {"never", "not", "any", "all"}
    BY <1>7 DEF isLeaf, leafOperators
  <2> QED BY <1>7, <2>1, <2>2, <2>3, <2>4 DEF ConditionRules
<1>8. CASE result.ok /\ e.op = "not"
  <2> DEFINE members == [type |-> Str("not"), condition |-> operandOf(e.operand, i, current)]
  <2>1. result = Translated(members)
    BY <1>1, <1>8 DEF ParseRules, Unsupported, operandOf
  <2>2. condition = Obj(members)
    <3>1. result.condition = Obj(members)
      BY <2>1 DEF Translated
    <3> QED BY <1>3, <1>4, <3>1 DEF operandOf
  <2>3. TextOf(condition, "type") = "not" /\ Get(condition, "condition") = operandOf(e.operand, i, current)
    BY <2>2 DEF Obj, TextOf, Get, Keys, getParsedType, Content, Str
  <2> HIDE DEF condition
  <2> QED BY <1>8, <2>3 DEF ConditionRules, isLeaf, leafOperators, condition
<1>9. CASE result.ok /\ e.op \in {"any", "all"}
  <2> DEFINE parts == [k \in DOMAIN e.operands |-> operandOf(e.operands[k], i, current)]
             members == [type |-> Str(e.op), conditions |-> Arr(parts)]
  <2>1. result = Translated(members)
    BY <1>1, <1>9 DEF ParseRules, Unsupported, operandOf
  <2>2. condition = Obj(members)
    <3>1. result.condition = Obj(members)
      BY <2>1 DEF Translated
    <3> QED BY <1>3, <1>4, <3>1 DEF operandOf
  <2>3. TextOf(condition, "type") = e.op /\ Items(Get(condition, "conditions")) = parts
    <3> HIDE DEF parts
    <3> QED BY <2>2 DEF Obj, Arr, Items, TextOf, Get, Keys, getParsedType, Content, Str
  <2>4. {parts[k] : k \in DOMAIN parts} = {operandOf(d, i, current) : d \in operandsOf(e)}
    <3>1. operandsOf(e) = {e.operands[k] : k \in DOMAIN e.operands}
      BY <1>9, Operands
    <3>2. {parts[k] : k \in DOMAIN parts} = {operandOf(e.operands[k], i, current) : k \in DOMAIN e.operands}
      OBVIOUS
    <3> HIDE DEF parts
    <3> QED BY <3>1, <3>2
  <2>5. partsOf(condition) = {operandOf(d, i, current) : d \in operandsOf(e)}
    <3> HIDE DEF parts, condition
    <3> QED BY <2>3, <2>4 DEF partsOf
  <2> HIDE DEF condition
  <2> QED BY <1>9, <2>3, <2>5 DEF ConditionRules, isLeaf, leafOperators, condition
<1> QED BY <1>5, <1>6, <1>7, <1>8, <1>9, Operands DEF isLeaf

\* The meaning of the conditions that an expression and its operands become.
LEMMA JudgementUnfolds ==
  ASSUME NEW i, NEW current, NEW true, NEW expression \in Expressions
  PROVE  LET conditions == conditionsOf(expression, i, current)
         IN \E value : \A c \in conditions :
              /\ value[c] = conditionNext(true, value, c)
              /\ conditionHolds(c, conditions, true) = value[c]
<1> DEFINE conditions == conditionsOf(expression, i, current)
           sizes(c) == {TextLength(d) : d \in {x \in within(expression) : operandOf(x, i, current) = c}}
           rank == [c \in conditions |-> CHOOSE m \in sizes(c) : \A k \in sizes(c) : m <= k]
           Loop(f) == f = [c \in conditions |->
             CASE TextOf(c, "type") \notin {"constant", "any", "all", "not"} -> c \in true
               [] TextOf(c, "type") = "constant" -> Get(c, "value") = Bool(TRUE)
               [] TextOf(c, "type") = "not" -> ~f[Get(c, "condition")]
               [] TextOf(c, "type") = "any" -> \E p \in partsOf(c) : f[p]
               [] OTHER -> \A p \in partsOf(c) : f[p]]
           value == CHOOSE f : Loop(f)
<1>1. conditions = {operandOf(d, i, current) : d \in within(expression)}
  BY DEF conditionsOf, operandOf
<1>2. /\ within(expression) \subseteq Expressions
      /\ \A d \in within(expression) : operandsOf(d) \subseteq within(expression)
  BY WithinExpressions
<1>3. ASSUME NEW c \in conditions
      PROVE  /\ rank[c] \in Nat
             /\ \A d \in within(expression) : operandOf(d, i, current) = c => rank[c] <= TextLength(d)
             /\ \E d \in within(expression) : operandOf(d, i, current) = c /\ rank[c] = TextLength(d)
  <2>1. sizes(c) \subseteq Nat /\ sizes(c) # {}
    BY <1>1, <1>2, ExpressionsAssumption
  <2>2. \E m \in sizes(c) : \A k \in sizes(c) : m <= k
    <3> HIDE DEF sizes
    <3> QED BY <2>1, Judging!LeastElement
  <2>3. rank[c] \in sizes(c) /\ \A k \in sizes(c) : rank[c] <= k
    <3> HIDE DEF sizes, conditions
    <3> QED BY <2>2
  <2> HIDE DEF rank
  <2> QED BY <2>1, <2>3
<1>4. rank \in [conditions -> Nat]
  <2>1. rank = [c \in conditions |-> rank[c]]
    OBVIOUS
  <2> HIDE DEF rank, conditions
  <2> QED BY <1>3, <2>1
<1>5. ASSUME NEW d \in within(expression), NEW x \in operandsOf(d),
             rank[operandOf(d, i, current)] = TextLength(d)
      PROVE  /\ operandOf(x, i, current) \in conditions
             /\ rank[operandOf(x, i, current)] < rank[operandOf(d, i, current)]
  <2>1. x \in within(expression) /\ TextLength(x) < TextLength(d)
    BY <1>2, ExpressionsAssumption
  <2>2. operandOf(x, i, current) \in conditions
    BY <1>1, <2>1
  <2>3. rank[operandOf(x, i, current)] <= TextLength(x)
    <3> HIDE DEF rank, conditions
    <3> QED BY <1>3, <2>1, <2>2
  <2>4. TextLength(x) \in Nat /\ TextLength(d) \in Nat /\ rank[operandOf(x, i, current)] \in Nat
    <3> HIDE DEF rank, conditions
    <3> QED BY <1>2, <1>3, <2>1, <2>2, ExpressionsAssumption
  <2> HIDE DEF rank, conditions
  <2> QED BY <1>5, <2>1, <2>2, <2>3, <2>4
<1>6. Judging!Descends(conditions, true, rank)
  <2> SUFFICES ASSUME NEW c \in conditions, NEW f, NEW g,
                      \A p \in conditions : rank[p] < rank[c] => f[p] = g[p]
               PROVE  conditionNext(true, f, c) = conditionNext(true, g, c)
    BY DEF Judging!Descends
  <2> HIDE DEF rank, conditions
  <2>1. PICK d \in within(expression) : operandOf(d, i, current) = c /\ rank[c] = TextLength(d)
    BY <1>3
  <2>2. \A x \in operandsOf(d) : f[operandOf(x, i, current)] = g[operandOf(x, i, current)]
    BY <1>5, <2>1
  <2>3. ConditionRules(d, i, current) /\ d \in Expressions
    BY <1>2, ConditionCases
  <2>4. TextOf(constantOf(TRUE), "type") = "constant" /\ TextOf(constantOf(FALSE), "type") = "constant"
    BY DEF constantOf, Obj, TextOf, Get, Keys, getParsedType, Content, Str
  <2>5. CASE TextOf(c, "type") \in {"any", "all"}
    <3>1. partsOf(c) = {operandOf(x, i, current) : x \in operandsOf(d)}
      BY <2>1, <2>3, <2>4, <2>5, Operands DEF ConditionRules, isLeaf
    <3>2. \A p \in partsOf(c) : f[p] = g[p]
      BY <2>2, <3>1
    <3>3. (\E p \in partsOf(c) : f[p]) <=> (\E p \in partsOf(c) : g[p])
      BY <3>2
    <3>4. (\A p \in partsOf(c) : f[p]) <=> (\A p \in partsOf(c) : g[p])
      BY <3>2
    <3> QED BY <2>5, <3>3, <3>4 DEF conditionNext
  <2>6. CASE TextOf(c, "type") = "not"
    <3>1. d.op = "not" /\ Get(c, "condition") = operandOf(d.operand, i, current)
      BY <2>1, <2>3, <2>4, <2>6, Operands DEF ConditionRules, isLeaf
    <3>2. f[Get(c, "condition")] = g[Get(c, "condition")]
      BY <2>2, <2>3, <3>1, Operands
    <3> QED BY <2>6, <3>2 DEF conditionNext
  <2>7. CASE TextOf(c, "type") \notin {"any", "all", "not"}
    BY <2>7 DEF conditionNext
  <2> QED BY <2>5, <2>6, <2>7
<1>7. \A f : Loop(f) <=> f = [c \in conditions |-> conditionNext(true, f, c)]
  BY DEF conditionNext
<1>8. \E f : Judging!Solves(f, conditions, true)
  <2> HIDE DEF conditions, rank
  <2> QED BY <1>4, <1>6, Judging!SolutionExists
<1>9. \E f : Loop(f)
  <2> HIDE DEF Loop, conditions
  <2> QED BY <1>7, <1>8 DEF Judging!Solves
<1>10. Loop(value)
  <2> HIDE DEF Loop
  <2> QED BY <1>9
<1>11. \A c \in conditions : conditionHolds(c, conditions, true) = value[c]
  <2> HIDE DEF conditions
  <2> QED BY Zenon DEF conditionHolds
<1>12. \A c \in conditions : value[c] = conditionNext(true, value, c)
  <2> HIDE DEF value, Loop, conditions
  <2> QED BY <1>7, <1>10
<1> HIDE DEF value
<1> QED BY <1>11, <1>12

\* What an expression that is translated says is what its operand says.
LEMMA OperandsKeepMeaning ==
  ASSUME NEW i, NEW current, NEW true, NEW expression \in Expressions,
         NEW e \in within(expression), parse_limesurvey_condition(e, i, current).ok
  PROVE  LET says == conditionHolds(operandOf(e, i, current), conditionsOf(expression, i, current), true)
         IN /\ holds(e, i, current, true) <=> says
            /\ parse_limesurvey_condition(e, i, current).condition = Undefined => says
<1> DEFINE conditions == conditionsOf(expression, i, current)
           ok(x) == parse_limesurvey_condition(x, i, current).ok
<1>1. PICK value : \A c \in conditions :
        /\ value[c] = conditionNext(true, value, c)
        /\ conditionHolds(c, conditions, true) = value[c]
  BY JudgementUnfolds
<1>2. \A x \in within(expression) :
        /\ x \in Expressions /\ operandsOf(x) \subseteq within(expression)
        /\ operandOf(x, i, current) \in conditions
  BY WithinExpressions DEF conditionsOf, operandOf
<1> HIDE DEF conditions
<1>3. /\ TextOf(constantOf(TRUE), "type") = "constant" /\ Get(constantOf(TRUE), "value") = Bool(TRUE)
      /\ TextOf(constantOf(FALSE), "type") = "constant" /\ Get(constantOf(FALSE), "value") # Bool(TRUE)
  BY DEF constantOf, Obj, Bool, TextOf, Get, Keys, getParsedType, Content, Str
<1> DEFINE Says(x) == value[operandOf(x, i, current)]
           P == {x \in Expressions : x \in within(expression) /\ ok(x) => (holds(x, i, current, true) <=> Says(x))}
<1>4. ASSUME NEW x \in Expressions, \A d \in operandsOf(x) : d \in P, x \in within(expression), ok(x)
      PROVE  holds(x, i, current, true) <=> Says(x)
  <2> DEFINE c == operandOf(x, i, current)
  <2>1. value[c] = conditionNext(true, value, c)
    BY <1>1, <1>2, <1>4
  <2>2. ConditionRules(x, i, current)
    BY ConditionCases
  <2>3. HoldsRules(x, i, current, true)
    BY HoldsCases
  <2>4. ASSUME NEW d \in operandsOf(x), ok(d)
        PROVE  holds(d, i, current, true) <=> Says(d)
    BY <1>2, <1>4, <2>4
  <2>5. ParseRules(x, i, current)
    BY ParseCases
  <2>6. x.op = "not" => ok(x.operand)
    BY <1>4, <2>5 DEF ParseRules, Unsupported
  <2>7. x.op \in {"any", "all"} => \A d \in operandsOf(x) : ok(d)
    BY <1>4, <2>5 DEF ParseRules, Unsupported
  <2>8. CASE x.op \in unconditional
    <3>1. c = constantOf(TRUE)
      BY <2>2, <2>8 DEF ConditionRules
    <3>2. value[c] <=> TRUE
      BY <1>3, <2>1, <3>1 DEF conditionNext
    <3> QED BY <2>3, <2>8, <3>2 DEF HoldsRules
  <2>9. CASE x.op = "never"
    <3>1. c = constantOf(FALSE)
      BY <2>2, <2>9 DEF ConditionRules
    <3>2. value[c] <=> FALSE
      BY <1>3, <2>1, <3>1 DEF conditionNext
    <3> QED BY <2>3, <2>9, <3>2 DEF HoldsRules
  <2>10. CASE isLeaf(x)
    <3>1. c = translateLeaf(x, i, current).condition /\ TextOf(c, "type") \notin {"constant", "any", "all", "not"}
      BY <1>4, <2>2, <2>10 DEF ConditionRules
    <3> HIDE DEF c
    <3>2. value[c] <=> c \in true
      BY <2>1, <3>1 DEF conditionNext
    <3> QED BY <2>3, <2>10, <3>1, <3>2 DEF HoldsRules, c
  <2>11. CASE x.op = "not"
    <3>1. TextOf(c, "type") = "not" /\ Get(c, "condition") = operandOf(x.operand, i, current)
      BY <1>4, <2>2, <2>11 DEF ConditionRules
    <3>2. value[c] <=> ~Says(x.operand)
      <4> HIDE DEF c
      <4> QED BY <2>1, <3>1 DEF conditionNext
    <3>3. holds(x.operand, i, current, true) <=> Says(x.operand)
      BY <2>4, <2>6, <2>11, Operands
    <3>4. holds(x, i, current, true) <=> ~holds(x.operand, i, current, true)
      BY <2>3, <2>11 DEF HoldsRules
    <3> QED BY <3>2, <3>3, <3>4
  <2>12. CASE x.op \in {"any", "all"}
    <3>1. TextOf(c, "type") = x.op /\ partsOf(c) = {operandOf(d, i, current) : d \in operandsOf(x)}
      BY <1>4, <2>2, <2>12 DEF ConditionRules
    <3>2. \A d \in operandsOf(x) : holds(d, i, current, true) <=> Says(d)
      BY <2>4, <2>7, <2>12
    <3>3. (\E p \in partsOf(c) : value[p]) <=> (\E d \in operandsOf(x) : Says(d))
      BY <3>1
    <3>4. (\A p \in partsOf(c) : value[p]) <=> (\A d \in operandsOf(x) : Says(d))
      BY <3>1
    <3> HIDE DEF c
    <3>5. CASE x.op = "any"
      <4>1. value[c] <=> (\E p \in partsOf(c) : value[p])
        BY <2>1, <3>1, <3>5 DEF conditionNext
      <4>2. holds(x, i, current, true) <=> \E d \in operandsOf(x) : holds(d, i, current, true)
        BY <2>3, <3>5 DEF HoldsRules
      <4> QED BY <3>2, <3>3, <4>1, <4>2 DEF c
    <3>6. CASE x.op = "all"
      <4>1. value[c] <=> (\A p \in partsOf(c) : value[p])
        BY <2>1, <3>1, <3>6 DEF conditionNext
      <4>2. holds(x, i, current, true) <=> \A d \in operandsOf(x) : holds(d, i, current, true)
        BY <2>3, <3>6 DEF HoldsRules
      <4> QED BY <3>2, <3>4, <4>1, <4>2 DEF c
    <3> QED BY <2>12, <3>5, <3>6
  <2> QED BY <2>8, <2>9, <2>10, <2>11, <2>12, Operands DEF isLeaf
<1>5. Expressions \subseteq P
  <2>1. \A x \in Expressions : (\A d \in operandsOf(x) : d \in P) => x \in P
    <3> HIDE DEF ok, Says
    <3> QED BY <1>4
  <2> HIDE DEF P
  <2> QED BY <2>1, ExpressionInduction
<1>6. holds(e, i, current, true) <=> Says(e)
  <2> HIDE DEF Says
  <2> QED BY <1>2, <1>5
<1>7. parse_limesurvey_condition(e, i, current).condition = Undefined => Says(e)
  <2> SUFFICES ASSUME parse_limesurvey_condition(e, i, current).condition = Undefined
               PROVE  Says(e)
    OBVIOUS
  <2>1. operandOf(e, i, current) = constantOf(TRUE)
    BY DEF operandOf, _required, constantOf
  <2>2. value[constantOf(TRUE)] = conditionNext(true, value, constantOf(TRUE))
    BY <1>1, <1>2, <2>1
  <2>3. value[constantOf(TRUE)] <=> TRUE
    BY <1>3, <2>2 DEF conditionNext
  <2> QED BY <2>1, <2>3
<1>8. conditionHolds(operandOf(e, i, current), conditions, true) = Says(e)
  BY <1>1, <1>2
<1> HIDE DEF Says
<1> QED BY <1>6, <1>7, <1>8 DEF conditions

\* An expression is translated exactly when the importer knows a response for
\* each leaf of it; its translation then says what it says, and otherwise it has
\* none (parse_limesurvey_condition).
THEOREM TranslationKeepsMeaning ==
  \A i, current : \A e \in Expressions :
    LET result == parse_limesurvey_condition(e, i, current)
    IN /\ result.ok <=> Undefined \notin leaves(e, i, current)
       /\ ~result.ok => result.condition = Undefined
       /\ result.ok => meansTheSame(e, i, current, result.condition)
<1> SUFFICES ASSUME NEW i, NEW current, NEW e \in Expressions
             PROVE  LET result == parse_limesurvey_condition(e, i, current)
                    IN /\ result.ok <=> Undefined \notin leaves(e, i, current)
                       /\ ~result.ok => result.condition = Undefined
                       /\ result.ok => meansTheSame(e, i, current, result.condition)
  OBVIOUS
<1> DEFINE result == parse_limesurvey_condition(e, i, current)
           conditions == conditionsOf(e, i, current)
<1>1. ASSUME result.ok, NEW true
      PROVE  holds(e, i, current, true)
               = (result.condition = Undefined \/ conditionHolds(result.condition, conditions, true))
  <2>1. /\ holds(e, i, current, true) <=> conditionHolds(operandOf(e, i, current), conditions, true)
        /\ result.condition = Undefined => conditionHolds(operandOf(e, i, current), conditions, true)
    BY <1>1, OperandsKeepMeaning, WithinExpressions
  <2>2. result.condition # Undefined => operandOf(e, i, current) = result.condition
    BY DEF operandOf, _required
  <2>3. holds(e, i, current, true)
          <=> (result.condition = Undefined \/ conditionHolds(result.condition, conditions, true))
    <3> HIDE DEF result, conditions
    <3> QED BY <2>1, <2>2
  <2>4. holds(e, i, current, true) \in BOOLEAN
    BY HoldsCases DEF HoldsRules
  <2> HIDE DEF result, conditions
  <2> QED BY <2>3, <2>4
<1>2. result.ok => meansTheSame(e, i, current, result.condition)
  <2> SUFFICES ASSUME result.ok
               PROVE  meansTheSame(e, i, current, result.condition)
    OBVIOUS
  <2>1. \A true \in SUBSET leaves(e, i, current) :
          holds(e, i, current, true)
            = (result.condition = Undefined \/ conditionHolds(result.condition, conditions, true))
    BY <1>1
  <2> QED BY <2>1, Zenon DEF meansTheSame
<1> QED BY <1>2, TranslatedLeaves

----------------------------------------------------------------------------
(***************************************************************************)
(* Lists                                                                   *)
(***************************************************************************)
IsList(s) == s \in Seq(ToSet(s))

LEMMA ListShape ==
  ASSUME NEW s, IsList(s)
  PROVE  Len(s) \in Nat /\ DOMAIN s = 1..Len(s)
BY LenProperties DEF IsList

LEMMA ListOf ==
  ASSUME NEW n \in Nat, NEW s, s = [k \in 1..n |-> s[k]]
  PROVE  IsList(s) /\ Len(s) = n
<1>1. \A k \in 1..n : s[k] \in ToSet(s)
  BY DEF ToSet
<1>2. s \in [1..n -> ToSet(s)]
  BY <1>1
<1>3. s \in Seq(ToSet(s))
  BY <1>2, SeqDef
<1> QED BY <1>2, <1>3 DEF IsList

LEMMA EmptyList == IsList(<< >>) /\ ToSet(<< >>) = {}
  BY EmptySeq DEF IsList, ToSet

\* A list is a list over any larger set.
LEMMA ListOver ==
  ASSUME NEW s, IsList(s), NEW S, ToSet(s) \subseteq S
  PROVE  s \in Seq(S)
BY SeqMonotonic DEF IsList

LEMMA ListAppend ==
  ASSUME NEW s, IsList(s), NEW x
  PROVE  IsList(Append(s, x)) /\ ToSet(Append(s, x)) = ToSet(s) \cup {x}
<1> DEFINE S == ToSet(s) \cup {x}
           t == Append(s, x)
<1>1. s \in Seq(S) /\ x \in S
  BY ListOver
<1>2. Len(s) \in Nat /\ DOMAIN s = 1..Len(s)
  BY ListShape
<1>3. /\ t \in Seq(S) /\ Len(t) = Len(s) + 1
      /\ \A k \in 1..Len(s) : t[k] = s[k]
      /\ t[Len(s) + 1] = x
  <2> HIDE DEF S
  <2> QED BY <1>1, AppendProperties
<1>4. DOMAIN t = 1..(Len(s) + 1)
  <2> HIDE DEF S, t
  <2> QED BY <1>3, LenProperties
<1> HIDE DEF t
<1>5. ToSet(t) = S
  <2>1. ToSet(t) \subseteq S
    BY <1>2, <1>3, <1>4 DEF ToSet
  <2>2. ASSUME NEW y \in S
        PROVE  y \in ToSet(t)
    <3>1. CASE y = x
      BY <1>2, <1>3, <1>4, <3>1 DEF ToSet
    <3>2. CASE y # x
      <4>1. PICK k \in 1..Len(s) : y = s[k]
        BY <1>2, <3>2 DEF ToSet
      <4>2. k \in DOMAIN t /\ t[k] = y
        BY <1>2, <1>3, <1>4, <4>1
      <4> QED BY <4>2 DEF ToSet
    <3> QED BY <3>1, <3>2
  <2> QED BY <2>1, <2>2
<1> QED BY <1>3, <1>5 DEF IsList, t

LEMMA ListConcat ==
  ASSUME NEW s, IsList(s), NEW t, IsList(t)
  PROVE  IsList(s \o t) /\ ToSet(s \o t) = ToSet(s) \cup ToSet(t)
<1> DEFINE S == ToSet(s) \cup ToSet(t)
           u == s \o t
<1>1. s \in Seq(S) /\ t \in Seq(S)
  BY ListOver
<1>2. /\ Len(s) \in Nat /\ DOMAIN s = 1..Len(s)
      /\ Len(t) \in Nat /\ DOMAIN t = 1..Len(t)
  BY ListShape
<1>3. /\ u \in Seq(S) /\ Len(u) = Len(s) + Len(t)
      /\ \A k \in 1..(Len(s) + Len(t)) : u[k] = IF k <= Len(s) THEN s[k] ELSE t[k - Len(s)]
  <2> HIDE DEF S
  <2> QED BY <1>1, ConcatProperties
<1>4. DOMAIN u = 1..(Len(s) + Len(t))
  <2> HIDE DEF S, u
  <2> QED BY <1>3, LenProperties
<1> HIDE DEF u
<1>5. ToSet(u) = S
  <2>1. ASSUME NEW k \in DOMAIN u
        PROVE  u[k] \in S
    <3>1. CASE k <= Len(s)
      BY <1>2, <1>3, <1>4, <3>1 DEF ToSet
    <3>2. CASE k > Len(s)
      <4>1. k - Len(s) \in DOMAIN t /\ u[k] = t[k - Len(s)]
        BY <1>2, <1>3, <1>4, <3>2
      <4> QED BY <4>1 DEF ToSet
    <3> QED BY <1>2, <1>4, <3>1, <3>2
  <2>2. ASSUME NEW k \in DOMAIN s
        PROVE  s[k] \in ToSet(u)
    <3>1. k \in DOMAIN u /\ u[k] = s[k]
      BY <1>2, <1>3, <1>4
    <3> QED BY <3>1 DEF ToSet
  <2>3. ASSUME NEW k \in DOMAIN t
        PROVE  t[k] \in ToSet(u)
    <3>1. Len(s) + k \in DOMAIN u /\ u[Len(s) + k] = t[k]
      BY <1>2, <1>3, <1>4
    <3> QED BY <3>1 DEF ToSet
  <2> QED BY <2>1, <2>2, <2>3 DEF ToSet
<1> QED BY <1>3, <1>5 DEF IsList, u

LEMMA ListTail ==
  ASSUME NEW s, IsList(s), s # << >>
  PROVE  /\ IsList(Tail(s)) /\ Head(s) \in ToSet(s)
         /\ ToSet(s) = {Head(s)} \cup ToSet(Tail(s))
<1>1. Len(s) \in Nat /\ DOMAIN s = 1..Len(s) /\ Len(s) # 0
  BY ListShape, EmptySeq DEF IsList
<1>2. /\ Tail(s) \in Seq(ToSet(s)) /\ Len(Tail(s)) = Len(s) - 1
      /\ \A k \in 1..Len(Tail(s)) : Tail(s)[k] = s[k + 1]
  BY HeadTailProperties DEF IsList
<1> DEFINE t == Tail(s)
<1>3. DOMAIN t = 1..(Len(s) - 1)
  BY <1>2, LenProperties
<1>4. Head(s) = s[1]
  OBVIOUS
<1> HIDE DEF t
<1>5. t = [k \in 1..(Len(s) - 1) |-> t[k]]
  <2>1. t \in [1..Len(t) -> ToSet(s)]
    BY <1>2, LenProperties DEF t
  <2> QED BY <1>2, <2>1 DEF t
<1>6. IsList(t)
  BY <1>1, <1>5, ListOf
<1>7. ToSet(t) \subseteq ToSet(s)
  BY <1>1, <1>2, <1>3 DEF ToSet, t
<1>8. ASSUME NEW k \in 1..Len(s), k # 1
      PROVE  s[k] \in ToSet(t)
  <2>1. k - 1 \in DOMAIN t /\ t[k - 1] = s[k]
    BY <1>1, <1>2, <1>3, <1>8 DEF t
  <2> QED BY <2>1 DEF ToSet
<1>9. 1 \in DOMAIN s
  BY <1>1
<1> QED BY <1>1, <1>4, <1>6, <1>7, <1>8, <1>9 DEF ToSet, t

\* Lists one after the other are a list.
LEMMA ListFlatten ==
  ASSUME NEW n \in Nat, NEW lists, lists = [k \in 1..n |-> lists[k]], \A k \in 1..n : IsList(lists[k])
  PROVE  IsList(FlattenSeq(lists))
<1>1. IsList(lists) /\ Len(lists) = n
  BY ListOf
<1>2. CASE n = 0
  BY <1>1, <1>2 DEF FlattenSeq
<1>3. CASE n # 0
  <2> DEFINE rank == [k \in 1..n |-> k]
             Loop(f) == f = [k \in 1..n |-> IF k = 1 THEN lists[k] ELSE f[k - 1] \o lists[k]]
             flat == CHOOSE f : Loop(f)
             P == {k \in Nat : k + 1 \in 1..n => IsList(flat[k + 1])}
  <2>1. rank \in [1..n -> Nat] /\ \A k \in 1..n : rank[k] = k
    OBVIOUS
  <2>2. Flattening!Descends(1..n, lists, rank)
    <3> SUFFICES ASSUME NEW k \in 1..n, NEW f, NEW g, \A d \in 1..n : rank[d] < rank[k] => f[d] = g[d]
                 PROVE  flattenNext(lists, f, k) = flattenNext(lists, g, k)
      BY DEF Flattening!Descends
    <3>1. k # 1 => f[k - 1] = g[k - 1]
      <4> HIDE DEF rank
      <4> QED BY <2>1
    <3> QED BY <3>1 DEF flattenNext
  <2>3. \E f : Flattening!Solves(f, 1..n, lists)
    <3> HIDE DEF rank
    <3> QED BY <2>1, <2>2, Flattening!SolutionExists
  <2>4. \A f : Loop(f) <=> f = [k \in 1..n |-> flattenNext(lists, f, k)]
    BY DEF flattenNext
  <2>5. \E f : Loop(f)
    <3> HIDE DEF Loop
    <3> QED BY <2>3, <2>4 DEF Flattening!Solves
  <2>6. Loop(flat)
    <3> HIDE DEF Loop
    <3> QED BY <2>5
  <2>7. FlattenSeq(lists) = flat[n]
    BY <1>1, <1>3 DEF FlattenSeq
  <2> HIDE DEF flat
  <2>8. 0 \in P
    BY <1>3, <2>6
  <2>9. ASSUME NEW k \in Nat, k \in P
        PROVE  k + 1 \in P
    <3> SUFFICES ASSUME (k + 1) + 1 \in 1..n
                 PROVE  IsList(flat[(k + 1) + 1])
      OBVIOUS
    <3>1. flat[(k + 1) + 1] = flat[k + 1] \o lists[(k + 1) + 1]
      <4>1. (k + 1) + 1 # 1 /\ ((k + 1) + 1) - 1 = k + 1
        OBVIOUS
      <4> QED BY <2>6, <4>1
    <3>2. IsList(flat[k + 1])
      BY <2>9
    <3> QED BY <3>1, <3>2, ListConcat
  <2>10. Nat \subseteq P
    <3> HIDE DEF P
    <3> QED BY <2>8, <2>9, Flattening!Induction
  <2>11. n - 1 \in Nat /\ (n - 1) + 1 = n
    BY <1>3
  <2> QED BY <2>7, <2>10, <2>11
<1> QED BY <1>2, <1>3

\* Positions in a strict order are put one after the other, without loss.
StrictlyOrders(before, positions) ==
  /\ \A x \in positions : <<x, x>> \notin before
  /\ \A x, y \in positions : x = y \/ <<x, y>> \in before \/ <<y, x>> \in before
  /\ \A x, y, z \in positions : <<x, y>> \in before /\ <<y, z>> \in before => <<x, z>> \in before

LEMMA RankedCovers ==
  ASSUME NEW positions, IsFiniteSet(positions), NEW before, StrictlyOrders(before, positions)
  PROVE  IsList(ranked(positions, before)) /\ ToSet(ranked(positions, before)) = positions
<1> DEFINE n == Cardinality(positions)
           earlier == [x \in positions |-> {j \in positions : <<j, x>> \in before}]
           count == [x \in positions |-> Cardinality(earlier[x])]
           place == [x \in positions |-> count[x] + 1]
           result == ranked(positions, before)
<1>1. n \in Nat
  BY FS_CardinalityType
<1>2. \A x \in positions : earlier[x] = {j \in positions : <<j, x>> \in before}
  OBVIOUS
<1>3. \A x \in positions : count[x] = Cardinality(earlier[x])
  OBVIOUS
<1>4. result = [p \in 1..n |-> CHOOSE x \in positions : count[x] = p - 1]
  <2>1. \A x \in positions : count[x] = Cardinality({j \in positions : <<j, x>> \in before})
    OBVIOUS
  <2>2. \A p \in 1..n : (CHOOSE x \in positions : count[x] = p - 1)
                        = CHOOSE x \in positions : Cardinality({j \in positions : <<j, x>> \in before}) = p - 1
    <3> HIDE DEF count
    <3> QED BY <2>1
  <2> HIDE DEF count
  <2> QED BY <2>2 DEF ranked
<1> HIDE DEF result, earlier, count, n
<1>5. ASSUME NEW x \in positions
      PROVE  /\ count[x] \in Nat /\ IsFiniteSet(earlier[x])
             /\ Cardinality(earlier[x] \cup {x}) = count[x] + 1
  <2>1. earlier[x] \subseteq positions /\ x \notin earlier[x]
    BY <1>2 DEF StrictlyOrders
  <2>2. IsFiniteSet(earlier[x]) /\ Cardinality(earlier[x]) \in Nat
    BY <2>1, FS_Subset, FS_CardinalityType
  <2>3. Cardinality(earlier[x] \cup {x}) = Cardinality(earlier[x]) + 1
    BY <2>1, <2>2, FS_AddElement
  <2> QED BY <1>3, <2>2, <2>3
<1>6. \A x \in positions : count[x] \in Nat
  BY <1>5
<1>7. ASSUME NEW x \in positions
      PROVE  count[x] + 1 \in 1..n
  <2>1. earlier[x] \cup {x} \subseteq positions
    BY <1>2
  <2>2. Cardinality(earlier[x] \cup {x}) <= n
    BY <2>1, FS_Subset DEF n
  <2> QED BY <1>1, <1>5, <2>2
<1>8. ASSUME NEW x \in positions, NEW y \in positions, <<x, y>> \in before
      PROVE  count[x] < count[y]
  <2>1. earlier[x] \subseteq earlier[y]
    BY <1>2, <1>8 DEF StrictlyOrders
  <2>2. x \in earlier[y]
    BY <1>2, <1>8
  <2>3. Cardinality(earlier[x] \cup {x}) <= Cardinality(earlier[y])
    <3>1. earlier[x] \cup {x} \subseteq earlier[y] /\ IsFiniteSet(earlier[y])
      BY <1>5, <2>1, <2>2
    <3> QED BY <3>1, FS_Subset
  <2>4. count[x] + 1 <= count[y]
    BY <1>3, <1>5, <2>3
  <2> QED BY <1>6, <2>4
<1>9. \A x, y \in positions : count[x] = count[y] => x = y
  <2> SUFFICES ASSUME NEW x \in positions, NEW y \in positions, count[x] = count[y], x # y
               PROVE  FALSE
    OBVIOUS
  <2>1. <<x, y>> \in before \/ <<y, x>> \in before
    BY DEF StrictlyOrders
  <2>2. count[x] < count[y] \/ count[y] < count[x]
    BY <1>8, <2>1
  <2> QED BY <1>6, <2>2
<1>10. place \in Injection(positions, 1..n)
  <2>1. place \in [positions -> 1..n] /\ \A x \in positions : place[x] = count[x] + 1
    BY <1>7
  <2> HIDE DEF place
  <2>2. \A x, y \in positions : place[x] = place[y] => x = y
    BY <1>9, <1>6, <2>1
  <2> QED BY <2>1, <2>2 DEF Injection, IsInjective
<1>11. place \in Surjection(positions, 1..n)
  <2>1. IsFiniteSet(1..n) /\ Cardinality(1..n) = n
    BY <1>1, FS_Interval
  <2> HIDE DEF place
  <2> QED BY <1>10, <2>1, FS_Injection DEF n
<1>12. ASSUME NEW p \in 1..n
       PROVE  \E x \in positions : count[x] = p - 1
  <2>1. PICK x \in positions : place[x] = p
    <3> HIDE DEF place
    <3> QED BY <1>11 DEF Surjection
  <2>2. p = count[x] + 1
    BY <2>1
  <2> QED BY <1>6, <2>2
<1> HIDE DEF place
<1>13. ASSUME NEW p \in 1..n
       PROVE  result[p] \in positions /\ count[result[p]] = p - 1
  BY <1>4, <1>12
<1>14. ASSUME NEW x \in positions
       PROVE  result[count[x] + 1] = x
  <2>1. result[count[x] + 1] \in positions /\ count[result[count[x] + 1]] = (count[x] + 1) - 1
    BY <1>7, <1>13
  <2> QED BY <1>9, <1>6, <2>1
<1>15. DOMAIN result = 1..n
  BY <1>4
<1>16. ToSet(result) = positions
  <2>1. ToSet(result) \subseteq positions
    BY <1>13, <1>15 DEF ToSet
  <2>2. \A x \in positions : x \in ToSet(result)
    BY <1>7, <1>14, <1>15 DEF ToSet
  <2> QED BY <2>1, <2>2
<1>17. IsList(result)
  <2>1. result = [p \in 1..n |-> result[p]]
    BY <1>4
  <2> QED BY <1>1, <2>1, ListOf
<1> QED BY <1>16, <1>17 DEF result

\* What is chosen from a list is what it has at those positions.
LEMMA ChosenCovers ==
  ASSUME NEW list, NEW positions, IsFiniteSet(positions), positions \subseteq Int
  PROVE  IsList(chosen(list, positions)) /\ ToSet(chosen(list, positions)) = {list[n] : n \in positions}
<1> DEFINE before == {pair \in positions \X positions : pair[1] < pair[2]}
           places == ranked(positions, before)
           result == chosen(list, positions)
<1>1. \A x, y \in positions : <<x, y>> \in before <=> x < y
  OBVIOUS
<1>2. result = [p \in DOMAIN places |-> list[places[p]]]
  BY DEF chosen
<1> HIDE DEF before, result
<1>3. StrictlyOrders(before, positions)
  BY <1>1 DEF StrictlyOrders
<1>4. IsList(places) /\ ToSet(places) = positions
  BY <1>3, RankedCovers
<1> HIDE DEF places
<1>5. Len(places) \in Nat /\ DOMAIN places = 1..Len(places)
  BY <1>4, ListShape
<1>6. IsList(result)
  <2>1. result = [p \in 1..Len(places) |-> result[p]]
    BY <1>2, <1>5
  <2> QED BY <1>5, <2>1, ListOf
<1>7. ToSet(result) = {list[n] : n \in ToSet(places)}
  BY <1>2 DEF ToSet
<1> QED BY <1>4, <1>6, <1>7 DEF result

----------------------------------------------------------------------------
(***************************************************************************)
(* The questions in their order                                            *)
(***************************************************************************)
\* What is loaded is lists, and a row is a member of one.
LEMMA Loaded ==
  ASSUME payload \in Payloads
  PROVE  /\ IsList(payload.issues)
         /\ Len(payload.questions) \in Nat /\ DOMAIN payload.questions = 1..Len(payload.questions)
         /\ Len(payload.groups) \in Nat /\ DOMAIN payload.groups = 1..Len(payload.groups)
         /\ payload.groups = [g \in 1..Len(payload.groups) |-> payload.groups[g]]
         /\ \A g \in DOMAIN payload.groups : /\ payload.groups[g].order \in Int
                                             /\ payload.groups[g].relevance \in Expressions
         /\ \A n \in DOMAIN payload.questions : payload.questions[n].order \in Int
         /\ \A row \in ToSet(payload.questions) :
              expressionOf(row) \in Expressions /\ IsFiniteSet(DOMAIN row.limits)
<1>1. /\ payload.issues \in Seq({payload.issues[n] : n \in DOMAIN payload.issues})
      /\ payload.groups \in Seq({payload.groups[n] : n \in DOMAIN payload.groups})
  BY RowsAssumption
<1>2. IsList(payload.issues)
  BY <1>1 DEF IsList, ToSet
<1>3. \A g \in DOMAIN payload.groups : payload.groups[g].order \in Int /\ payload.groups[g].relevance \in Expressions
  BY RowsAssumption
<1>4. \A n \in DOMAIN payload.questions :
        LET row == payload.questions[n]
        IN row.order \in Int /\ {row.relevance, row.condition, row.full} \subseteq Expressions /\ IsFiniteSet(DOMAIN row.limits)
  BY RowsAssumption
<1>5. /\ Len(payload.groups) \in Nat /\ DOMAIN payload.groups = 1..Len(payload.groups)
      /\ payload.groups = [g \in 1..Len(payload.groups) |-> payload.groups[g]]
  <2>1. /\ Len(payload.groups) \in Nat /\ DOMAIN payload.groups = 1..Len(payload.groups)
        /\ payload.groups \in [1..Len(payload.groups) -> {payload.groups[n] : n \in DOMAIN payload.groups}]
    BY <1>1, LenProperties
  <2> QED BY <2>1
<1>6. \A row \in ToSet(payload.questions) : expressionOf(row) \in Expressions /\ IsFiniteSet(DOMAIN row.limits)
  <2> SUFFICES ASSUME NEW n \in DOMAIN payload.questions
               PROVE  expressionOf(payload.questions[n]) \in Expressions /\ IsFiniteSet(DOMAIN payload.questions[n].limits)
    BY DEF ToSet
  <2> QED BY <1>4 DEF expressionOf
<1>7. \A n \in DOMAIN payload.questions : payload.questions[n].order \in Int
  BY <1>4
<1>8. Len(payload.questions) \in Nat /\ DOMAIN payload.questions = 1..Len(payload.questions)
  BY Rows
<1> QED BY <1>2, <1>3, <1>5, <1>6, <1>7, <1>8

LEMMA FiniteRange ==
  ASSUME NEW n \in Nat, NEW S, S \subseteq 1..n
  PROVE  IsFiniteSet(S)
<1>1. IsFiniteSet(1..n)
  <2>1. 1 \in Int /\ n \in Int
    OBVIOUS
  <2> QED BY ONLY <2>1, FS_Interval
<1> QED BY <1>1, FS_Subset

LEMMA GroupOrders ==
  ASSUME payload \in Payloads, NEW gid
  PROVE  groupOrder(gid) \in Int
<1> DEFINE known == {g \in DOMAIN payload.groups : payload.groups[g].gid = gid}
           last == CHOOSE g \in known : \A h \in known : h <= g
           n == Len(payload.groups)
<1>1. groupOrder(gid) = CASE known # {} -> payload.groups[last].order
                          [] known = {} /\ gid \in DOMAIN Numeric -> Content(Numeric[gid]) \div 2
                          [] OTHER -> 0
  BY DEF groupOrder
<1>2. ASSUME known # {}
      PROVE  payload.groups[last].order \in Int
  <2> DEFINE back == {n - g : g \in known}
  <2>1. n \in Nat /\ known \subseteq 1..n
    BY Loaded
  <2>2. back \subseteq Nat /\ back # {}
    <3> HIDE DEF known, n
    <3>1. \A g \in known : n - g \in Nat
      BY <2>1
    <3> QED BY <1>2, <3>1
  <2>3. PICK m \in back : \A k \in back : m <= k
    <3> HIDE DEF back
    <3> QED BY <2>2, Flattening!LeastElement
  <2>4. PICK g \in known : m = n - g
    BY <2>3
  <2>5. ASSUME NEW h \in known
        PROVE  h <= g
    <3>1. m <= n - h
      BY <2>3
    <3> HIDE DEF known, n
    <3> QED BY <2>1, <2>4, <3>1
  <2>6. last \in known
    <3> HIDE DEF known
    <3> QED BY <2>4, <2>5
  <2>7. last \in DOMAIN payload.groups
    <3> HIDE DEF last
    <3> QED BY <2>6
  <2> HIDE DEF last
  <2> QED BY <2>7, Loaded
<1>3. gid \in DOMAIN Numeric => Content(Numeric[gid]) \div 2 \in Int
  BY NumericAssumption
<1> HIDE DEF known, last
<1> QED BY <1>1, <1>2, <1>3

\* Every question that has no parent gets its turn.
LEMMA SortedCovers ==
  ASSUME payload \in Payloads
  PROVE  IsList(sorted) /\ ToSet(sorted) = {payload.questions[n] : n \in topLevelPlaces}
<1> DEFINE before == {pair \in topLevelPlaces \X topLevelPlaces : isBefore(pair[1], pair[2])}
           places == ranked(topLevelPlaces, before)
<1>1. topLevelPlaces \subseteq 1..Len(payload.questions) /\ Len(payload.questions) \in Nat
  BY Loaded DEF topLevelPlaces
<1>2. IsFiniteSet(topLevelPlaces)
  BY <1>1, FiniteRange
<1>3. \A x, y \in topLevelPlaces : <<x, y>> \in before <=> isBefore(x, y)
  OBVIOUS
<1>4. \A x \in topLevelPlaces : /\ x \in Int /\ payload.questions[x].order \in Int
                                /\ groupOrder(payload.questions[x].gid) \in Int
  BY <1>1, Loaded, GroupOrders
<1> HIDE DEF before
<1>5. StrictlyOrders(before, topLevelPlaces)
  <2>1. ASSUME NEW x \in topLevelPlaces
        PROVE  ~isBefore(x, x)
    BY <1>4 DEF isBefore
  <2>2. ASSUME NEW x \in topLevelPlaces, NEW y \in topLevelPlaces
        PROVE  x = y \/ isBefore(x, y) \/ isBefore(y, x)
    BY <1>4 DEF isBefore
  <2>3. ASSUME NEW x \in topLevelPlaces, NEW y \in topLevelPlaces, NEW z \in topLevelPlaces,
               isBefore(x, y), isBefore(y, z)
        PROVE  isBefore(x, z)
    BY <1>4, <2>3 DEF isBefore
  <2> QED BY <1>3, <2>1, <2>2, <2>3 DEF StrictlyOrders
<1>6. IsList(places) /\ ToSet(places) = topLevelPlaces
  BY <1>2, <1>5, RankedCovers
<1>7. sorted = [p \in DOMAIN places |-> payload.questions[places[p]]]
  BY DEF sorted, before
<1> HIDE DEF places
<1>8. Len(places) \in Nat /\ DOMAIN places = 1..Len(places)
  BY <1>6, ListShape
<1>9. IsList(sorted)
  <2>1. sorted = [p \in 1..Len(places) |-> sorted[p]]
    BY <1>7, <1>8
  <2> QED BY <1>8, <2>1, ListOf
<1>10. ToSet(sorted) = {payload.questions[n] : n \in ToSet(places)}
  BY <1>7 DEF ToSet
<1> QED BY <1>6, <1>9, <1>10

\* Every subquestion without a question is reported.
LEMMA OrphansReported ==
  ASSUME payload \in Payloads
  PROVE  /\ IsList(orphanIssues)
         /\ \A n \in orphans : orphanIssue(payload.questions[n]) \in ToSet(orphanIssues)
<1> DEFINE rows == chosen(payload.questions, orphans)
<1>1. orphans \subseteq 1..Len(payload.questions) /\ Len(payload.questions) \in Nat
  BY Loaded DEF orphans
<1>2. IsFiniteSet(orphans) /\ orphans \subseteq Int
  <2>1. IsFiniteSet(orphans)
    BY <1>1, FiniteRange
  <2> QED BY <1>1, <2>1
<1>3. IsList(rows) /\ ToSet(rows) = {payload.questions[n] : n \in orphans}
  BY <1>2, ChosenCovers
<1>4. orphanIssues = [p \in DOMAIN rows |-> orphanIssue(rows[p])]
  BY DEF orphanIssues
<1> HIDE DEF rows
<1>5. Len(rows) \in Nat /\ DOMAIN rows = 1..Len(rows)
  BY <1>3, ListShape
<1>6. IsList(orphanIssues)
  <2>1. orphanIssues = [p \in 1..Len(rows) |-> orphanIssues[p]]
    BY <1>4, <1>5
  <2> QED BY <1>5, <2>1, ListOf
<1>7. ToSet(orphanIssues) = {orphanIssue(row) : row \in ToSet(rows)}
  BY <1>4 DEF ToSet
<1> QED BY <1>3, <1>6, <1>7

\* The subquestions of a question are all there,
LEMMA ChildrenCover ==
  ASSUME payload \in Payloads, NEW qid
  PROVE  /\ IsList(childrenOf(qid))
         /\ ToSet(childrenOf(qid)) = {row \in ToSet(payload.questions) : isChildOf(row, qid)}
<1> DEFINE positions == {n \in DOMAIN payload.questions : isChildOf(payload.questions[n], qid)}
<1>1. positions \subseteq 1..Len(payload.questions) /\ Len(payload.questions) \in Nat
  BY Loaded
<1>2. IsFiniteSet(positions) /\ positions \subseteq Int
  <2> HIDE DEF positions
  <2>1. IsFiniteSet(positions)
    BY <1>1, FiniteRange
  <2> QED BY <1>1, <2>1
<1>3. IsList(childrenOf(qid)) /\ ToSet(childrenOf(qid)) = {payload.questions[n] : n \in positions}
  <2>1. childrenOf(qid) = chosen(payload.questions, positions)
    BY DEF childrenOf
  <2> HIDE DEF positions
  <2> QED BY <1>2, <2>1, ChosenCovers
<1> QED BY <1>3 DEF ToSet

\* also when they are sorted.
LEMMA InOrderCovers ==
  ASSUME NEW rows, IsList(rows), \A n \in DOMAIN rows : rows[n].order \in Int
  PROVE  IsList(inOrder(rows)) /\ ToSet(inOrder(rows)) = ToSet(rows)
<1> DEFINE positions == DOMAIN rows
           before == {pair \in positions \X positions :
                        \/ rows[pair[1]].order < rows[pair[2]].order
                        \/ rows[pair[1]].order = rows[pair[2]].order /\ pair[1] < pair[2]}
           places == ranked(positions, before)
<1>1. Len(rows) \in Nat /\ positions = 1..Len(rows)
  BY ListShape
<1>2. IsFiniteSet(positions) /\ Cardinality(positions) = Len(rows)
  BY <1>1, FS_Interval
<1>3. \A x, y \in positions : <<x, y>> \in before <=> \/ rows[x].order < rows[y].order
                                                      \/ rows[x].order = rows[y].order /\ x < y
  OBVIOUS
<1>4. \A x \in positions : x \in Int /\ rows[x].order \in Int
  BY <1>1
<1>5. inOrder(rows) = [p \in positions |-> rows[places[p]]]
  BY DEF inOrder
<1> HIDE DEF before, positions
<1>6. StrictlyOrders(before, positions)
  BY <1>3, <1>4 DEF StrictlyOrders
<1>7. IsList(places) /\ ToSet(places) = positions
  BY <1>2, <1>6, RankedCovers
<1>8. DOMAIN places = positions
  BY <1>1, <1>2 DEF ranked
<1> HIDE DEF places
<1>9. IsList(inOrder(rows))
  <2>1. inOrder(rows) = [p \in 1..Len(rows) |-> inOrder(rows)[p]]
    BY <1>1, <1>5
  <2> QED BY <1>1, <2>1, ListOf
<1>10. ToSet(inOrder(rows)) = {rows[n] : n \in ToSet(places)}
  BY <1>5, <1>8 DEF ToSet
<1>11. ToSet(rows) = {rows[n] : n \in positions}
  BY DEF ToSet, positions
<1> QED BY <1>7, <1>9, <1>10, <1>11

----------------------------------------------------------------------------
(***************************************************************************)
(* Members of objects                                                      *)
(***************************************************************************)
LEMMA Members ==
  ASSUME NEW members
  PROVE  /\ \A key \in DOMAIN members : Get(Obj(members), key) = members[key]
         /\ \A key : key \notin DOMAIN members => Get(Obj(members), key) = Undefined
         /\ Content(Obj(members)) = members
BY DEF Obj, Get, Keys, getParsedType, Content

LEMMA Merged ==
  ASSUME NEW first, NEW second
  PROVE  /\ DOMAIN (first ++ second) = DOMAIN first \cup DOMAIN second
         /\ \A key \in DOMAIN first : (first ++ second)[key] = first[key]
         /\ \A key \in DOMAIN second \ DOMAIN first : (first ++ second)[key] = second[key]
BY DEF ++

LEMMA Compacted ==
  ASSUME NEW members
  PROVE  /\ DOMAIN _compact(members) \subseteq DOMAIN members
         /\ \A key \in DOMAIN members :
              members[key] \notin {Undefined, Str("")}
                => key \in DOMAIN _compact(members) /\ _compact(members)[key] = members[key]
BY DEF _compact

LEMMA Texts ==
  ASSUME NEW text
  PROVE  Str(text) # Undefined /\ (Str(text) = Str("") <=> text = "")
BY DEF Str, Undefined

----------------------------------------------------------------------------
(***************************************************************************)
(* Issues                                                                  *)
(***************************************************************************)
\* An issue has its code and the members it is given.
LEMMA Issues ==
  ASSUME NEW level, NEW code, NEW members
  PROVE  LET issue == _issue(level, code, members)
         IN /\ Get(issue, "code") = Str(code)
            /\ \A key \in DOMAIN members \ {"level", "code", "message"} : Get(issue, key) = members[key]
<1> DEFINE header == [level |-> Str(level), code |-> Str(code), message |-> Str("text")]
           whole == header ++ members
<1>1. DOMAIN header = {"level", "code", "message"} /\ header["code"] = Str(code)
  OBVIOUS
<1>2. _issue(level, code, members) = Obj(whole)
  BY DEF _issue
<1>3. /\ DOMAIN whole = DOMAIN header \cup DOMAIN members
      /\ \A key \in DOMAIN header : whole[key] = header[key]
      /\ \A key \in DOMAIN members \ DOMAIN header : whole[key] = members[key]
  <2> HIDE DEF header
  <2> QED BY Merged
<1>4. /\ \A key \in DOMAIN whole : Get(Obj(whole), key) = whole[key]
  <2> HIDE DEF whole
  <2> QED BY Members
<1> HIDE DEF header, whole
<1> QED BY <1>1, <1>2, <1>3, <1>4

\* The members that name a question.
LEMMA Naming ==
  ASSUME NEW row
  PROVE  LET members == ofQuestion(row)
         IN /\ row.qid # "" => "fieldId" \in DOMAIN members /\ members["fieldId"] = Str(row.qid)
            /\ row.title # "" => "questionCode" \in DOMAIN members /\ members["questionCode"] = Str(row.title)
<1> DEFINE whole == [fieldId |-> Str(row.qid), questionCode |-> Str(row.title)]
<1>1. /\ "fieldId" \in DOMAIN whole /\ whole["fieldId"] = Str(row.qid)
      /\ "questionCode" \in DOMAIN whole /\ whole["questionCode"] = Str(row.title)
  OBVIOUS
<1>2. ofQuestion(row) = _compact(whole)
  BY DEF ofQuestion
<1> HIDE DEF whole
<1> QED BY <1>1, <1>2, Compacted, Texts

\* An issue that names a question is about it.
LEMMA IssuesAbout ==
  ASSUME NEW row, NEW level, NEW code, NEW more
  PROVE  /\ row.qid # "" => /\ isAbout(_issue(level, code, ofQuestion(row)), row)
                            /\ isAbout(_issue(level, code, ofQuestion(row) ++ more), row)
         /\ row.title # "" => Get(_issue(level, code, ofQuestion(row) ++ more), "questionCode") = Str(row.title)
<1> DEFINE members == ofQuestion(row)
           whole == members ++ more
<1>1. /\ DOMAIN whole = DOMAIN members \cup DOMAIN more
      /\ \A key \in DOMAIN members : whole[key] = members[key]
  <2> HIDE DEF members
  <2> QED BY Merged
<1>2. /\ row.qid # "" => "fieldId" \in DOMAIN members /\ members["fieldId"] = Str(row.qid)
      /\ row.title # "" => "questionCode" \in DOMAIN members /\ members["questionCode"] = Str(row.title)
  BY Naming
<1> HIDE DEF members, whole
<1>3. \A held \in {members, whole} :
        /\ row.qid # "" => Get(_issue(level, code, held), "fieldId") = Str(row.qid)
        /\ row.title # "" => Get(_issue(level, code, held), "questionCode") = Str(row.title)
  <2> SUFFICES ASSUME NEW held \in {members, whole}
               PROVE  /\ row.qid # "" => Get(_issue(level, code, held), "fieldId") = Str(row.qid)
                      /\ row.title # "" => Get(_issue(level, code, held), "questionCode") = Str(row.title)
    OBVIOUS
  <2>1. /\ row.qid # "" => "fieldId" \in DOMAIN held /\ held["fieldId"] = Str(row.qid)
        /\ row.title # "" => "questionCode" \in DOMAIN held /\ held["questionCode"] = Str(row.title)
    BY <1>1, <1>2
  <2>2. \A key \in DOMAIN held \ {"level", "code", "message"} : Get(_issue(level, code, held), key) = held[key]
    BY Issues
  <2> QED BY <2>1, <2>2
<1> QED BY <1>3 DEF isAbout, members, whole

\* The issues of the skips name the question they skip.
LEMMA SkipsReported ==
  ASSUME NEW row, NEW level, NEW code, NEW more, row.qid # "",
         code \in {"MISSING_QUESTION_CODE", "DUPLICATE_QUESTION_CODE", "UNSUPPORTED_TYPE"}
  PROVE  /\ reportsSkip(_issue(level, code, ofQuestion(row)), row)
         /\ reportsSkip(_issue(level, code, ofQuestion(row) ++ more), row)
<1> DEFINE members == ofQuestion(row)
           whole == members ++ more
<1>1. isAbout(_issue(level, code, members), row) /\ isAbout(_issue(level, code, whole), row)
  BY IssuesAbout
<1> HIDE DEF members, whole
<1>2. Get(_issue(level, code, members), "code") = Str(code) /\ Get(_issue(level, code, whole), "code") = Str(code)
  BY Issues
<1> QED BY <1>1, <1>2 DEF reportsSkip, members, whole

LEMMA OrphanIssuesAbout ==
  ASSUME NEW row
  PROVE  /\ row.qid # "" => isAbout(orphanIssue(row), row)
         /\ Get(orphanIssue(row), "code") = Str("MISSING_PARENT")
<1> DEFINE named == [fieldId |-> Str(row.qid)]
           held == _compact(named)
<1>1. "fieldId" \in DOMAIN named /\ named["fieldId"] = Str(row.qid)
  OBVIOUS
<1>2. orphanIssue(row) = _issue("warning", "MISSING_PARENT", held)
  BY DEF orphanIssue
<1>3. row.qid # "" => "fieldId" \in DOMAIN held /\ held["fieldId"] = Str(row.qid)
  <2> HIDE DEF named
  <2> QED BY <1>1, Compacted, Texts
<1>4. /\ \A key \in DOMAIN held \ {"level", "code", "message"} : Get(orphanIssue(row), key) = held[key]
      /\ Get(orphanIssue(row), "code") = Str("MISSING_PARENT")
  <2> HIDE DEF held
  <2> QED BY <1>2, Issues
<1> QED BY <1>3, <1>4 DEF isAbout

LEMMA ListSingle ==
  ASSUME NEW x
  PROVE  IsList(<<x>>) /\ ToSet(<<x>>) = {x}
<1>1. <<x>> = [k \in 1..1 |-> <<x>>[k]]
  OBVIOUS
<1>2. IsList(<<x>>)
  <2> DEFINE s == <<x>>
  <2>1. s = [k \in 1..1 |-> s[k]]
    BY <1>1
  <2> HIDE DEF s
  <2>2. IsList(s)
    BY <2>1, ListOf
  <2> QED BY <2>2 DEF s
<1>3. DOMAIN <<x>> = {1} /\ <<x>>[1] = x
  OBVIOUS
<1> QED BY <1>2, <1>3 DEF ToSet

\* The limits that are reported are finitely many.
LEMMA Reported ==
  ASSUME NEW row
  PROVE  IsFiniteSet(DOMAIN row.limits) => IsList(validationIssues(row))
<1> DEFINE read == DOMAIN limitNames \cup (IF cellGrid(row) THEN DOMAIN cellNames ELSE {})
           reported == {n \in DOMAIN row.limits :
                          \/ n \in read /\ row.limits[n] \notin DOMAIN Numeric
                          \/ n \in DOMAIN ruleNames
                          \/ cellGrid(row) /\ n = "multiflexible_step" /\ row.limits[n] # "1"}
           issue(name) == _issue("warning", "INVALID_VALIDATION",
                                 ofQuestion(row) ++ [details |-> Obj([rule |-> Str(name),
                                                                      sourceValue |-> Str(row.limits[name])])])
           found == validationIssues(row)
<1>1. found = [k \in 1..Cardinality(reported) |-> issue(SetToSeq(reported)[k])]
  BY Zenon DEF validationIssues
<1>2. reported \subseteq DOMAIN row.limits
  OBVIOUS
<1>3. IsFiniteSet(DOMAIN row.limits) => Cardinality(reported) \in Nat
  <2> HIDE DEF reported
  <2> QED BY <1>2, FS_Subset, FS_CardinalityType
<1> HIDE DEF reported, issue, found
<1>4. found = [k \in 1..Cardinality(reported) |-> found[k]]
  BY <1>1
<1>5. Cardinality(reported) \in Nat => IsList(found)
  BY <1>4, ListOf
<1> QED BY <1>3, <1>5 DEF found

----------------------------------------------------------------------------
(***************************************************************************)
(* Fields                                                                  *)
(***************************************************************************)
conditionOf(row, i) == parse_limesurvey_condition(expressionOf(row), i, row.title).condition

\* Lists of options have the codes they are made of.
LEMMA OptionCodes ==
  ASSUME NEW codes
  PROVE  codesIn(optionList(codes)) = {Str(codes[k]) : k \in DOMAIN codes}
<1> DEFINE list == [k \in DOMAIN codes |-> Obj(optionOf(codes[k], k))]
<1>1. optionList(codes) = Arr(list) /\ Items(Arr(list)) = list
  BY DEF optionList, Items, Arr, getParsedType, Content
<1>2. \A k \in DOMAIN codes : Get(list[k], "code") = Str(codes[k])
  BY Members DEF optionOf
<1>3. DOMAIN list = DOMAIN codes
  OBVIOUS
<1> HIDE DEF list
<1> QED BY <1>1, <1>2, <1>3 DEF codesIn

\* One scale has the codes of its subquestions.
LEMMA ScaleCodes ==
  ASSUME NEW children, IsList(children), NEW scale, NEW k \in DOMAIN children, children[k].scale = scale
  PROVE  \E p \in DOMAIN codesOn(scale, children) : codesOn(scale, children)[p] = childCodes(children)[k]
<1> DEFINE positions == {i \in DOMAIN children : children[i].scale = scale}
           codes == childCodes(children)
<1>1. positions \subseteq 1..Len(children) /\ Len(children) \in Nat
  BY ListShape
<1>2. IsFiniteSet(positions) /\ positions \subseteq Int
  <2> HIDE DEF positions
  <2>1. IsFiniteSet(positions)
    BY <1>1, FiniteRange
  <2> QED BY <1>1, <2>1
<1>3. codesOn(scale, children) = chosen(codes, positions)
  BY DEF codesOn
<1>4. k \in positions
  OBVIOUS
<1> HIDE DEF positions, codes
<1>5. ToSet(codesOn(scale, children)) = {codes[n] : n \in positions}
  BY <1>2, <1>3, ChosenCovers
<1>6. codes[k] \in ToSet(codesOn(scale, children))
  BY <1>4, <1>5
<1> QED BY <1>6 DEF ToSet, codes

\* The rows of a matrix are its subquestions of the first scale, or all of them.
LEMMA RowCodes ==
  ASSUME NEW children, IsList(children), NEW k \in DOMAIN children,
         children[k].scale = "0" \/ \A j \in DOMAIN children : children[j].scale # "0"
  PROVE  \E p \in DOMAIN rowCodes(children) : rowCodes(children)[p] = childCodes(children)[k]
<1>1. DOMAIN childCodes(children) = DOMAIN children
  BY DEF childCodes
<1>2. CASE children[k].scale = "0"
  <2>1. PICK p \in DOMAIN codesOn("0", children) : codesOn("0", children)[p] = childCodes(children)[k]
    BY <1>2, ScaleCodes
  <2>2. codesOn("0", children) # << >>
    BY <2>1, EmptySeq
  <2>3. rowCodes(children) = codesOn("0", children)
    BY <2>2 DEF rowCodes
  <2> QED BY <2>1, <2>3
<1>3. CASE \A j \in DOMAIN children : children[j].scale # "0"
  <2> DEFINE positions == {i \in DOMAIN children : children[i].scale = "0"}
             codes == codesOn("0", children)
  <2>1. positions = {}
    BY <1>3
  <2>2. codes = chosen(childCodes(children), {})
    BY <2>1 DEF codesOn
  <2>3. IsFiniteSet({}) /\ {} \subseteq Int
    BY FS_EmptySet
  <2>4. IsList(codes) /\ ToSet(codes) = {childCodes(children)[n] : n \in {}}
    BY <2>2, <2>3, ChosenCovers
  <2> HIDE DEF codes
  <2>5. Len(codes) \in Nat /\ DOMAIN codes = 1..Len(codes) /\ ToSet(codes) = {}
    BY <2>4, ListShape
  <2>6. codes = << >>
    <3>1. ~(1 \in DOMAIN codes)
      BY <2>5 DEF ToSet
    <3>2. Len(codes) = 0
      BY <2>5, <3>1
    <3> QED BY <2>4, <3>2, EmptySeq DEF IsList
  <2>7. rowCodes(children) = childCodes(children)
    BY <2>6 DEF rowCodes, codes
  <2> QED BY <1>1, <2>7
<1> QED BY <1>2, <1>3

\* What a question of each kind adds to its field.
LEMMA PartMembers ==
  ASSUME NEW row, NEW children
  PROVE  LET type == QUESTION_TYPES[row.type]
             optional == optionalMembers(row, children)
             inputs == Arr([k \in DOMAIN children |->
                              Obj([id |-> IF children[k].qid = "" THEN Null ELSE Str(children[k].qid)]
                                  ++ optionOf(childCodes(children)[k], k))])
         IN /\ type \in choiceTypes =>
                 "options" \in DOMAIN optional /\ optional["options"] = optionList(optionCodes(row, children))
            /\ type = "matrix" => "matrix" \in DOMAIN optional /\ optional["matrix"] = matrixOf(row, children)
            /\ type = "multiple-input" => "subquestions" \in DOMAIN optional /\ optional["subquestions"] = inputs
<1> DEFINE type == QUESTION_TYPES[row.type]
           validation == _validation(row)
           inputs == Arr([k \in DOMAIN children |->
                            Obj([id |-> IF children[k].qid = "" THEN Null ELSE Str(children[k].qid)]
                                ++ optionOf(childCodes(children)[k], k))])
           members ==
             [groupId |-> Str(row.gid), defaultValue |-> _default_value(type, row.default),
              validation |-> IF DOMAIN validation = {} THEN Undefined ELSE Obj(validation),
              other |-> IF row.other THEN otherOf(row) ELSE Undefined,
              dateValueType |-> CASE type = "date" /\ row.dateForm = "" -> Str("date")
                                  [] type = "date" /\ row.dateForm # "" -> Str(row.dateForm)
                                  [] OTHER -> Undefined,
              rendering |-> IF type = "date" /\ row.dateForm = "date-time"
                            THEN Obj([dateOrder |-> Str("date-time")]) ELSE Undefined,
              options |-> IF type \in choiceTypes THEN optionList(optionCodes(row, children)) ELSE Undefined,
              matrix |-> IF type = "matrix" THEN matrixOf(row, children) ELSE Undefined,
              subquestions |-> IF type # "multiple-input" THEN Undefined ELSE inputs,
              responseEncoding |-> CASE row.type \in {"M", "P"} -> selection_encoding("Y", "N")
                                     [] row.type = ":" /\ row.checkbox -> selection_encoding("1", "0")
                                     [] OTHER -> Undefined]
<1>1. optionalMembers(row, children) = _compact(members)
  BY Zenon DEF optionalMembers
<1>2. /\ {"options", "matrix", "subquestions"} \subseteq DOMAIN members
      /\ type \in choiceTypes => members["options"] = optionList(optionCodes(row, children))
      /\ type = "matrix" => members["matrix"] = matrixOf(row, children)
      /\ type = "multiple-input" => members["subquestions"] = inputs
  OBVIOUS
<1>3. /\ \A list : Arr(list) \notin {Undefined, Str("")}
      /\ \A parts : Obj(parts) \notin {Undefined, Str("")}
  BY DEF Arr, Obj, Undefined, Str
<1>4. /\ optionList(optionCodes(row, children)) \notin {Undefined, Str("")}
      /\ matrixOf(row, children) \notin {Undefined, Str("")}
      /\ inputs \notin {Undefined, Str("")}
  BY <1>3 DEF optionList, matrixOf
<1> HIDE DEF members, inputs
<1>5. \A key \in DOMAIN members :
        members[key] \notin {Undefined, Str("")}
          => key \in DOMAIN _compact(members) /\ _compact(members)[key] = members[key]
  BY Compacted
<1> QED BY <1>1, <1>2, <1>4, <1>5 DEF inputs

\* The field of a question at its place, and the members it may have.
placedField(row, rows, i, place) == With(normalize_field(row, rows, i).field, "order", Num(place))
mayHave(row, rows) == optionalMembers(row, inOrder(rows))

\* A field has the names of its question, its condition and its parts.
LEMMA FieldMembers ==
  ASSUME NEW row, NEW rows, NEW i, NEW place
  PROVE  /\ normalize_field(row, rows, i).field = Undefined <=> lacksScale(row)
         /\ ~lacksScale(row) =>
              /\ Get(placedField(row, rows, i, place), "id") = Str(IF row.qid = "" THEN row.title ELSE row.qid)
              /\ Get(placedField(row, rows, i, place), "code") = Str(row.title)
              /\ Get(Get(placedField(row, rows, i, place), "visibility"), "condition") = conditionOf(row, i)
              /\ \A key \in {"options", "matrix", "subquestions"} :
                   key \in DOMAIN mayHave(row, rows)
                     => Get(placedField(row, rows, i, place), key) = mayHave(row, rows)[key]
<1> DEFINE children == inOrder(rows)
           required == requiredMembers(row, children)
           optional == optionalMembers(row, children)
           visible == normalize_field_visibility(row, i).members
           both == required ++ optional
           whole == both ++ visible
           order == [k \in {"order"} |-> Num(place)]
           placed == order ++ whole
           field == normalize_field(row, rows, i).field
<1>1. field = IF lacksScale(row) THEN Undefined ELSE Obj(whole)
  BY DEF normalize_field
<1>2. /\ {"id", "code"} \subseteq DOMAIN required
      /\ {"visibility", "options", "matrix", "subquestions"} \cap DOMAIN required = {}
      /\ required["id"] = Str(IF row.qid = "" THEN row.title ELSE row.qid)
      /\ required["code"] = Str(row.title)
  BY DEF requiredMembers
<1>3. "visibility" \notin DOMAIN optional
  BY DEF optionalMembers, _compact
<1>4. visible = IF conditionOf(row, i) = Undefined THEN << >>
                ELSE [visibility |-> Obj([condition |-> conditionOf(row, i)])]
  BY DEF normalize_field_visibility, visibilityOf, conditionOf
<1>5. /\ DOMAIN both = DOMAIN required \cup DOMAIN optional
      /\ \A key \in DOMAIN required : both[key] = required[key]
      /\ \A key \in DOMAIN optional \ DOMAIN required : both[key] = optional[key]
  <2> HIDE DEF required, optional
  <2> QED BY Merged
<1>6. /\ DOMAIN whole = DOMAIN both \cup DOMAIN visible
      /\ \A key \in DOMAIN both : whole[key] = both[key]
      /\ \A key \in DOMAIN visible \ DOMAIN both : whole[key] = visible[key]
  <2> HIDE DEF both, visible
  <2> QED BY Merged
<1>7. /\ DOMAIN placed = {"order"} \cup DOMAIN whole
      /\ \A key \in DOMAIN whole \ {"order"} : placed[key] = whole[key]
  <2>1. DOMAIN order = {"order"}
    OBVIOUS
  <2>2. /\ DOMAIN placed = DOMAIN order \cup DOMAIN whole
        /\ \A key \in DOMAIN whole \ DOMAIN order : placed[key] = whole[key]
    <3> HIDE DEF order, whole
    <3> QED BY Merged
  <2> HIDE DEF order, whole, placed
  <2> QED BY <2>1, <2>2
<1>8. With(Obj(whole), "order", Num(place)) = Obj(placed)
  <2>1. Content(Obj(whole)) = whole
    BY DEF Content, Obj
  <2> HIDE DEF whole
  <2> QED BY <2>1 DEF With
<1>9. /\ \A key \in DOMAIN placed : Get(Obj(placed), key) = placed[key]
      /\ \A key : key \notin DOMAIN placed => Get(Obj(placed), key) = Undefined
  <2> HIDE DEF placed
  <2> QED BY Members
<1>10. Obj(whole) # Undefined
  BY DEF Obj, Undefined
<1> HIDE DEF required, optional, both, visible, whole, placed, field
<1>11. /\ Get(Obj(placed), "id") = Str(IF row.qid = "" THEN row.title ELSE row.qid)
       /\ Get(Obj(placed), "code") = Str(row.title)
  BY <1>2, <1>5, <1>6, <1>7, <1>9
<1>12. Get(Get(Obj(placed), "visibility"), "condition") = conditionOf(row, i)
  <2>1. "visibility" \notin DOMAIN both
    BY <1>2, <1>3, <1>5
  <2>2. CASE conditionOf(row, i) = Undefined
    <3>1. DOMAIN visible = {}
      BY <1>4, <2>2, EmptySeq
    <3>2. "visibility" \notin DOMAIN placed
      BY <1>6, <1>7, <2>1, <3>1
    <3>3. Get(Obj(placed), "visibility") = Undefined
      BY <1>9, <3>2
    <3>4. Get(Undefined, "condition") = Undefined
      BY DEF Get, Keys, getParsedType, Undefined
    <3> QED BY <2>2, <3>3, <3>4
  <2>3. CASE conditionOf(row, i) # Undefined
    <3>1. "visibility" \in DOMAIN visible /\ visible["visibility"] = Obj([condition |-> conditionOf(row, i)])
      BY <1>4, <2>3
    <3>2. "visibility" \in DOMAIN placed /\ placed["visibility"] = visible["visibility"]
      BY <1>6, <1>7, <2>1, <3>1
    <3>3. Get(Obj(placed), "visibility") = Obj([condition |-> conditionOf(row, i)])
      BY <1>9, <3>1, <3>2
    <3>4. Get(Obj([condition |-> conditionOf(row, i)]), "condition") = conditionOf(row, i)
      BY DEF Get, Obj, Keys, getParsedType, Content
    <3> QED BY <3>3, <3>4
  <2> QED BY <2>2, <2>3
<1>15. \A key \in {"options", "matrix", "subquestions"} :
          key \in DOMAIN optional => Get(Obj(placed), key) = optional[key]
  BY <1>2, <1>5, <1>6, <1>7, <1>9
<1>13. field = Undefined <=> lacksScale(row)
  BY <1>1, <1>10
<1>14. ~lacksScale(row) => With(field, "order", Num(place)) = Obj(placed)
  BY <1>1, <1>8
<1>16. ~lacksScale(row) => placedField(row, rows, i, place) = Obj(placed)
  BY <1>14 DEF placedField, field
<1>17. optional = mayHave(row, rows)
  BY DEF mayHave, optional, children
<1>18. field = normalize_field(row, rows, i).field
  BY DEF field
<1> QED BY <1>11, <1>12, <1>15, <1>13, <1>16, <1>17, <1>18

\* The types whose fields have lists of subquestions.
LEMMA PartTypes ==
  /\ QUESTION_TYPES["M"] \in choiceTypes /\ QUESTION_TYPES["P"] \in choiceTypes
  /\ QUESTION_TYPES["R"] \in choiceTypes /\ QUESTION_TYPES["Q"] = "multiple-input"
  /\ QUESTION_TYPES[":"] = "matrix" /\ QUESTION_TYPES[";"] = "matrix"
<1> DEFINE letters ==
             [S |-> "short-text", T |-> "long-text", D |-> "date", Y |-> "yes-no", G |-> "gender",
              L |-> "single-choice", O |-> "list-with-comment", M |-> "multiple-choice",
              P |-> "multiple-choice-with-comments", N |-> "number", F |-> "matrix", H |-> "matrix",
              B |-> "matrix", Q |-> "multiple-input", R |-> "ranking", X |-> "display"]
           matrices == [native \in {":", "1", ";"} |-> "matrix"]
           choices == [native \in {"!"} |-> "single-choice"]
<1>1. QUESTION_TYPES = (letters ++ matrices) ++ choices
  BY Zenon DEF QUESTION_TYPES
<1>2. /\ {"M", "P", "R", "Q"} \subseteq DOMAIN letters /\ {":", ";"} \cap DOMAIN letters = {}
      /\ letters["M"] = "multiple-choice" /\ letters["P"] = "multiple-choice-with-comments"
      /\ letters["R"] = "ranking" /\ letters["Q"] = "multiple-input"
  OBVIOUS
<1>3. {":", ";"} \subseteq DOMAIN matrices /\ matrices[":"] = "matrix" /\ matrices[";"] = "matrix"
  OBVIOUS
<1> HIDE DEF letters, matrices, choices
<1>4. \A native \in {"M", "P", "R", "Q"} : QUESTION_TYPES[native] = letters[native]
  <2>1. \A native \in DOMAIN letters : (letters ++ matrices)[native] = letters[native] /\ native \in DOMAIN (letters ++ matrices)
    BY Merged
  <2>2. \A native \in DOMAIN (letters ++ matrices) : QUESTION_TYPES[native] = (letters ++ matrices)[native]
    BY <1>1, Merged
  <2> QED BY <1>2, <2>1, <2>2
<1>5. \A native \in {":", ";"} : QUESTION_TYPES[native] = matrices[native]
  <2>1. /\ DOMAIN (letters ++ matrices) = DOMAIN letters \cup DOMAIN matrices
        /\ \A native \in DOMAIN matrices \ DOMAIN letters : (letters ++ matrices)[native] = matrices[native]
    BY Merged
  <2>2. \A native \in DOMAIN (letters ++ matrices) : QUESTION_TYPES[native] = (letters ++ matrices)[native]
    BY <1>1, Merged
  <2> QED BY <1>2, <1>3, <2>1, <2>2
<1> QED BY <1>2, <1>3, <1>4, <1>5 DEF choiceTypes

\* Every subquestion is in the list that the field has for it.
LEMMA FieldParts ==
  ASSUME NEW row, NEW rows, IsList(rows), \A n \in DOMAIN rows : rows[n].order \in Int,
         NEW i, NEW place, ~lacksScale(row), NEW k \in DOMAIN inOrder(rows)
  PROVE  hasPart(With(normalize_field(row, rows, i).field, "order", Num(place)), row, inOrder(rows), k)
<1> DEFINE children == inOrder(rows)
           codes == childCodes(children)
           optional == optionalMembers(row, children)
           type == QUESTION_TYPES[row.type]
           f == With(normalize_field(row, rows, i).field, "order", Num(place))
           code == Str(codes[k])
           matrix == matrixOf(row, children)
           inputs == [p \in DOMAIN children |->
                        Obj([id |-> IF children[p].qid = "" THEN Null ELSE Str(children[p].qid)]
                            ++ optionOf(codes[p], p))]
<1>1. IsList(children)
  BY InOrderCovers
<1>2. DOMAIN codes = DOMAIN children /\ k \in DOMAIN children
  BY DEF childCodes
<1>3. \A key \in {"options", "matrix", "subquestions"} : key \in DOMAIN optional => Get(f, key) = optional[key]
  <2>1. f = placedField(row, rows, i, place) /\ optional = mayHave(row, rows)
    BY DEF placedField, mayHave
  <2> HIDE DEF f, optional
  <2> QED BY <2>1, FieldMembers
<1>4. /\ type \in choiceTypes => "options" \in DOMAIN optional /\ optional["options"] = optionList(optionCodes(row, children))
      /\ type = "matrix" => "matrix" \in DOMAIN optional /\ optional["matrix"] = matrix
      /\ type = "multiple-input" => "subquestions" \in DOMAIN optional /\ optional["subquestions"] = Arr(inputs)
  BY PartMembers
<1>5. /\ QUESTION_TYPES["M"] \in choiceTypes /\ QUESTION_TYPES["P"] \in choiceTypes
      /\ QUESTION_TYPES["R"] \in choiceTypes /\ QUESTION_TYPES["Q"] = "multiple-input"
      /\ QUESTION_TYPES[":"] = "matrix" /\ QUESTION_TYPES[";"] = "matrix"
  BY PartTypes
<1>6. \A texts : codesIn(optionList(texts)) = {Str(texts[p]) : p \in DOMAIN texts}
  BY OptionCodes
<1>7. ASSUME row.type \in {"M", "P"} \/ (row.type = "R" /\ row.answers = << >>)
      PROVE  code \in codesIn(Get(f, "options"))
  <2>1. optionCodes(row, children) = codes
    BY <1>7 DEF optionCodes
  <2>2. Get(f, "options") = optionList(codes)
    BY <1>3, <1>4, <1>5, <1>7, <2>1
  <2> HIDE DEF codes, f
  <2> QED BY <1>2, <1>6, <2>2
<1>8. ASSUME row.type = "Q"
      PROVE  code \in codesIn(Get(f, "subquestions"))
  <2>1. Get(f, "subquestions") = Arr(inputs)
    BY <1>3, <1>4, <1>5, <1>8
  <2>2. Items(Arr(inputs)) = inputs
    BY DEF Items, Arr, getParsedType, Content
  <2>3. DOMAIN inputs = DOMAIN children
    OBVIOUS
  <2>4. Get(inputs[k], "code") = code
    <3> DEFINE identity == [id |-> IF children[k].qid = "" THEN Null ELSE Str(children[k].qid)]
               option == optionOf(codes[k], k)
    <3>1. inputs[k] = Obj(identity ++ option)
      BY <1>2
    <3>2. "code" \notin DOMAIN identity /\ "code" \in DOMAIN option /\ option["code"] = code
      BY DEF optionOf
    <3> HIDE DEF identity, option, inputs
    <3>3. /\ DOMAIN (identity ++ option) = DOMAIN identity \cup DOMAIN option
          /\ \A key \in DOMAIN option \ DOMAIN identity : (identity ++ option)[key] = option[key]
      BY Merged
    <3>4. "code" \in DOMAIN (identity ++ option) /\ (identity ++ option)["code"] = code
      BY <3>2, <3>3
    <3> QED BY <3>1, <3>4, Members
  <2> HIDE DEF inputs, f
  <2> QED BY <1>2, <2>1, <2>2, <2>3, <2>4 DEF codesIn
<1>9. type = "matrix" => Get(Get(f, "matrix"), "rows") = optionList(rowCodes(children))
  <2>1. Get(matrix, "rows") = optionList(rowCodes(children))
    BY Members DEF matrixOf
  <2> HIDE DEF matrix, f
  <2> QED BY <1>3, <1>4, <2>1
<1>10. ASSUME type = "matrix", children[k].scale = "0" \/ \A j \in DOMAIN children : children[j].scale # "0"
       PROVE  code \in codesIn(Get(Get(f, "matrix"), "rows"))
  <2>1. PICK p \in DOMAIN rowCodes(children) : rowCodes(children)[p] = codes[k]
    BY <1>1, <1>2, <1>10, RowCodes
  <2> HIDE DEF f
  <2> QED BY <1>6, <1>9, <1>10, <2>1
<1>11. ASSUME row.type \in {";", ":"}, children[k].scale = "1"
       PROVE  code \in codesIn(Get(Get(f, "matrix"), "columns"))
  <2> DEFINE names == columnCodes(row, children)
             columns == [p \in DOMAIN names |->
                           Obj(optionOf(names[p], p)
                               ++ IF row.type = "1" THEN [options |-> optionList(row.scales[p])] ELSE << >>)]
  <2>1. names = codesOn("1", children)
    BY <1>11 DEF columnCodes
  <2>2. PICK p \in DOMAIN names : names[p] = codes[k]
    <3>1. \E p \in DOMAIN codesOn("1", children) : codesOn("1", children)[p] = codes[k]
      BY <1>1, <1>2, <1>11, ScaleCodes
    <3> HIDE DEF names
    <3> QED BY <2>1, <3>1
  <2>3. Get(matrix, "columns") = Arr(columns)
    BY Members DEF matrixOf
  <2>4. Items(Arr(columns)) = columns
    BY DEF Items, Arr, getParsedType, Content
  <2>5. Get(columns[p], "code") = code
    <3> DEFINE option == optionOf(names[p], p)
               more == IF row.type = "1" THEN [options |-> optionList(row.scales[p])] ELSE << >>
    <3>1. columns[p] = Obj(option ++ more)
      BY <2>2
    <3>2. "code" \in DOMAIN option /\ option["code"] = code
      BY <2>2 DEF optionOf
    <3> HIDE DEF option, more, columns
    <3>3. "code" \in DOMAIN (option ++ more) /\ (option ++ more)["code"] = code
      BY <3>2, Merged
    <3> QED BY <3>1, <3>3, Members
  <2>6. Get(f, "matrix") = matrix
    BY <1>3, <1>4, <1>5, <1>11
  <2>7. DOMAIN columns = DOMAIN names
    OBVIOUS
  <2> HIDE DEF columns, names, matrix, f
  <2> QED BY <2>2, <2>3, <2>4, <2>5, <2>6, <2>7 DEF codesIn
<1> HIDE DEF f, children, codes
<1> QED BY <1>7, <1>8, <1>10, <1>11 DEF hasPart, f, children, codes

\* The issues of a field are a list, with those of its condition and of a scale
\* it lacks.
LEMMA FieldIssues ==
  ASSUME NEW row, NEW rows, NEW i
  PROVE  LET found == normalize_field(row, rows, i).issues
         IN IsFiniteSet(DOMAIN row.limits) =>
              /\ IsList(found)
              /\ ToSet(normalize_field_visibility(row, i).issues) \subseteq ToSet(found)
              /\ lacksScale(row) => unsupportedIssue(row) \in ToSet(found)
<1> DEFINE children == inOrder(rows)
           unclear == normalize_field_visibility(row, i).issues
           invalid == validationIssues(row)
           empty == IF lacksOptions(row, children)
                    THEN <<_issue("warning", "EMPTY_OPTIONS", ofQuestion(row))>> ELSE << >>
           unsupported == IF lacksScale(row) THEN <<unsupportedIssue(row)>> ELSE << >>
<1> SUFFICES ASSUME IsFiniteSet(DOMAIN row.limits)
             PROVE  LET found == normalize_field(row, rows, i).issues
                    IN /\ IsList(found)
                       /\ ToSet(unclear) \subseteq ToSet(found)
                       /\ lacksScale(row) => unsupportedIssue(row) \in ToSet(found)
  OBVIOUS
<1>1. IsList(unclear)
  <2>1. IsList(unclear)
    BY ListSingle, EmptyList DEF normalize_field_visibility, visibilityOf
  <2> QED BY <2>1
<1>2. IsList(invalid)
  BY Reported
<1>3. IsList(empty)
  BY ListSingle, EmptyList
<1>4. /\ IsList(unsupported)
      /\ lacksScale(row) => unsupportedIssue(row) \in ToSet(unsupported)
  BY ListSingle, EmptyList
<1>5. normalize_field(row, rows, i).issues = unclear \o invalid \o empty \o unsupported
  BY DEF normalize_field
<1> HIDE DEF unclear, invalid, empty, unsupported
<1>6. IsList(unclear \o invalid) /\ ToSet(unclear \o invalid) = ToSet(unclear) \cup ToSet(invalid)
  BY <1>1, <1>2, ListConcat
<1> DEFINE three == unclear \o invalid \o empty
<1>7. IsList(three) /\ ToSet(three) = ToSet(unclear) \cup ToSet(invalid) \cup ToSet(empty)
  BY <1>3, <1>6, ListConcat
<1> HIDE DEF three
<1>8. IsList(three \o unsupported) /\ ToSet(three \o unsupported) = ToSet(three) \cup ToSet(unsupported)
  BY <1>4, <1>7, ListConcat
<1> QED BY <1>4, <1>5, <1>7, <1>8 DEF three

----------------------------------------------------------------------------
(***************************************************************************)
(* The inductive invariant                                                 *)
(***************************************************************************)
\* What ConditionsKeepTheirMeaning says of a field and its question.
Keeps(f, row, i, found) ==
  LET expression == expressionOf(row)
      condition == Get(Get(f, "visibility"), "condition")
  IN /\ Get(f, "code") = Str(row.title)
     /\ Get(f, "id") = Str(IF row.qid = "" THEN row.title ELSE row.qid)
     /\ IF Undefined \in leaves(expression, i, row.title)
        THEN /\ condition = Undefined
             /\ \E n \in found : /\ Get(n, "code") = Str("INVALID_EXPRESSION")
                                 /\ Get(n, "questionCode") = Get(f, "code")
        ELSE meansTheSame(expression, i, row.title, condition)

\* The subquestions of a question in the rows that were loaded.
offspring(loaded, qid) ==
  inOrder(chosen(loaded.questions, {n \in DOMAIN loaded.questions : isChildOf(loaded.questions[n], qid)}))

\* A field stands for a question and has all its subquestions.
isWhole(f, row, loaded) ==
  LET children == offspring(loaded, row.qid)
  IN standsFor(f, row) /\ \A k \in DOMAIN children : hasPart(f, row, children, k)

\* A question that has an id waits, is a field, or was skipped; a subquestion
\* has a question or is reported.
Accounted(row, loaded, waiting, made, found) ==
  IF isTopLevel(row)
  THEN \/ row.qid = ""
       \/ row \in waiting
       \/ \E f \in made : isWhole(f, row, loaded)
       \/ \E n \in found : reportsSkip(n, row)
  ELSE \/ row.qid = ""
       \/ \E n \in found : isAbout(n, row) /\ Get(n, "code") = Str("MISSING_PARENT")
       \/ \E parent \in ToSet(loaded.questions) : isTopLevel(parent) /\ parent.qid = row.parent

\* Once the questions are in order, each of them is accounted for.
FieldsInv ==
  /\ payload \in Payloads
  /\ stage \in {"index", "fields", "complete"}
  /\ IsList(todo) /\ IsList(fields) /\ IsList(issues)
  /\ ToSet(todo) \subseteq {row \in ToSet(payload.questions) : isTopLevel(row)}
  /\ stage = "index" => todo = << >> /\ fields = << >>
  /\ stage # "index" => \A row \in ToSet(payload.questions) :
                          Accounted(row, payload, ToSet(todo), ToSet(fields), ToSet(issues))
  /\ stage = "complete" => todo = << >>
  /\ \A f \in ToSet(fields) : \E row \in ToSet(payload.questions) : Keeps(f, row, index, ToSet(issues))

\* More fields and more issues account for no less.
LEMMA MoreAccounts ==
  ASSUME NEW row, NEW loaded, NEW waiting, NEW made, NEW found, NEW left, NEW more, NEW told,
         Accounted(row, loaded, waiting, made, found),
         row \in waiting => row \in left, made \subseteq more, found \subseteq told
  PROVE  Accounted(row, loaded, left, more, told)
BY DEF Accounted

LEMMA MoreIssues ==
  ASSUME NEW f, NEW row, NEW i, NEW found, NEW more, found \subseteq more, Keeps(f, row, i, found)
  PROVE  Keeps(f, row, i, more)
BY DEF Keeps

LEMMA GroupIssues ==
  ASSUME payload \in Payloads
  PROVE  IsList(groupIssues)
<1> DEFINE lists == [g \in DOMAIN payload.groups |-> normalize_group(payload.groups[g], index).issues]
           n == Len(payload.groups)
<1>1. n \in Nat /\ DOMAIN payload.groups = 1..n
  BY Loaded
<1>2. ASSUME NEW group
      PROVE  IsList(normalize_group(group, index).issues)
  BY ListSingle, EmptyList DEF normalize_group, visibilityOf
<1>3. lists = [k \in 1..n |-> lists[k]] /\ \A k \in 1..n : IsList(lists[k])
  BY <1>1, <1>2
<1>4. groupIssues = FlattenSeq(lists)
  BY DEF groupIssues
<1> HIDE DEF lists, n
<1>5. IsList(FlattenSeq(lists))
  BY <1>1, <1>3, ListFlatten
<1> QED BY <1>4, <1>5

\* The field of a question says what the question says.
LEMMA NewField ==
  ASSUME NEW row, NEW rows, NEW i, NEW place, expressionOf(row) \in Expressions, IsFiniteSet(DOMAIN row.limits)
  PROVE  LET result == normalize_field(row, rows, i)
         IN row.title # "" /\ ~lacksScale(row)
              => Keeps(With(result.field, "order", Num(place)), row, i, ToSet(result.issues))
<1> DEFINE result == normalize_field(row, rows, i)
           f == With(result.field, "order", Num(place))
           e == expressionOf(row)
           parsed == parse_limesurvey_condition(e, i, row.title)
           condition == Get(Get(f, "visibility"), "condition")
           details == [details |-> Obj([sourceExpression |-> Str("expression")])]
           unclear == _issue("warning", "INVALID_EXPRESSION", ofQuestion(row) ++ details)
<1>1. ~lacksScale(row) => /\ Get(f, "id") = Str(IF row.qid = "" THEN row.title ELSE row.qid)
                          /\ Get(f, "code") = Str(row.title)
                          /\ condition = parsed.condition
  <2>1. f = placedField(row, rows, i, place)
    BY DEF placedField
  <2>2. parsed.condition = conditionOf(row, i)
    BY DEF conditionOf
  <2> HIDE DEF f, parsed
  <2> QED BY <2>1, <2>2, FieldMembers
<1>2. /\ parsed.ok <=> Undefined \notin leaves(e, i, row.title)
      /\ ~parsed.ok => parsed.condition = Undefined
      /\ parsed.ok => meansTheSame(e, i, row.title, parsed.condition)
  BY TranslationKeepsMeaning
<1>3. normalize_field_visibility(row, i).issues = IF parsed.ok THEN << >> ELSE <<unclear>>
  BY DEF normalize_field_visibility, visibilityOf
<1>4. /\ Get(unclear, "code") = Str("INVALID_EXPRESSION")
      /\ row.title # "" => Get(unclear, "questionCode") = Str(row.title)
  <2>1. Get(unclear, "code") = Str("INVALID_EXPRESSION")
    <3> DEFINE members == ofQuestion(row) ++ details
    <3> HIDE DEF members
    <3>1. Get(_issue("warning", "INVALID_EXPRESSION", members), "code") = Str("INVALID_EXPRESSION")
      BY Issues
    <3> QED BY <3>1 DEF members
  <2>2. row.title # "" => Get(unclear, "questionCode") = Str(row.title)
    <3> HIDE DEF details
    <3> QED BY IssuesAbout
  <2> QED BY <2>1, <2>2
<1>5. ~parsed.ok => unclear \in ToSet(result.issues)
  <2>1. ToSet(normalize_field_visibility(row, i).issues) \subseteq ToSet(result.issues)
    BY FieldIssues
  <2>2. unclear \in ToSet(<<unclear>>)
    BY ListSingle
  <2> HIDE DEF unclear, result, parsed
  <2> QED BY <1>3, <2>1, <2>2
<1>6. condition = Get(Get(f, "visibility"), "condition")
  OBVIOUS
<1> HIDE DEF unclear, result, parsed, f, condition
<1> QED BY <1>1, <1>2, <1>4, <1>5, <1>6 DEF Keeps, e, result, f, condition

----------------------------------------------------------------------------
(***************************************************************************)
(* Each step                                                               *)
(***************************************************************************)
LEMMA FieldsStart == FieldsInit => FieldsInv
<1> SUFFICES ASSUME FieldsInit
             PROVE  FieldsInv
  OBVIOUS
<1>1. payload \in Payloads /\ stage = "index" /\ todo = << >> /\ fields = << >> /\ issues = << >>
  BY DEF FieldsInit, IndexInit
<1>2. ToSet(todo) = {} /\ ToSet(fields) = {} /\ IsList(todo) /\ IsList(fields) /\ IsList(issues)
  BY <1>1, EmptyList
<1> QED BY <1>1, <1>2 DEF FieldsInv

\* The next question is taken from the list; what is known of it, or of the
\* others, is known afterwards.
Taken ==
  /\ stage = "fields" /\ todo # << >>
  /\ todo' = Tail(todo)
  /\ UNCHANGED <<indexVars, stage>>

LEMMA TakenKeeps ==
  ASSUME FieldsInv, Taken,
         IsList(fields'), ToSet(fields) \subseteq ToSet(fields'),
         IsList(issues'), ToSet(issues) \subseteq ToSet(issues'),
         \A f \in ToSet(fields') \ ToSet(fields) : Keeps(f, Head(todo), index, ToSet(issues')),
         Accounted(Head(todo), payload, {}, ToSet(fields'), ToSet(issues'))
  PROVE  FieldsInv'
<1> DEFINE rows == ToSet(payload.questions)
<1>1. payload' = payload /\ index' = index /\ stage = "fields" /\ stage' = "fields" /\ todo' = Tail(todo) /\ todo # << >>
  BY DEF Taken, indexVars
<1>2. /\ IsList(todo') /\ Head(todo) \in ToSet(todo)
      /\ ToSet(todo) = {Head(todo)} \cup ToSet(todo')
  BY <1>1, ListTail DEF FieldsInv
<1>3. ToSet(todo) \subseteq {row \in rows : isTopLevel(row)} /\ Head(todo) \in rows
  BY <1>2 DEF FieldsInv
<1>4. ASSUME NEW row \in rows
      PROVE  Accounted(row, payload, ToSet(todo'), ToSet(fields'), ToSet(issues'))
  <2>1. Accounted(row, payload, ToSet(todo), ToSet(fields), ToSet(issues))
    BY <1>1, <1>4 DEF FieldsInv
  <2>2. CASE row = Head(todo)
    BY <2>2, MoreAccounts
  <2>3. CASE row # Head(todo)
    <3>1. row \in ToSet(todo) => row \in ToSet(todo')
      BY <1>2, <2>3
    <3> QED BY <2>1, <3>1, MoreAccounts
  <2> QED BY <2>2, <2>3
<1>5. ASSUME NEW f \in ToSet(fields')
      PROVE  \E row \in rows : Keeps(f, row, index, ToSet(issues'))
  <2>1. CASE f \in ToSet(fields)
    <3>1. PICK row \in rows : Keeps(f, row, index, ToSet(issues))
      BY <2>1 DEF FieldsInv
    <3>2. Keeps(f, row, index, ToSet(issues'))
      BY <3>1, MoreIssues
    <3> QED BY <3>2
  <2>2. CASE f \notin ToSet(fields)
    BY <1>3, <1>5, <2>2
  <2> QED BY <2>1, <2>2
<1>6. payload \in Payloads
  BY DEF FieldsInv
<1>7. /\ stage' # "index" /\ stage' # "complete" /\ stage' \in {"index", "fields", "complete"}
      /\ ToSet(todo') \subseteq {row \in rows : isTopLevel(row)}
  BY <1>1, <1>2, <1>3
<1> HIDE DEF rows
<1>8. rows = ToSet(payload'.questions)
  BY <1>1 DEF rows
<1> QED BY <1>1, <1>2, <1>4, <1>5, <1>6, <1>7, <1>8 DEF FieldsInv

\* A question that is dropped has an issue.
LEMMA DropKeeps ==
  ASSUME FieldsInv, stage = "fields", todo # << >>, NEW issue, Drop(issue),
         Head(todo).qid # "" => reportsSkip(issue, Head(todo))
  PROVE  FieldsInv'
<1>1. Taken /\ fields' = fields /\ issues' = Append(issues, issue)
  BY DEF Drop, Taken
<1>2. IsList(fields) /\ IsList(issues)
  BY DEF FieldsInv
<1>3. IsList(issues') /\ ToSet(issues') = ToSet(issues) \cup {issue}
  BY <1>1, <1>2, ListAppend
<1>4. isTopLevel(Head(todo))
  BY ListTail DEF FieldsInv
<1>6. Accounted(Head(todo), payload, {}, ToSet(fields'), ToSet(issues'))
  BY <1>3, <1>4 DEF Accounted
<1>5. ToSet(fields') = ToSet(fields) /\ IsList(fields')
  BY <1>1, <1>2
<1> QED BY <1>1, <1>3, <1>6, <1>5, TakenKeeps

LEMMA SkipsKeep ==
  FieldsInv /\ (SkipUnnamed \/ SkipDuplicate \/ SkipUnsupported) => FieldsInv'
<1> SUFFICES ASSUME FieldsInv, SkipUnnamed \/ SkipDuplicate \/ SkipUnsupported
             PROVE  FieldsInv'
  OBVIOUS
<1> DEFINE row == Head(todo)
           unnamed == _issue("error", "MISSING_QUESTION_CODE", ofQuestion(row))
           again == _issue("error", "DUPLICATE_QUESTION_CODE", ofQuestion(row))
<1>1. CASE SkipUnnamed
  <2>1. stage = "fields" /\ todo # << >> /\ Drop(unnamed)
    BY <1>1 DEF SkipUnnamed
  <2>2. row.qid # "" => reportsSkip(unnamed, row)
    BY SkipsReported
  <2> HIDE DEF unnamed
  <2> QED BY <2>1, <2>2, DropKeeps
<1>2. CASE SkipDuplicate
  <2>1. stage = "fields" /\ todo # << >> /\ Drop(again)
    BY <1>2 DEF SkipDuplicate
  <2>2. row.qid # "" => reportsSkip(again, row)
    BY SkipsReported
  <2> HIDE DEF again
  <2> QED BY <2>1, <2>2, DropKeeps
<1>3. CASE SkipUnsupported
  <2>1. stage = "fields" /\ todo # << >> /\ Drop(unsupportedIssue(row))
    BY <1>3 DEF SkipUnsupported
  <2>2. row.qid # "" => reportsSkip(unsupportedIssue(row), row)
    BY SkipsReported DEF unsupportedIssue
  <2> QED BY <2>1, <2>2, DropKeeps
<1> QED BY <1>1, <1>2, <1>3

LEMMA NormalizeFieldKeeps ==
  FieldsInv /\ NormalizeField => FieldsInv'
<1> SUFFICES ASSUME FieldsInv, NormalizeField
             PROVE  FieldsInv'
  OBVIOUS
<1> DEFINE row == Head(todo)
           result == normalize_field(row, childrenOf(row.qid), index)
           new == With(result.field, "order", Num(Len(fields)))
<1>1. /\ Taken /\ row.title # ""
      /\ fields' = IF result.field = Undefined THEN fields ELSE Append(fields, new)
      /\ issues' = issues \o result.issues
  BY DEF NormalizeField, Taken, isNew
<1>2. row \in ToSet(payload.questions)
  BY <1>1, ListTail DEF FieldsInv, Taken
<1>3. expressionOf(row) \in Expressions /\ IsFiniteSet(DOMAIN row.limits)
  BY <1>2, Loaded DEF FieldsInv
<1>4. IsList(result.issues) /\ (lacksScale(row) => unsupportedIssue(row) \in ToSet(result.issues))
  BY <1>3, FieldIssues
<1>5. /\ result.field = Undefined <=> lacksScale(row)
      /\ ~lacksScale(row) => Get(new, "id") = Str(IF row.qid = "" THEN row.title ELSE row.qid)
      /\ ~lacksScale(row) => Get(new, "code") = Str(row.title)
  <2>1. new = placedField(row, childrenOf(row.qid), index, Len(fields))
    BY DEF placedField
  <2>2. result.field = normalize_field(row, childrenOf(row.qid), index).field
    OBVIOUS
  <2> HIDE DEF new, result, row
  <2> QED BY <2>1, <2>2, FieldMembers
<1>6. ~lacksScale(row) => Keeps(new, row, index, ToSet(result.issues))
  BY <1>1, <1>3, NewField
<1>7. row.qid # "" => reportsSkip(unsupportedIssue(row), row)
  BY SkipsReported DEF unsupportedIssue
<1>12. ~lacksScale(row) => \A k \in DOMAIN offspring(payload, row.qid) : hasPart(new, row, offspring(payload, row.qid), k)
  <2> DEFINE rows == childrenOf(row.qid)
  <2>1. offspring(payload, row.qid) = inOrder(rows)
    BY DEF offspring, childrenOf
  <2>2. payload \in Payloads
    BY DEF FieldsInv
  <2>3. IsList(rows) /\ ToSet(rows) \subseteq ToSet(payload.questions)
    BY <2>2, ChildrenCover
  <2>4. \A n \in DOMAIN rows : rows[n].order \in Int
    <3>1. \A child \in ToSet(payload.questions) : child.order \in Int
      BY <2>2, Loaded DEF ToSet
    <3> HIDE DEF rows
    <3> QED BY <2>3, <3>1 DEF ToSet
  <2>5. ASSUME ~lacksScale(row), NEW k \in DOMAIN inOrder(rows)
        PROVE  hasPart(new, row, inOrder(rows), k)
    BY <2>3, <2>4, <2>5, FieldParts
  <2> HIDE DEF rows
  <2> QED BY <2>1, <2>5
<1>13. isTopLevel(row)
  BY <1>1, ListTail DEF FieldsInv, Taken
<1> HIDE DEF row, result, new
<1>8. IsList(fields) /\ IsList(issues)
  BY DEF FieldsInv
<1>9. IsList(issues') /\ ToSet(issues') = ToSet(issues) \cup ToSet(result.issues)
  BY <1>1, <1>4, <1>8, ListConcat
<1>10. CASE lacksScale(row)
  <2>1. fields' = fields
    BY <1>1, <1>5, <1>10
  <2>2. Accounted(row, payload, {}, ToSet(fields'), ToSet(issues'))
    BY <1>4, <1>7, <1>9, <1>10, <1>13 DEF Accounted
  <2> QED BY <1>1, <1>8, <1>9, <2>1, <2>2, TakenKeeps DEF row
<1>11. CASE ~lacksScale(row)
  <2>1. IsList(fields') /\ ToSet(fields') = ToSet(fields) \cup {new}
    BY <1>1, <1>5, <1>8, <1>11, ListAppend
  <2>4. row.qid # "" => isWhole(new, row, payload)
    BY <1>5, <1>11, <1>12 DEF isWhole, standsFor
  <2>2. Accounted(row, payload, {}, ToSet(fields'), ToSet(issues'))
    BY <1>13, <2>1, <2>4 DEF Accounted
  <2>3. Keeps(new, row, index, ToSet(issues'))
    BY <1>6, <1>9, <1>11, MoreIssues
  <2> QED BY <1>1, <1>9, <2>1, <2>2, <2>3, TakenKeeps DEF row
<1> QED BY <1>10, <1>11

\* Questions wait for their turn, their parts are found with them, and what has
\* no question is reported.
LEMMA SortQuestionsKeeps ==
  FieldsInv /\ SortQuestions => FieldsInv'
<1> SUFFICES ASSUME FieldsInv, SortQuestions
             PROVE  FieldsInv'
  OBVIOUS
<1> DEFINE rows == ToSet(payload.questions)
<1>1. /\ payload' = payload /\ fields' = fields /\ stage = "index" /\ stage' = "fields"
      /\ todo' = sorted /\ issues' = payload.issues \o orphanIssues
  BY DEF SortQuestions, indexVars
<1>2. payload \in Payloads /\ fields = << >> /\ IsList(fields)
  BY <1>1 DEF FieldsInv
<1>3. IsList(todo') /\ ToSet(todo') = {payload.questions[n] : n \in topLevelPlaces}
  BY <1>1, <1>2, SortedCovers
<1>4. IsList(payload.issues) /\ IsList(orphanIssues)
  BY <1>2, Loaded, OrphansReported
<1>5. IsList(issues') /\ ToSet(issues') = ToSet(payload.issues) \cup ToSet(orphanIssues)
  BY <1>1, <1>4, ListConcat
<1>6. ASSUME NEW n \in DOMAIN payload.questions
      PROVE  Accounted(payload.questions[n], payload, ToSet(todo'), ToSet(fields'), ToSet(issues'))
  <2>1. CASE n \in topLevelPlaces
    <3>1. isTopLevel(payload.questions[n]) /\ payload.questions[n] \in ToSet(todo')
      BY <1>3, <2>1 DEF topLevelPlaces
    <3> QED BY <3>1 DEF Accounted
  <2>2. CASE n \in orphans
    <3>1. orphanIssue(payload.questions[n]) \in ToSet(issues')
      BY <1>2, <1>5, <2>2, OrphansReported
    <3>2. /\ payload.questions[n].qid # "" => isAbout(orphanIssue(payload.questions[n]), payload.questions[n])
          /\ Get(orphanIssue(payload.questions[n]), "code") = Str("MISSING_PARENT")
      BY OrphanIssuesAbout
    <3>3. ~isTopLevel(payload.questions[n])
      BY <1>6, <2>2 DEF orphans, topLevelPlaces
    <3> QED BY <3>1, <3>2, <3>3 DEF Accounted
  <2>3. CASE n \notin topLevelPlaces /\ n \notin orphans
    <3>1. PICK m \in topLevelPlaces : payload.questions[m].qid = payload.questions[n].parent
      BY <1>6, <2>3 DEF orphans
    <3>2. payload.questions[m] \in rows /\ isTopLevel(payload.questions[m])
      BY <3>1 DEF topLevelPlaces, ToSet
    <3>3. ~isTopLevel(payload.questions[n])
      BY <1>6, <2>3 DEF topLevelPlaces
    <3>4. /\ payload.questions[m] \in ToSet(payload.questions)
          /\ isTopLevel(payload.questions[m]) /\ payload.questions[m].qid = payload.questions[n].parent
      BY <3>1, <3>2
    <3> HIDE DEF rows
    <3>5. \E parent \in ToSet(payload.questions) : isTopLevel(parent) /\ parent.qid = payload.questions[n].parent
      BY <3>4
    <3> QED BY <3>3, <3>5 DEF Accounted
  <2> QED BY <2>1, <2>2, <2>3
<1>7. \A row \in rows : Accounted(row, payload, ToSet(todo'), ToSet(fields'), ToSet(issues'))
  BY <1>6 DEF ToSet
<1>8. ToSet(todo') \subseteq {row \in rows : isTopLevel(row)}
  BY <1>3 DEF topLevelPlaces, ToSet
<1>9. ToSet(fields') = {}
  BY <1>1, <1>2, EmptyList
<1> HIDE DEF rows
<1>10. rows = ToSet(payload'.questions)
  BY <1>1 DEF rows
<1> QED BY <1>1, <1>2, <1>3, <1>5, <1>7, <1>8, <1>9, <1>10 DEF FieldsInv

LEMMA NormalizeGroupsKeeps ==
  FieldsInv /\ NormalizeGroups => FieldsInv'
<1> SUFFICES ASSUME FieldsInv, NormalizeGroups
             PROVE  FieldsInv'
  OBVIOUS
<1> DEFINE rows == ToSet(payload.questions)
<1>1. /\ payload' = payload /\ index' = index /\ fields' = fields /\ todo' = todo /\ todo = << >>
      /\ stage = "fields" /\ stage' = "complete" /\ issues' = issues \o groupIssues
  BY DEF NormalizeGroups, indexVars
<1>2. payload \in Payloads /\ IsList(todo) /\ IsList(fields) /\ IsList(issues)
      /\ ToSet(todo) \subseteq {row \in rows : isTopLevel(row)}
  BY DEF FieldsInv
<1>3. IsList(issues') /\ ToSet(issues') = ToSet(issues) \cup ToSet(groupIssues)
  <2>1. IsList(groupIssues)
    BY <1>2, GroupIssues
  <2> QED BY <1>1, <1>2, <2>1, ListConcat
<1>4. ASSUME NEW row \in rows
      PROVE  Accounted(row, payload, ToSet(todo), ToSet(fields), ToSet(issues'))
  <2>1. Accounted(row, payload, ToSet(todo), ToSet(fields), ToSet(issues))
    BY <1>1, <1>4 DEF FieldsInv
  <2> HIDE DEF rows
  <2> QED BY <1>3, <2>1, MoreAccounts
<1>5. ASSUME NEW f \in ToSet(fields)
      PROVE  \E row \in rows : Keeps(f, row, index, ToSet(issues'))
  <2>1. PICK row \in rows : Keeps(f, row, index, ToSet(issues))
    BY <1>5 DEF FieldsInv
  <2>2. Keeps(f, row, index, ToSet(issues'))
    BY <1>3, <2>1, MoreIssues
  <2> QED BY <2>2
<1> HIDE DEF rows
<1>6. rows = ToSet(payload'.questions)
  BY <1>1 DEF rows
<1> QED BY <1>1, <1>2, <1>3, <1>4, <1>5, <1>6 DEF FieldsInv

LEMMA IndexNamesKeeps ==
  FieldsInv /\ IndexNames => FieldsInv'
<1> SUFFICES ASSUME FieldsInv, IndexNames
             PROVE  FieldsInv'
  OBVIOUS
<1>1. /\ payload' = payload /\ stage = "index" /\ stage' = stage
      /\ todo' = todo /\ fields' = fields /\ issues' = issues
  BY DEF IndexNames, IndexQuestion, loopVars
<1>2. todo = << >> /\ fields = << >>
  BY <1>1 DEF FieldsInv
<1>3. ToSet(fields') = {}
  BY <1>1, <1>2, EmptyList
<1> QED BY <1>1, <1>2, <1>3 DEF FieldsInv

----------------------------------------------------------------------------
(***************************************************************************)
(* The theorems                                                            *)
(***************************************************************************)
\* In every state of the loops each question is accounted for and each field
\* means what its question means (build_survey_structure).
THEOREM FieldsInvariance == FieldsSpec => []FieldsInv
<1>1. FieldsInv /\ [FieldsNext]_fieldsVars => FieldsInv'
  <2> SUFFICES ASSUME FieldsInv, [FieldsNext]_fieldsVars
               PROVE  FieldsInv'
    OBVIOUS
  <2>1. CASE IndexNames
    BY <2>1, IndexNamesKeeps
  <2>2. CASE SortQuestions
    BY <2>2, SortQuestionsKeeps
  <2>3. CASE SkipUnnamed \/ SkipDuplicate \/ SkipUnsupported
    BY <2>3, SkipsKeep
  <2>4. CASE NormalizeField
    BY <2>4, NormalizeFieldKeeps
  <2>5. CASE NormalizeGroups
    BY <2>5, NormalizeGroupsKeeps
  <2>6. CASE UNCHANGED fieldsVars
    BY <2>6 DEF FieldsInv, fieldsVars, indexVars, loopVars
  <2> QED BY <2>1, <2>2, <2>3, <2>4, <2>5, <2>6 DEF FieldsNext, LoopStep
<1> QED BY <1>1, FieldsStart, PTL DEF FieldsSpec

\* When the loops are over, every question of the source that has an id is a
\* field or was skipped with an issue that says so; every subquestion is in the
\* list that the field of its question has for it, its question was skipped, or
\* an issue says that it has none (build_survey_structure, normalize_field).
THEOREM NothingDisappearsSafety == FieldsSpec => []NothingDisappears
<1>1. FieldsInv => NothingDisappears
  <2> SUFFICES ASSUME FieldsInv, stage = "complete", NEW row \in ToSet(payload.questions)
               PROVE  IF isTopLevel(row)
                      THEN \/ row.qid = ""
                           \/ \E f \in ToSet(fields) : standsFor(f, row)
                           \/ \E i \in ToSet(issues) : reportsSkip(i, row)
                      ELSE \/ row.qid = ""
                           \/ \E i \in ToSet(issues) : isAbout(i, row) /\ Get(i, "code") = Str("MISSING_PARENT")
                           \/ \E parent \in {q \in ToSet(payload.questions) : isTopLevel(q) /\ q.qid = row.parent} :
                                LET children == inOrder(childrenOf(parent.qid))
                                IN \/ \E i \in ToSet(issues) : reportsSkip(i, parent)
                                   \/ \E f \in ToSet(fields), k \in DOMAIN children :
                                        standsFor(f, parent) /\ children[k] = row /\ hasPart(f, parent, children, k)
    BY Zenon DEF NothingDisappears
  <2>1. ToSet(todo) = {}
    BY EmptyList DEF FieldsInv
  <2>2. \A q \in ToSet(payload.questions) : Accounted(q, payload, ToSet(todo), ToSet(fields), ToSet(issues))
    BY DEF FieldsInv
  <2>3. CASE isTopLevel(row)
    BY <2>1, <2>2, <2>3 DEF Accounted, isWhole
  <2>4. CASE /\ ~isTopLevel(row)
             /\ row.qid = "" \/ \E i \in ToSet(issues) : isAbout(i, row) /\ Get(i, "code") = Str("MISSING_PARENT")
    BY <2>4
  <2>5. CASE /\ ~isTopLevel(row)
             /\ \E q \in ToSet(payload.questions) : isTopLevel(q) /\ q.qid = row.parent
    <3>1. PICK parent \in ToSet(payload.questions) : isTopLevel(parent) /\ parent.qid = row.parent
      BY <2>5
    <3> DEFINE rows == childrenOf(parent.qid)
               children == inOrder(rows)
    <3>2. parent.qid # ""
      BY <2>5, <3>1 DEF isTopLevel
    <3>3. \/ \E f \in ToSet(fields) : isWhole(f, parent, payload)
          \/ \E i \in ToSet(issues) : reportsSkip(i, parent)
      BY <2>1, <2>2, <3>1, <3>2 DEF Accounted
    <3>4. payload \in Payloads
      BY DEF FieldsInv
    <3>5. IsList(rows) /\ ToSet(rows) = {child \in ToSet(payload.questions) : isChildOf(child, parent.qid)}
      BY <3>4, ChildrenCover
    <3>6. row \in ToSet(rows)
      BY <2>5, <3>1, <3>5 DEF isChildOf
    <3>7. \A n \in DOMAIN rows : rows[n].order \in Int
      <4>1. \A child \in ToSet(payload.questions) : child.order \in Int
        BY <3>4, Loaded DEF ToSet
      <4> HIDE DEF rows
      <4> QED BY <3>5, <4>1 DEF ToSet
    <3>8. ToSet(children) = ToSet(rows)
      BY <3>5, <3>7, InOrderCovers
    <3>9. PICK k \in DOMAIN children : children[k] = row
      BY <3>6, <3>8 DEF ToSet
    <3>10. offspring(payload, parent.qid) = children
      BY DEF offspring, childrenOf
    <3> HIDE DEF children, rows
    <3>11. ASSUME NEW f \in ToSet(fields), isWhole(f, parent, payload)
           PROVE  standsFor(f, parent) /\ hasPart(f, parent, children, k)
      BY <3>9, <3>10, <3>11 DEF isWhole
    <3>12. \/ \E i \in ToSet(issues) : reportsSkip(i, parent)
           \/ \E f \in ToSet(fields), place \in DOMAIN children :
                standsFor(f, parent) /\ children[place] = row /\ hasPart(f, parent, children, place)
      BY <3>3, <3>9, <3>11
    <3> QED BY <2>5, <3>1, <3>12 DEF children, rows
  <2> QED BY <2>2, <2>3, <2>4, <2>5 DEF Accounted
<1> QED BY <1>1, FieldsInvariance, PTL

\* A field is shown exactly when the expression of its question says so, or has
\* no condition and an issue (parse_limesurvey_condition,
\* normalize_field_visibility).
THEOREM ConditionsSafety == FieldsSpec => []ConditionsKeepTheirMeaning
<1>1. FieldsInv => ConditionsKeepTheirMeaning
  BY DEF FieldsInv, Keeps, ConditionsKeepTheirMeaning
<1> QED BY <1>1, FieldsInvariance, PTL
=============================================================================
