----------------------------- MODULE Conditions -----------------------------
(***************************************************************************)
(* LimeSurvey expressions translated into conditions of the contract:      *)
(* parse_limesurvey_condition of services/survey_structure/                *)
(* condition_parser.py, and what expressions and conditions mean.          *)
(*                                                                         *)
(* An expression is given as the tree that the scanner of                  *)
(* condition_tokens.py and the regular expressions of condition_parser.py  *)
(* find in its text; what they do not recognize is one more operator,      *)
(* "unsupported".  The parser calls itself on the operands, which are      *)
(* shorter texts.                                                          *)
(***************************************************************************)
EXTENDS ZodSchemas, ConditionReferences

CONSTANTS
    Expressions,   \* the expressions a survey may hold, with their operands
    TextLength(_)  \* the length of the text of an expression

\* The expressions an expression is made of.
operandsOf(e) ==
  CASE e.op \in {"any", "all"} -> {e.operands[i] : i \in DOMAIN e.operands}
    [] e.op = "not" -> {e.operand}
    [] OTHER -> {}

\* No text, the text "1", and any other text that stands for "1", as "(1)"
\* does: none of them is a condition, and the first two are not even read.
unread == {"none", "one"}
unconditional == unread \cup {"always"}

\* What the regular expressions recognize, and everything else.
leafOperators == {"answered", "empty", "compare", "count", "unsupported"}
isLeaf(e) == e.op \in leafOperators

ASSUME ExpressionsAssumption ==
  \A e \in Expressions :
    /\ e.op \in unconditional \cup {"never", "any", "all", "not"} \cup leafOperators
    /\ TextLength(e) \in Nat
    /\ e.op \in {"any", "all"} => e.operands \in Seq(operandsOf(e))
    /\ \A d \in operandsOf(e) : d \in Expressions /\ TextLength(d) < TextLength(e)

(***************************************************************************)
(* One operand                                                             *)
(***************************************************************************)
Unsupported == [ok |-> FALSE, condition |-> Undefined]
Translated(members) == [ok |-> TRUE, condition |-> Obj(members)]
Always == [ok |-> TRUE, condition |-> Undefined]

_reference_payload(target) ==
  Obj([fieldCode |-> Str(target[1])]
      ++ IF target[2] = "" THEN << >> ELSE [responseItemCode |-> Str(target[2])])

\* What a count counts depends on the question it names; "" when it is unclear.
_count_type(expression, row) ==
  CASE row.type \in {"M", "P"} /\ ~row.other
         /\ (row.type = "M" \/ expression.selectedOnly \/ expression.noComments) -> "selection-count"
    [] row.type = "R" /\ ~expression.selectedOnly -> "selection-count"
    [] row.type \in {"Q", ";", ":", "F", "H", "B", "1"} /\ ~expression.selectedOnly
         /\ ~(row.type = ":" /\ row.checkbox) -> "answered-count"
    [] OTHER -> ""

\* The question the expression belongs to, when it has one scalar response.
_current_scalar_reference(index, current) ==
  IF current \in DOMAIN index.questions
     /\ index.questions[current].type \in {"S", "T", "N", "D", "Y", "G", "L", "!"}
  THEN resolve_reference(index, current) ELSE << >>

\* The response an operand is about: comparisons know "this", counts "self".
targetOf(expression, index, current) ==
  CASE expression.op = "compare" /\ expression.reference = "this" -> _current_scalar_reference(index, current)
    [] expression.op = "count" /\ expression.reference = "self" ->
         IF current = "" THEN << >> ELSE resolve_reference(index, current)
    [] OTHER -> resolve_reference(index, expression.reference)

\* A reference and what is asked of it.
translateLeaf(expression, index, current) ==
  LET target == targetOf(expression, index, current)
      about(type) == [type |-> Str(type), responseReference |-> _reference_payload(target)]
      asked(type) == about(type) ++ [operator |-> Str(expression.operator), value |-> expression.value]
      counted == _count_type(expression, index.questions[target[1]])
  IN CASE expression.op = "unsupported" -> Unsupported
       [] expression.op # "unsupported" /\ target = << >> -> Unsupported
       [] expression.op = "answered" /\ target # << >> -> Translated(about("answered"))
       [] expression.op = "empty" /\ target # << >> -> Translated(about("not-answered"))
       [] expression.op = "compare" /\ target # << >> -> Translated(asked("comparison"))
       [] expression.op = "count" /\ target # << >> ->
            IF counted = "" THEN Unsupported ELSE Translated(asked(counted))

(***************************************************************************)
(* The whole expression                                                    *)
(***************************************************************************)
\* A variant where an operand that always holds becomes one that never does.
_requiredNever(result) ==
  IF result.condition = Undefined THEN Obj([type |-> Str("constant"), value |-> Bool(FALSE)])
  ELSE result.condition

\* An operand that always holds becomes a constant.
_required(result) ==
  IF result.condition = Undefined THEN Obj([type |-> Str("constant"), value |-> Bool(TRUE)])
  ELSE result.condition

\* One operand that is not supported leaves the whole expression without a
\* condition.
parse_limesurvey_condition(expression, index, current) ==
  LET parsed[e \in Expressions] ==
        CASE e.op \in unconditional -> Always
          [] e.op = "never" -> Translated([type |-> Str("constant"), value |-> Bool(FALSE)])
          [] isLeaf(e) -> translateLeaf(e, index, current)
          [] e.op = "not" ->
               IF parsed[e.operand].ok
               THEN Translated([type |-> Str("not"), condition |-> _required(parsed[e.operand])])
               ELSE Unsupported
          [] OTHER ->
               IF \E d \in operandsOf(e) : ~parsed[d].ok THEN Unsupported
               ELSE Translated([type |-> Str(e.op),
                                conditions |-> Arr([i \in DOMAIN e.operands |-> _required(parsed[e.operands[i]])])])
  IN parsed[expression]

----------------------------------------------------------------------------
(***************************************************************************)
(* What expressions and conditions say                                     *)
(***************************************************************************)
\* An expression, its operands, theirs, and so on.
within(expression) ==
  LET inside[e \in Expressions] == {e} \cup UNION {inside[d] : d \in operandsOf(e)}
  IN inside[expression]

\* The conditions at the leaves of an expression; Undefined is among them when
\* one of them has none.
leaves(expression, index, current) ==
  {translateLeaf(e, index, current).condition : e \in {d \in within(expression) : isLeaf(d)}}

\* Whether an expression holds when exactly the conditions in a set do.
holds(expression, index, current, true) ==
  LET value[e \in Expressions] ==
        CASE e.op \in unconditional -> TRUE
          [] e.op = "never" -> FALSE
          [] isLeaf(e) -> translateLeaf(e, index, current).condition \in true
          [] e.op = "not" -> ~value[e.operand]
          [] e.op = "any" -> \E d \in operandsOf(e) : value[d]
          [] OTHER -> \A d \in operandsOf(e) : value[d]
  IN value[expression]

\* The parts of a condition that has several.
partsOf(condition) ==
  {Items(Get(condition, "conditions"))[i] : i \in DOMAIN Items(Get(condition, "conditions"))}

\* Whether a condition does.  Conditions are trees as well: a set of them is
\* given that holds the parts of each.
conditionHolds(condition, conditions, true) ==
  LET value[c \in conditions] ==
        CASE TextOf(c, "type") \notin {"constant", "any", "all", "not"} -> c \in true
          [] TextOf(c, "type") = "constant" -> Get(c, "value") = Bool(TRUE)
          [] TextOf(c, "type") = "not" -> ~value[Get(c, "condition")]
          [] TextOf(c, "type") = "any" -> \E p \in partsOf(c) : value[p]
          [] OTHER -> \A p \in partsOf(c) : value[p]
  IN value[condition]

\* What an expression and its operands became.
conditionsOf(expression, index, current) ==
  {_required(parse_limesurvey_condition(e, index, current)) : e \in within(expression)}

\* A condition says what its expression says, whatever holds at the leaves; a
\* condition that is Undefined always holds.
meansTheSame(expression, index, current, condition) ==
  LET conditions == conditionsOf(expression, index, current)
  IN \A true \in SUBSET leaves(expression, index, current) :
       holds(expression, index, current, true)
         = (condition = Undefined \/ conditionHolds(condition, conditions, true))
=============================================================================
