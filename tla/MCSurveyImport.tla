--------------------------- MODULE MCSurveyImport ---------------------------
(***************************************************************************)
(* Surveys to import: questions whose names run into each other, every     *)
(* native type with defaults, limits and answers that fit it or do not,    *)
(* expressions of every shape, and questions that are dropped.             *)
(***************************************************************************)
EXTENDS MCSurveyContract, SurveyImport

MCNumeric ==
  [n \in {"-1", "0", "1", "2"} |-> CASE n = "-1" -> Num(-1) [] n = "0" -> Num(0) [] n = "1" -> Num(1) [] n = "2" -> Num(2)]
  @@ ("1.5" :> Halves(3)) @@ ("-0.5" :> Halves(-1)) @@ ("nan" :> Halves(NaN)) @@ ("inf" :> Halves(Infinite))

none == [op |-> "none"]
Row(type, title, qid) ==
  [qid |-> qid, parent |-> "0", title |-> title, type |-> type, gid |-> "1", order |-> 0,
   relevance |-> none, condition |-> none, full |-> none, other |-> FALSE, mandatory |-> FALSE,
   default |-> Undefined, answers |-> << >>, scales |-> <<<< >>, << >>>>, limits |-> << >>,
   integer |-> Undefined, checkbox |-> FALSE, dateForm |-> "", scale |-> "0"]
Sub(title, qid, parent) == [Row("T", title, qid) EXCEPT !.parent = parent]

Native == [format |-> "", questionindex |-> "", navigationdelay |-> "", flags |-> << >>]
Payload(questions) ==
  [sid |-> "7", questions |-> questions, issues |-> << >>, state |-> Undefined, survey |-> Native,
   groups |-> <<[gid |-> "2", order |-> 1, relevance |-> none], [gid |-> "1", order |-> 0, relevance |-> none]>>]

compare(reference, value) ==
  [op |-> "compare", reference |-> reference, operator |-> "equals", value |-> value]
answered(reference) == [op |-> "answered", reference |-> reference]
counted(reference, selectedOnly) ==
  [op |-> "count", reference |-> reference, operator |-> "greater-than", value |-> Num(0),
   selectedOnly |-> selectedOnly, noComments |-> FALSE]
junction(op, operands) == [op |-> op, operands |-> operands]
negation(operand) == [op |-> "not", operand |-> operand]

(***************************************************************************)
(* Names: Q2 may be a code, the name of question 2, or item 2 of Q         *)
(***************************************************************************)
Named ==
  LET code == Row("S", "Q2", "1")
      second == Row("S", "A", "2")
      parent == Row("Q", "Q", "3")
      child == Sub("2", "4", "3")
      asker(reference) == [Row("S", "Z", "9") EXCEPT !.relevance = compare(reference, Str("yes"))]
      orders == SetToSeqs({code, second, parent})
  IN {Payload(Append(o, child) \o <<asker(r)>>) :
        o \in orders, r \in {"Q2", "Q_2", "32", "A", "7X1X2", "Q3_S4", "nobody"}}
     \cup {Payload(<<second, code, asker("Q2")>>), Payload(<<second, parent, child, asker("Q2")>>)}

(***************************************************************************)
(* Types                                                                   *)
(***************************************************************************)
nativeTypes == DOMAIN QUESTION_TYPES
defaults == {Undefined, Null, Str(""), Str("A"), Str("1"), Str("nan"), Num(1), Bool(TRUE),
             Arr(<<Str("A"), Null>>), Arr(<<Str("A"), Num(1)>>)}
objects == {EmptyObj, Obj([A |-> Str("1")]), Obj([A |-> Obj([A |-> Str("1")])]), Obj([A |-> Num(1)]),
            Obj([A |-> Obj([C |-> Bool(TRUE)])]), Obj([A |-> Obj([C |-> Num(1)])])}
Limits == {<< >>, [min_answers |-> "1", max_num_value |-> "2", multiflexible_min |-> "1"],
           [min_num_value |-> "1", maximum_answer |-> "X", max_answers |-> "X", em_validation_q |-> "X",
            multiflexible_step |-> "2", multiflexible_max |-> "X"],
           [min_answers |-> "-1", max_num_value |-> "1.5", multiflexible_min |-> "-1"],
           [max_answers |-> "1.5", min_num_value |-> "-0.5", minimum_answer |-> "X"]}

Typed ==
  LET children == <<[Sub("A", "11", "1") EXCEPT !.order = 2], [Sub("B", "12", "1") EXCEPT !.order = 1],
                    [Sub("", "13", "1") EXCEPT !.order = 1], [Sub("C", "14", "1") EXCEPT !.scale = "1"]>>
      answersOf == {[answers |-> << >>, scales |-> <<<<"A">>, << >>>>],
                    [answers |-> <<"A", "B">>, scales |-> <<<<"A">>, <<"A">>>>]}
  IN {Payload(<<[Row(type, "Q", "1") EXCEPT !.answers = a.answers, !.scales = a.scales, !.default = default,
                                            !.relevance = IF type = "S" THEN counted("Q", TRUE) ELSE none]>>
              \o children) :
        type \in nativeTypes, a \in answersOf, default \in {Undefined, Str("A")}}
     \cup {Payload(<<[Row(type, "Q", "1") EXCEPT !.limits = limits, !.checkbox = c, !.mandatory = c,
                                                !.other = c /\ type \in {"L", "!", "M", "P"},
                                                !.integer = Bool(c), !.answers = <<"A">>, !.scales = <<<<"A">>, <<"A">>>>]>>
                   \o children) :
             type \in nativeTypes, limits \in Limits, c \in BOOLEAN}
     \cup {Payload(<<[Row(type, "Q", "1") EXCEPT !.default = default, !.answers = <<"A">>]>>
                   \o children) :
             type \in {"S", "N", "L", "M", "F", "Q"}, default \in defaults}
     \cup {Payload(<<[Row(t[1], "Q", "1") EXCEPT !.default = default, !.answers = <<"A">>, !.checkbox = t[2],
                                                !.scales = <<<<"A">>, <<"A">>>>]>> \o children) :
             t \in {<<":", TRUE>>} \cup ({"N", "M", "F", "Q", ":", ";", "1"} \X {FALSE}), default \in objects}
     \cup {Payload(<<Row("Q", "Q", "1"), Sub("A", "", "1")>>)}
     \cup {Payload(<<[Row("D", "Q", "1") EXCEPT !.default = default, !.dateForm = form]>>) :
             default \in {Undefined, Str("2024-02-29"), Str("A")}, form \in {"", "year", "date-time"}}

(***************************************************************************)
(* Expressions                                                             *)
(***************************************************************************)
operands == {[op |-> "one"], [op |-> "always"], [op |-> "never"], [op |-> "unsupported"], compare("T", Str("A")),
             compare("nobody", Null), compare("this", Str("A")), compare("M_A", Bool(TRUE)),
             answered("T"), [answered("L") EXCEPT !.op = "empty"], counted("M", TRUE), counted("self", FALSE)}
Trees ==
  operands \cup {negation(e) : e \in operands}
  \cup {junction(op, <<e, f>>) : op \in {"any", "all"}, e \in operands, f \in operands}
  \cup {junction("any", <<negation(e), junction("all", <<e, compare("L", Str("A"))>>)>>) : e \in operands}

Conditional ==
  LET others == <<Row("T", "T", "2"), [Row("L", "L", "3") EXCEPT !.answers = <<"A">>],
                  Row("M", "M", "4"), Sub("A", "5", "4")>>
      asker(e, type) == [Row(type, "Q", "1") EXCEPT !.relevance = e]
  IN {Payload(<<asker(e, "S")>> \o others) : e \in Trees}
     \cup {Payload(<<asker(e, type)>> \o others) : e \in operands, type \in {"M", "F"}}
     \cup {Payload(<<[asker(e, "S") EXCEPT !.condition = f, !.full = compare("T", Str("B"))]>> \o others) :
             e \in {none, [op |-> "one"], [op |-> "always"], answered("T")},
             f \in {none, [op |-> "one"], [op |-> "always"], [op |-> "never"], compare("L", Str("A"))}}
     \cup {[Payload(others) EXCEPT !.groups = <<[gid |-> "1", order |-> 1, relevance |-> e],
                                                [gid |-> "2", order |-> 0, relevance |-> none]>>] : e \in operands}

(***************************************************************************)
(* Questions that are dropped                                              *)
(***************************************************************************)
Dropped ==
  LET kinds == {Row("S", "Q", "1"), Row("S", "Q", "2"), Row("*", "E", "3"), Row("S", "", "4"),
               [Row("1", "D", "5") EXCEPT !.scales = <<<<"A">>, << >>>>], Sub("A", "6", "8"), Sub("B", "7", "3"),
               Sub("C", "10", "6")}
      placed(row) == {row, [row EXCEPT !.order = 1], [row EXCEPT !.gid = "2"]}
  IN {Payload(<<first, row>>) : first \in UNION {placed(r) : r \in kinds}, row \in kinds}
     \cup {[Payload(<<Row("S", "Q", "1")>>) EXCEPT !.sid = ""]}
     \cup {[Payload(<<Row("S", "Q", "1")>>) EXCEPT
              !.state = Get(CHOOSE l \in Loads : TRUE, "responseState"),
              !.issues = Items(Get(CHOOSE l \in Loads : TRUE, "issues"))]}

Settings ==
  {[Payload(<<Row("S", "Q", "1")>>) EXCEPT !.survey = native] :
     native \in [format : {"", "A", "X"}, questionindex : {"", "-1", "1.5", "-0.5", "nan", "inf"}, navigationdelay : {"-1", "1.5", "nan", "inf"},
                 flags : {<< >>, [showWelcome |-> TRUE, showGroupName |-> FALSE]}]}

MCPayloads == Settings \cup Named \cup Typed \cup Conditional \cup Dropped

\* A condition on a question that is dropped, which a survey may well have.
DroppedButNamed ==
  {Payload(<<dropped, [Row("S", "Q", "1") EXCEPT !.relevance = compare("E", Num(1))]>>) :
     dropped \in {Row("*", "E", "3"), [Row("1", "E", "5") EXCEPT !.scales = <<<<"A">>, << >>>>]}}

(***************************************************************************)
(* The expressions of these surveys, with their operands                   *)
(***************************************************************************)
withOperands(S) == S \cup UNION {operandsOf(e) : e \in S}

\* A definition of its own, so that TLC evaluates it once.
expressionsUsed ==
  withOperands(withOperands(withOperands(
    Trees \cup {none, counted("Q", TRUE), compare("T", Str("B")), compare("L", Str("A")), compare("E", Num(1))}
    \cup {compare(r, Str("yes")) : r \in {"Q2", "Q_2", "32", "A", "7X1X2", "Q3_S4", "nobody"}})))
MCExpressions == expressionsUsed

\* A text that has operands is longer than each of them.
RECURSIVE MCTextLength(_)
MCTextLength(e) == 1 + Max({0} \cup {MCTextLength(d) : d \in operandsOf(e)})
=============================================================================
