-------------------------- MODULE SurveyNormalizer --------------------------
(***************************************************************************)
(* LimeSurvey rows turned into survey fields and groups:                   *)
(* services/survey_structure/visibility_normalizer.py,                     *)
(* field_normalizer.py, field_values.py and normalize_group of             *)
(* survey_settings.py.                                                     *)
(*                                                                         *)
(* A row is a record of the members these files read.                      *)
(***************************************************************************)
EXTENDS Conditions, SequencesExt

CONSTANT Numeric   \* for each text that float() reads, its number

(***************************************************************************)
(* Issues, and what a condition adds to a field or a group                 *)
(***************************************************************************)
_issue(level, code, members) ==
  Obj([level |-> Str(level), code |-> Str(code), message |-> Str("text")] ++ members)

\* Empty members are left out.
_compact(members) == [k \in {j \in DOMAIN members : members[j] \notin {Undefined, Str("")}} |-> members[k]]
ofQuestion(row) == _compact([fieldId |-> Str(row.qid), questionCode |-> Str(row.title)])

\* The members the expression adds, and the issue when it adds none.
visibilityOf(expression, index, current, members) ==
  LET result == parse_limesurvey_condition(expression, index, current)
  IN [members |-> IF result.condition = Undefined THEN << >>
                  ELSE [visibility |-> Obj([condition |-> result.condition])],
      issues  |-> IF result.ok THEN << >> ELSE <<_issue("warning", "INVALID_EXPRESSION", members)>>]

\* The first expression whose text is given and is not "1".
expressionOf(row) ==
  CASE row.relevance.op \notin unread -> row.relevance
    [] row.relevance.op \in unread /\ row.condition.op \notin unread -> row.condition
    [] OTHER -> row.full

normalize_field_visibility(row, index) ==
  visibilityOf(expressionOf(row), index, row.title,
               ofQuestion(row) ++ [details |-> Obj([sourceExpression |-> Str("expression")])])

(***************************************************************************)
(* Lists                                                                   *)
(***************************************************************************)
\* Some positions, one after the other: before has the pairs of which the first
\* comes first.
ranked(positions, before) ==
  [p \in 1..Cardinality(positions) |->
     CHOOSE i \in positions : Cardinality({j \in positions : <<j, i>> \in before}) = p - 1]

\* What a list has at some positions, in its order.
chosen(list, positions) ==
  LET places == ranked(positions, {pair \in positions \X positions : pair[1] < pair[2]})
  IN [p \in DOMAIN places |-> list[places[p]]]

(***************************************************************************)
(* Fields                                                                  *)
(***************************************************************************)
QUESTION_TYPES ==
  [S |-> "short-text", T |-> "long-text", D |-> "date", Y |-> "yes-no", G |-> "gender",
   L |-> "single-choice", O |-> "list-with-comment", M |-> "multiple-choice",
   P |-> "multiple-choice-with-comments", N |-> "number", F |-> "matrix", H |-> "matrix",
   B |-> "matrix", Q |-> "multiple-input", R |-> "ranking", X |-> "display"]
  ++ [native \in {":", "1", ";"} |-> "matrix"]
  ++ [native \in {"!"} |-> "single-choice"]

choiceTypes == {"yes-no", "gender", "single-choice", "list-with-comment", "multiple-choice",
                "multiple-choice-with-comments", "ranking"}
selectionTypes == {"multiple-choice", "multiple-choice-with-comments", "ranking"}

optionOf(code, i) == [code |-> Str(code), label |-> Str(code), order |-> Num(i - 1)]
optionList(texts) == Arr([i \in DOMAIN texts |-> Obj(optionOf(texts[i], i))])

\* A subquestion without a code is given one by its place, here one of the
\* first nine; codesOn keeps the codes of one scale.
childCodes(children) ==
  [i \in DOMAIN children |-> IF children[i].title = "" THEN "SQ00" \o ToString(i) ELSE children[i].title]

codesOn(scale, children) == chosen(childCodes(children), {i \in DOMAIN children : children[i].scale = scale})

optionCodes(row, children) ==
  CASE row.type \in {"M", "P"} \/ (row.type = "R" /\ row.answers = << >>) -> childCodes(children)
    [] row.type = "Y" -> <<"Y", "N">>
    [] row.type = "G" /\ row.answers = << >> -> <<"F", "M">>
    [] OTHER -> row.answers

selection_encoding(selected, unselected) ==
  Obj([selectedValue |-> Str(selected), unselectedValue |-> Str(unselected),
       selectedLabel |-> Str("Yes"), unselectedLabel |-> Str("No")])

isScalar(v) == getParsedType(v) \in {"string", "number", "boolean"}

\* What float() makes of a value: truth values are numbers as well.
asNumber(value) ==
  CASE getParsedType(value) = "number" -> value
    [] getParsedType(value) = "boolean" -> Num(IF Content(value) THEN 1 ELSE 0)
    [] getParsedType(value) = "string" /\ Content(value) \in DOMAIN Numeric -> Numeric[Content(value)]
    [] OTHER -> Undefined

\* The shape of the default depends on the type; a default that has not that
\* shape is dropped, items of a list one by one.  The members of an object are
\* not looked at, but an object without any is dropped with the empty members.
_default_value(type, value) ==
  LET If(kept) == IF kept THEN value ELSE Undefined
  IN CASE value \in {Undefined, Null, Str("")} \/ type = "display" -> Undefined
       [] value \notin {Undefined, Null, Str("")} /\ type \in {"short-text", "long-text", "date"} ->
            IF getParsedType(value) = "string" THEN value ELSE Str("text of the value")
       [] value \notin {Undefined, Null, Str("")} /\ type = "number" ->
            asNumber(value)
       [] value \notin {Undefined, Null, Str("")} /\ type \in selectionTypes ->
            Arr(SelectSeq(IF getParsedType(value) = "array" THEN Items(value) ELSE <<value>>, isScalar))
       [] value \notin {Undefined, Null, Str("")} /\ type \in {"matrix", "multiple-input"} ->
            If(getParsedType(value) = "object" /\ value # EmptyObj)
       [] OTHER -> If(isScalar(value))

(***************************************************************************)
(* Validation: limits are fixed numbers, anything else is reported         *)
(***************************************************************************)
\* The native attributes, and the members that keep them as they are.
limitNames ==
  [min_num_value |-> "minimumNumericValueExpression", max_num_value |-> "maximumNumericValueExpression",
   minimum_answer |-> "minimumAnswerExpression", maximum_answer |-> "maximumAnswerExpression",
   min_answers |-> "minimumAnswersExpression", max_answers |-> "maximumAnswersExpression"]
ruleNames ==
  [em_validation_q |-> "questionValidationExpression", em_validation_sq |-> "subquestionValidationExpression"]
cellNames == [multiflexible_min |-> "minimumCellValueExpression", multiflexible_max |-> "maximumCellValueExpression"]
nativeNames == limitNames ++ ruleNames ++ cellNames ++ [multiflexible_step |-> "cellStepExpression"]

_native_validation(row) ==
  IF DOMAIN row.limits = {} THEN Undefined
  ELSE Obj([m \in {nativeNames[n] : n \in DOMAIN row.limits} |-> Str("native")])

_validation_number(row, name) ==
  IF name \in DOMAIN row.limits /\ row.limits[name] \in DOMAIN Numeric
  THEN Numeric[row.limits[name]] ELSE Undefined

\* The first of two attributes that is given counts, even when it is dynamic.
firstLimit(row, preferred, fallback) ==
  _validation_number(row, IF preferred \in DOMAIN row.limits THEN preferred ELSE fallback)

cellGrid(row) == row.type = ":" /\ ~row.checkbox

_validation(row) ==
  LET type == QUESTION_TYPES[row.type]
  IN _compact(
       (IF type = "number" THEN [min |-> firstLimit(row, "min_num_value", "minimum_answer"),
                                 max |-> firstLimit(row, "max_num_value", "maximum_answer"),
                                 integer |-> row.integer] ELSE << >>)
       ++ (IF type \in selectionTypes THEN [minSelections |-> _validation_number(row, "min_answers"),
                                            maxSelections |-> _validation_number(row, "max_answers")] ELSE << >>)
       ++ (IF cellGrid(row) THEN [min |-> _validation_number(row, "multiflexible_min"),
                                  max |-> _validation_number(row, "multiflexible_max")] ELSE << >>))

\* Limits that are expressions, native expressions, and steps of cells.
validationIssues(row) ==
  LET read == DOMAIN limitNames \cup (IF cellGrid(row) THEN DOMAIN cellNames ELSE {})
      reported == {n \in DOMAIN row.limits :
                     \/ n \in read /\ row.limits[n] \notin DOMAIN Numeric
                     \/ n \in DOMAIN ruleNames
                     \/ cellGrid(row) /\ n = "multiflexible_step" /\ row.limits[n] # "1"}
      issue(name) == _issue("warning", "INVALID_VALIDATION",
                            ofQuestion(row) ++ [details |-> Obj([rule |-> Str(name),
                                                                 sourceValue |-> Str(row.limits[name])])])
  IN [i \in 1..Cardinality(reported) |-> issue(SetToSeq(reported)[i])]

(***************************************************************************)
(* What each native type adds                                              *)
(***************************************************************************)
responseAlias(item, name) == Obj([responseItemCode |-> Str(item), aliases |-> Arr(<<Str(name)>>)])

rowCodes(children) ==
  IF codesOn("0", children) = << >> THEN childCodes(children) ELSE codesOn("0", children)

columnCodes(row, children) ==
  CASE row.type = "B" -> [i \in 1..10 |-> ToString(i)]
    [] row.type \in {";", ":"} -> codesOn("1", children)
    [] row.type = "1" -> <<"0", "1">>
    [] OTHER -> row.answers

matrixMode(row) ==
  CASE row.type = ";" -> "text"
    [] row.type = ":" -> IF row.checkbox THEN "multiple" ELSE "number"
    [] row.type = "1" -> "dual-single"
    [] OTHER -> "single"

matrixOf(row, children) ==
  LET codes == columnCodes(row, children)
      column(i) == Obj(optionOf(codes[i], i)
                       ++ IF row.type = "1" THEN [options |-> optionList(row.scales[i])] ELSE << >>)
  IN Obj([mode |-> Str(matrixMode(row)), rows |-> optionList(rowCodes(children)),
          columns |-> Arr([i \in DOMAIN codes |-> column(i)])])

\* The names under which the answers of a ranking or of two scales are exported.
responseAliases(row, children) ==
  CASE row.type = "R" -> Arr([i \in DOMAIN optionCodes(row, children) |->
                               responseAlias(ToString(i), row.title \o ToString(i))])
    [] row.type = "1" ->
         LET codes == rowCodes(children)
         IN Arr(FlattenSeq([r \in DOMAIN codes |-> [s \in 1..2 |->
                  responseAlias(codes[r] \o "_" \o ToString(s - 1),
                                row.title \o "_" \o codes[r] \o "#" \o ToString(s - 1))]]))
    [] OTHER -> Undefined

\* The native texts that have no place in the contract are kept in an extension.
asText(expression) == IF expression.op = "none" THEN Undefined ELSE Str("expression")
extensionOf(type, texts) ==
  IF DOMAIN _compact(texts) = {} THEN Undefined
  ELSE Arr(<<Obj([type |-> Str(type), version |-> Str("1.0.0")] ++ _compact(texts))>>)

sourceOf(row, children) ==
  Obj(_compact([platform |-> Str("limesurvey"), surveyId |-> Str(SurveyId), groupId |-> Str(row.gid),
                questionId |-> Str(row.qid), nativeType |-> Str(row.type),
                responseAliases |-> responseAliases(row, children),
                extensions |-> extensionOf("limesurvey-question",
                  [questionRelevanceExpression |-> asText(row.relevance),
                   questionAndGroupRelevanceExpression |-> asText(row.full),
                   dateTimeFormat |-> Str(row.dateForm), nativeValidation |-> _native_validation(row)])]))

otherOf(row) ==
  Obj(_compact([code |-> Str("-oth-"), label |-> Str("Other"),
                textResponseKey |-> Str(row.title \o "_OTHER_value"),
                commentResponseKey |-> IF row.type = "P" THEN Str(row.title \o "_OTHER_comment") ELSE Undefined]))

\* Python's sort: rows of the same order keep their places.
inOrder(rows) ==
  LET before == {pair \in (DOMAIN rows) \X (DOMAIN rows) :
                   \/ rows[pair[1]].order < rows[pair[2]].order
                   \/ rows[pair[1]].order = rows[pair[2]].order /\ pair[1] < pair[2]}
      places == ranked(DOMAIN rows, before)
  IN [p \in DOMAIN rows |-> rows[places[p]]]

\* Two scales need answers for each.
isSupported(row) == row.type \in DOMAIN QUESTION_TYPES
\* A variant that asks for one scale only.
lacksAnyScale(row) == row.type = "1" /\ {row.scales[1], row.scales[2]} = {<< >>}
lacksScale(row) == row.type = "1" /\ << >> \in {row.scales[1], row.scales[2]}

unsupportedIssue(row) ==
  _issue("warning", "UNSUPPORTED_TYPE", ofQuestion(row) ++ [details |-> Obj([sourceType |-> Str(row.type)])])

\* What a field has besides its visibility.
requiredMembers(row, children) ==
  [id |-> Str(IF row.qid = "" THEN row.title ELSE row.qid), code |-> Str(row.title),
   type |-> Str(QUESTION_TYPES[row.type]), label |-> Str("Question"), required |-> Bool(row.mandatory),
   source |-> sourceOf(row, children)]

optionalMembers(row, children) ==
  LET type == QUESTION_TYPES[row.type]
      validation == _validation(row)
  IN _compact([groupId |-> Str(row.gid), defaultValue |-> _default_value(type, row.default),
               validation |-> IF DOMAIN validation = {} THEN Undefined ELSE Obj(validation),
               other |-> IF row.other THEN otherOf(row) ELSE Undefined,
               dateValueType |-> CASE type = "date" /\ row.dateForm = "" -> Str("date")
                                   [] type = "date" /\ row.dateForm # "" -> Str(row.dateForm)
                                   [] OTHER -> Undefined,
               rendering |-> IF type = "date" /\ row.dateForm = "date-time"
                             THEN Obj([dateOrder |-> Str("date-time")]) ELSE Undefined,
               options |-> IF type \in choiceTypes THEN optionList(optionCodes(row, children)) ELSE Undefined,
               matrix |-> IF type = "matrix" THEN matrixOf(row, children) ELSE Undefined,
               subquestions |-> IF type # "multiple-input" THEN Undefined
                                ELSE Arr([i \in DOMAIN children |->
                                       Obj([id |-> IF children[i].qid = "" THEN Null ELSE Str(children[i].qid)]
                                           ++ optionOf(childCodes(children)[i], i))]),
               responseEncoding |-> CASE row.type \in {"M", "P"} -> selection_encoding("Y", "N")
                                      [] row.type = ":" /\ row.checkbox -> selection_encoding("1", "0")
                                      [] OTHER -> Undefined])

lacksOptions(row, children) ==
  QUESTION_TYPES[row.type] \in choiceTypes /\ optionCodes(row, children) = << >>

\* The field of a question and the issues it raises on the way.
normalize_field(row, rows, index) ==
  LET children == inOrder(rows)
      visibility == normalize_field_visibility(row, index)
  IN [field  |-> IF lacksScale(row) THEN Undefined
                 ELSE Obj(requiredMembers(row, children) ++ optionalMembers(row, children) ++ visibility.members),
      issues |-> visibility.issues \o validationIssues(row)
                 \o (IF lacksOptions(row, children)
                     THEN <<_issue("warning", "EMPTY_OPTIONS", ofQuestion(row))>> ELSE << >>)
                 \o (IF lacksScale(row) THEN <<unsupportedIssue(row)>> ELSE << >>)]

(***************************************************************************)
(* Groups                                                                  *)
(***************************************************************************)
\* The order is set afterwards, from the place among the groups.
normalize_group(group, index) ==
  LET visibility == visibilityOf(group.relevance, index, "",
                      [details |-> Obj([sourceExpression |-> Str("expression"), scope |-> Str("group")])])
  IN [group  |-> [id |-> Str(group.gid), title |-> Str("Group"),
                  source |-> Obj(_compact([platform |-> Str("limesurvey"), groupId |-> Str(group.gid),
                                           extensions |-> extensionOf("limesurvey-group",
                                             [groupRelevanceExpression |-> asText(group.relevance)])]))]
                 ++ visibility.members,
      issues |-> visibility.issues]

\* The halves of a text; what is not a number counts as none.
halves(text) == IF text \in DOMAIN Numeric THEN Content(Numeric[text]) ELSE 0

\* int() cuts towards zero, and raises when the number is not finite.
indexIsReadable(native) == halves(native.questionindex) < Infinite
truncated(n) == IF n < 0 THEN -((-n) \div 2) ELSE n \div 2

\* The settings of the survey: what is not known is left out, and a delay is
\* never negative; of zero and what is not a number, max() takes the zero.
normalize_settings(native) ==
  LET named(names, key) == IF key \in DOMAIN names THEN Str(names[key]) ELSE Undefined
  IN Obj(_compact([layout |-> named([A |-> "all", G |-> "group", S |-> "question"], native.format),
                   questionIndex |-> named((-1 :> "inherit") @@ (0 :> "disabled") @@ (1 :> "incremental") @@ (2 :> "full"),
                                           truncated(halves(native.questionindex))),
                   navigationDelay |-> Halves(IF halves(native.navigationdelay) = NaN THEN 0
                                              ELSE Max({0, halves(native.navigationdelay)}))]
                  ++ [flag \in DOMAIN native.flags |-> Bool(native.flags[flag])]))
=============================================================================
