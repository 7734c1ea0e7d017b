---------------------------- MODULE SurveyRules ----------------------------
(***************************************************************************)
(* The refinements of the survey contract: what shapes alone cannot say.   *)
(*                                                                         *)
(* The functions of src/schemas/validate-survey.cjs push an issue for      *)
(* every rule that is broken; here each of them is the set of those        *)
(* issues, under the name of the function.  They run on values that have   *)
(* the right shape (see ParseEffects) but may have broken checks.          *)
(***************************************************************************)
EXTENDS FieldSchemas, SequencesExt

CONSTANTS Language,   \* for each regular expression that compiles, the texts it matches
          DateParts   \* for each text written as a date or a time, its form and its parts

ASSUME LanguageAssumption == {"kebab", "datetime", "languageTag"} \subseteq DOMAIN Language

When(broken, path, rule) == IF broken THEN {CustomIssue(path, rule)} ELSE {}

\* What `if (x)` asks of an absent or textual member.
Given(v, key) == Get(v, key) \notin {Undefined, Str("")}

typeOf(field) == TextOf(field, "type")
codeOf(item) == TextOf(item, "code")
codes(items) == {codeOf(items[i]) : i \in DOMAIN items}
options(field) == Items(Get(field, "options"))
subquestions(field) == Items(Get(field, "subquestions"))
rows(field) == Items(Get(Get(field, "matrix"), "rows"))
columns(field) == Items(Get(Get(field, "matrix"), "columns"))
isMatrix(field, modes) ==
  typeOf(field) = "matrix" /\ TextOf(Get(field, "matrix"), "mode") \in modes

checkboxTypes == {"multiple-choice", "multiple-choice-with-comments"}

\* The positions whose value occurs at an earlier position too.
Repeats(values) == {j \in DOMAIN values : \E i \in 1..(j - 1) : values[i] = values[j]}

(***************************************************************************)
(* Rules of one field                                                      *)
(***************************************************************************)
FIELD_WIDGET_COMPATIBILITY(type) ==
  CASE type \in {"short-text", "number", "display"} -> {"text-input"}
    [] type = "long-text"             -> {"text-area"}
    [] type = "date"                  -> {"date-picker"}
    [] type = "yes-no"                -> {"radio-group", "dropdown"}
    [] type = "gender"                -> {"gender-selector", "radio-group", "dropdown"}
    [] type = "single-choice"         -> {"radio-group", "dropdown", "numbered-radio-group"}
    [] type = "list-with-comment"     -> {"dropdown"}
    [] type = "multiple-choice"       -> {"dropdown", "checkbox-group-with-comments"}
    [] type = "multiple-choice-with-comments" -> {"checkbox-group-with-comments"}
    [] type = "matrix"                -> {"matrix-grid"}
    [] type = "multiple-input"        -> {"multiple-input-list"}
    [] type = "ranking"               -> {"ranking-list"}
    [] type = "boolean"               -> {"checkbox", "toggle"}
    [] type = "range"                 -> {"slider"}
    [] type = "custom"                -> {"custom"}

\* A rule of a validation is for the types it can apply to.
validationRulesApply(field) ==
  LET rules == {k \in Keys(Get(field, "validation")) : Has(Get(field, "validation"), k)}
  IN /\ rules \cap {"min", "max", "integer"} # {} =>
          typeOf(field) \in numericTypes \/ isMatrix(field, {"number"})
     /\ rules \cap {"minLength", "maxLength", "pattern"} # {} => typeOf(field) \in textTypes
     /\ rules \cap {"minSelections", "maxSelections"} # {} =>
          typeOf(field) \in multipleSelectionTypes

validateOther(field) ==
  LET other == Get(field, "other")
  IN IF other = Undefined THEN {}
     ELSE When(codeOf(other) \in codes(options(field)), <<"other", "code">>,
               "other-option-code-collision")
          \cup When(Given(other, "commentResponseKey")
                      /\ typeOf(field) # "multiple-choice-with-comments",
                    <<"other", "commentResponseKey">>, "other-comment-key-incompatible-field-type")
          \cup When(typeOf(field) \in {"yes-no", "gender", "ranking"}, <<"other">>,
                    "other-response-incompatible-field-type")

validateResponseEncoding(field) ==
  LET encoding == Get(field, "responseEncoding")
  IN IF encoding = Undefined THEN {}
     ELSE When(~(typeOf(field) \in checkboxTypes \cup {"boolean"} \/ isMatrix(field, {"multiple"})),
               <<"responseEncoding">>, "response-encoding-incompatible-field-type")
          \cup When(getParsedType(Get(encoding, "selectedValue"))
                      # getParsedType(Get(encoding, "unselectedValue")),
                    <<"responseEncoding">>, "response-encoding-value-type-mismatch")
          \cup When(Has(encoding, "selectedLabel") # Has(encoding, "unselectedLabel"),
                    <<"responseEncoding">>, "response-encoding-label-pair-incomplete")

DaysIn(year, month) ==
  CASE month = 2 -> IF year % 4 = 0 /\ (year % 100 # 0 \/ year % 400 = 0) THEN 29 ELSE 28
    [] month \in {4, 6, 9, 11} -> 30
    [] OTHER -> 31

isDateDefault(type, text) ==
  /\ text \in DOMAIN DateParts
  /\ LET parts == DateParts[text]
     IN /\ parts.form = type
        /\ type = "year" => parts.year >= 1
        /\ type \notin {"year", "time"} => /\ parts.year >= 1
                                           /\ parts.month \in 1..12
                                           /\ parts.day \in 1..DaysIn(parts.year, parts.month)
        /\ type \in {"time", "date-time"} =>
             /\ parts.hour <= 23 /\ parts.minute <= 59 /\ parts.second < 60
             /\ parts.offset[1] <= 23 /\ parts.offset[2] <= 59

(***************************************************************************)
(* The default value of a field                                            *)
(***************************************************************************)
firstDuplicate(values) ==
  IF Repeats(values) = {} THEN Undefined ELSE values[Min(Repeats(values))]

\* An absent bound bounds nothing.
Below(rules, key, n) == Has(rules, key) /\ n < Content(Get(rules, key))
Above(rules, key, n) == Has(rules, key) /\ n > Content(Get(rules, key))

invalidNumber(rules, value) ==
  \/ Below(rules, "min", Content(value))
  \/ Above(rules, "max", Content(value))
  \/ Get(rules, "integer") = Bool(TRUE) /\ Content(value) % 2 # 0

\* Formly anchors the patterns of texts.
Anchored(pattern) ==
  LET n == Len(pattern)
  IN (IF n > 0 /\ SubSeq(pattern, 1, 1) = "^" THEN "" ELSE "^") \o pattern
     \o (IF n > 0 /\ SubSeq(pattern, n, n) = "$" THEN "" ELSE "$")

\* Lengths are counted in wholes, numbers in halves.
invalidText(rules, text) ==
  \/ Below(rules, "minLength", 2 * Len(text))
  \/ Above(rules, "maxLength", 2 * Len(text))
  \/ /\ Has(rules, "pattern")
     /\ Anchored(TextOf(rules, "pattern")) \in DOMAIN Language
     /\ text \notin Language[Anchored(TextOf(rules, "pattern"))]

unknownDefault(broken, suffix) ==
  When(broken, <<"defaultValue">> \o suffix, "default-value-reference-missing")

validateSelectionDefault(field, selected) ==
  LET rules == Get(field, "validation")
      n == Len(selected)
      allowed == {Str(c) : c \in codes(options(field))}
  IN When(Below(rules, "minSelections", 2 * n) \/ Above(rules, "maxSelections", 2 * n),
          <<"defaultValue">>, "default-value-validation-mismatch")
     \cup When(firstDuplicate(selected) \notin {Undefined, Str("")},
               <<"defaultValue">>, "duplicate-default-option-code")
     \cup When(/\ typeOf(field) = "ranking"
               /\ n # Len(options(field)) \/ ~(allowed \subseteq ToSet(selected)),
               <<"defaultValue">>, "ranking-default-not-a-complete-order")

validateOptionsDefault(field, value) ==
  LET allowed == {Str(c) : c \in codes(options(field))}
                   \cup {Get(o, "code") : o \in {Get(field, "other")} \ {Undefined}}
  IN IF getParsedType(value) = "array"
     THEN UNION {unknownDefault(Items(value)[i] \notin allowed, <<Index(i)>>) : i \in DOMAIN Items(value)}
          \cup validateSelectionDefault(field, Items(value))
     ELSE unknownDefault(value \notin allowed, << >>)

\* One cell of the default of a matrix that has cells.
validateCellDefault(field, row, column, value) ==
  LET scale == SelectSeq(columns(field), LAMBDA c : codeOf(c) = column)
  IN unknownDefault(scale = << >>, <<row, column>>)
     \cup unknownDefault(/\ isMatrix(field, {"dual-single"}) /\ scale # << >>
                         /\ value \notin {Str(c) : c \in codes(options(scale[1]))}, <<row, column>>)
     \cup When(isMatrix(field, {"number"}) /\ invalidNumber(Get(field, "validation"), value),
               <<"defaultValue", row, column>>, "default-value-validation-mismatch")

validateMatrixDefault(field, value) ==
  UNION {LET row == Get(value, r)
         IN unknownDefault(r \notin codes(rows(field)), <<r>>)
            \cup IF isMatrix(field, {"single"})
                 THEN unknownDefault(Content(row) \notin codes(columns(field)), <<r>>)
                 ELSE UNION {validateCellDefault(field, r, c, Get(row, c)) : c \in Keys(row)}
         : r \in Keys(value)}

validateDefaultValue(field) ==
  LET value == Get(field, "defaultValue")
      rules == Get(field, "validation")
  IN CASE value = Undefined -> {}
       [] value # Undefined /\ typeOf(field) \in numericTypes ->
            When(invalidNumber(rules, value), <<"defaultValue">>, "default-value-validation-mismatch")
       [] value # Undefined /\ typeOf(field) \in textTypes ->
            When(invalidText(rules, Content(value)), <<"defaultValue">>,
                 "default-value-validation-mismatch")
       [] value # Undefined /\ Has(field, "options") -> validateOptionsDefault(field, value)
       [] value # Undefined /\ typeOf(field) = "multiple-input" ->
            UNION {unknownDefault(k \notin codes(subquestions(field)), <<k>>) : k \in Keys(value)}
       [] value # Undefined /\ typeOf(field) = "matrix" -> validateMatrixDefault(field, value)
       [] OTHER -> {}

validateFieldRules(field) ==
  LET widget == Get(Get(field, "rendering"), "widget")
  IN When(widget # Undefined /\ Content(widget) \notin FIELD_WIDGET_COMPATIBILITY(typeOf(field)),
          <<"rendering", "widget">>, "widget-not-compatible-with-field-type")
     \cup When(~validationRulesApply(field), <<"validation">>, "validation-rule-not-applicable")
     \cup validateOther(field)
     \cup validateResponseEncoding(field)
     \cup validateDefaultValue(field)
     \cup When(/\ typeOf(field) = "date" /\ Has(field, "defaultValue")
               /\ ~isDateDefault(TextOf(field, "dateValueType"), TextOf(field, "defaultValue")),
               <<"defaultValue">>, "date-default-value-format-mismatch")

\* The rules of a validation by itself.
validateValidation(rules) ==
  When(Has(rules, "pattern") /\ TextOf(rules, "pattern") \notin DOMAIN Language,
       <<"pattern">>, "invalid-validation-pattern")
  \cup UNION {When(Has(rules, p[1]) /\ Above(rules, p[2], Content(Get(rules, p[1]))),
                   <<p[2]>>, "unordered-bounds")
              : p \in {<<"min", "max">>, <<"minLength", "maxLength">>,
                       <<"minSelections", "maxSelections">>}}

validateLanguage(text) == When(text \notin Language["languageTag"], << >>, "language-tag")

validateDifferentValues(encoding) ==
  When(Get(encoding, "selectedValue") = Get(encoding, "unselectedValue"), << >>, "different-values")

(***************************************************************************)
(* The keys of the answers, and the codes of the items of a field          *)
(***************************************************************************)
Map(items, f(_)) == [i \in DOMAIN items |-> f(items[i])]
FlatMap(items, f(_)) == FlattenSeq(Map(items, f))

\* The keys of one item for every row and column of a matrix.
cellCodes(field) ==
  FlatMap(rows(field), LAMBDA row :
            IF isMatrix(field, {"single"}) THEN <<codeOf(row)>>
            ELSE Map(columns(field), LAMBDA column : codeOf(row) \o "_" \o codeOf(column)))

otherKeys(field) ==
  LET other == Get(field, "other")
  IN (IF other = Undefined THEN << >> ELSE <<TextOf(other, "textResponseKey")>>)
     \o (IF Given(other, "commentResponseKey") THEN <<TextOf(other, "commentResponseKey")>> ELSE << >>)

RECURSIVE fieldResponseKeys(_, _)
fieldResponseKeys(field, prefix) ==
  LET key == IF prefix = "" THEN codeOf(field) ELSE prefix \o "_" \o codeOf(field)
      Under(code) == key \o "_" \o code
      UnderItem(item) == Under(codeOf(item))
      type == typeOf(field)
  IN CASE type = "display" -> << >>
       [] type = "custom" ->
            FlatMap(Items(Get(field, "childrenFields")), LAMBDA child : fieldResponseKeys(child, key))
       [] type = "matrix" -> Map(cellCodes(field), Under)
       [] type = "multiple-input" -> Map(subquestions(field), UnderItem)
       [] type = "ranking" -> [i \in DOMAIN options(field) |-> Under(ToString(i))]
       [] type = "multiple-choice" -> Map(options(field), UnderItem) \o otherKeys(field)
       [] type = "multiple-choice-with-comments" ->
            FlatMap(options(field), LAMBDA o : <<UnderItem(o), UnderItem(o) \o "_comment">>)
            \o otherKeys(field)
       [] type = "list-with-comment" -> <<key, Under("comment")>> \o otherKeys(field)
       [] OTHER -> <<key>> \o otherKeys(field)

fieldResponseItemCodes(field) ==
  CASE typeOf(field) = "ranking" -> {ToString(i) : i \in DOMAIN options(field)}
    [] typeOf(field) # "ranking" /\ Has(field, "options") -> codes(options(field))
    [] typeOf(field) = "multiple-input" -> codes(subquestions(field))
    [] typeOf(field) = "matrix" ->
         codes(rows(field)) \cup {codeOf(rows(field)[r]) \o "_" \o codeOf(columns(field)[c]) :
                                   r \in DOMAIN rows(field), c \in DOMAIN columns(field)}
    [] OTHER -> {}

conditionResponseItemCodes(field) ==
  CASE typeOf(field) \in checkboxTypes ->
         codes(options(field)) \cup {codeOf(o) : o \in {Get(field, "other")} \ {Undefined}}
    [] typeOf(field) = "matrix" -> ToSet(cellCodes(field))
    [] typeOf(field) \in {"ranking", "multiple-input"} -> fieldResponseItemCodes(field)
    [] OTHER -> {}

(***************************************************************************)
(* Conditions                                                              *)
(***************************************************************************)
\* An item of a matrix that has one column per scale or number.
cellsOf(field, column) == {codeOf(rows(field)[r]) \o "_" \o codeOf(column) : r \in DOMAIN rows(field)}

comparisonValueMatches(field, item, value) ==
  LET type == typeOf(field)
      encoding == Get(field, "responseEncoding")
      OneOfCodes(items) == value \in {Str(c) : c \in codes(items)}
  IN CASE value = Null \/ type = "multiple-input" -> TRUE
       [] value # Null /\ (type \in numericTypes \/ isMatrix(field, {"number"})) ->
            getParsedType(value) = "number"
       [] value # Null /\ (type \in checkboxTypes \cup {"boolean"} \/ isMatrix(field, {"multiple"})) ->
            \/ getParsedType(value) = "boolean"
            \/ value \in {Get(encoding, "selectedValue"), Get(encoding, "unselectedValue")}
       [] value # Null /\ isMatrix(field, {"single"}) -> OneOfCodes(columns(field))
       [] value # Null /\ isMatrix(field, {"dual-single"}) ->
            LET scale == SelectSeq(columns(field), LAMBDA c : item \in cellsOf(field, c))
            IN scale # << >> /\ OneOfCodes(options(scale[1]))
       [] value # Null /\ Has(field, "options") ->
            OneOfCodes(options(field)) \/ value = Get(Get(field, "other"), "code")
       [] OTHER -> getParsedType(value) = "string"

collectionTypes == {"custom", "display", "matrix", "multiple-input"} \cup multipleSelectionTypes

isOrdered(field, item) ==
  \/ typeOf(field) \in numericTypes \cup {"date"}
  \/ isMatrix(field, {"number"}) /\ \E c \in ToSet(columns(field)) : item \in cellsOf(field, c)

\* What a condition that names this field may not ask of it.
referenceIssues(condition, field, path) ==
  LET type == TextOf(condition, "type")
      reference == Get(condition, "responseReference")
      named == Given(reference, "responseItemCode")
      item == IF named THEN TextOf(reference, "responseItemCode") ELSE ""
  IN When(named /\ item \notin conditionResponseItemCodes(field),
          path \o <<"responseReference", "responseItemCode">>, "condition-reference-missing-response-item")
     \cup When(type = "comparison" /\ ~named /\ typeOf(field) \in collectionTypes,
               path \o <<"responseReference">>, "comparison-requires-scalar-response")
     \cup When(type = "comparison" /\ ~comparisonValueMatches(field, item, Get(condition, "value")),
               path \o <<"value">>, "comparison-value-type-mismatch")
     \cup When(type = "selection-count"
                 /\ ~(typeOf(field) \in multipleSelectionTypes \/ isMatrix(field, {"multiple"})),
               path \o <<"responseReference", "fieldCode">>, "selection-count-incompatible-field-type")
     \cup When(type = "answered-count"
                 /\ ~(typeOf(field) = "multiple-input"
                      \/ isMatrix(field, {"single", "text", "number", "dual-single"})),
               path \o <<"responseReference", "fieldCode">>, "answered-count-incompatible-field-type")
     \cup When(type \in {"selection-count", "answered-count"} /\ named,
               path \o <<"responseReference", "responseItemCode">>, "count-requires-whole-field")
     \cup When(/\ type = "comparison" /\ TextOf(condition, "operator") \in orderedOperators
               /\ ~isOrdered(field, item),
               path \o <<"operator">>, "ordered-comparison-incompatible-field-type")

RECURSIVE validateConditionReferences(_, _, _)
validateConditionReferences(condition, fieldsByCode, path) ==
  LET type == TextOf(condition, "type")
      parts == Items(Get(condition, "conditions"))
      code == TextOf(Get(condition, "responseReference"), "fieldCode")
  IN CASE type = "constant" -> {}
       [] type \in {"all", "any"} ->
            UNION {validateConditionReferences(parts[i], fieldsByCode, path \o <<"conditions", Index(i)>>)
                   : i \in DOMAIN parts}
       [] type = "not" ->
            validateConditionReferences(Get(condition, "condition"), fieldsByCode,
                                        Append(path, "condition"))
       [] OTHER ->
            IF code \notin DOMAIN fieldsByCode
            THEN {CustomIssue(path \o <<"responseReference", "fieldCode">>,
                              "condition-reference-missing-field")}
            ELSE referenceIssues(condition, fieldsByCode[code], path)

(***************************************************************************)
(* Rules of the survey                                                     *)
(***************************************************************************)
\* Every field with its path and the field that contains it, parents first.
RECURSIVE visitFields(_, _, _)
visitFields(fields, parentPath, parent) ==
  FlattenSeq([i \in DOMAIN fields |->
    LET path == Append(parentPath, Index(i))
    IN <<[field |-> fields[i], path |-> path, parent |-> parent]>>
       \o IF typeOf(fields[i]) = "custom"
          THEN visitFields(Items(Get(fields[i], "childrenFields")), Append(path, "childrenFields"), fields[i])
          ELSE << >>])

\* An issue at a member of every item that repeats an earlier one.
repeatedAt(items, key, path, rule) ==
  {CustomIssue(path \o <<Index(i), key>>, rule) : i \in Repeats(Map(items, LAMBDA item : Get(item, key)))}

validateUniqueCodes(items, path) == repeatedAt(items, "code", path, "duplicate-response-item-code")

\* Subquestions without an id do not repeat one.
duplicateSubquestionIds(items, path) ==
  {issue \in repeatedAt(items, "id", path, "duplicate-subquestion-id") :
     \E i \in DOMAIN items : Given(items[i], "id") /\ issue.path = path \o <<Index(i), "id">>}

validateResponseItemIdentities(field, path) ==
  LET aliases == Items(Get(Get(field, "source"), "responseAliases"))
      matrix == Append(path, "matrix")
  IN validateUniqueCodes(options(field), Append(path, "options"))
     \cup validateUniqueCodes(subquestions(field), Append(path, "subquestions"))
     \cup duplicateSubquestionIds(subquestions(field), Append(path, "subquestions"))
     \cup validateUniqueCodes(rows(field), Append(matrix, "rows"))
     \cup validateUniqueCodes(columns(field), Append(matrix, "columns"))
     \cup UNION {validateUniqueCodes(options(columns(field)[c]),
                                     matrix \o <<"columns", Index(c), "options">>)
                 : c \in DOMAIN columns(field)}
     \cup UNION {When(TextOf(aliases[a], "responseItemCode") \notin fieldResponseItemCodes(field),
                      path \o <<"source", "responseAliases", Index(a), "responseItemCode">>,
                      "source-alias-missing-response-item")
                 : a \in DOMAIN aliases}

\* A variant that compares the keys of different fields only.
duplicateKeysOfOtherFields(fields) ==
  LET keys == Map(fields, LAMBDA field : ToSet(fieldResponseKeys(field, "")))
  IN {CustomIssue(<<"fields", Index(i)>>, "duplicate-response-key") :
        i \in {j \in DOMAIN fields : \E h \in 1..(j - 1) : keys[h] \cap keys[j] # {}}}

\* A key that an earlier answer, of this field or of another one, has too.
duplicateResponseKeys(fields) ==
  LET keys == Map(fields, LAMBDA field : fieldResponseKeys(field, ""))
  IN {CustomIssue(<<"fields", Index(i)>>, "duplicate-response-key") :
        i \in {j \in DOMAIN fields :
                 \/ Repeats(keys[j]) # {}
                 \/ \E h \in 1..(j - 1) : ToSet(keys[h]) \cap ToSet(keys[j]) # {}}}

validateFieldPlace(visit, groupIds) ==
  LET field == visit.field
      parentId == Get(field, "parentId")
  IN When(Given(field, "groupId") /\ Get(field, "groupId") \notin groupIds,
          Append(visit.path, "groupId"), "field-group-reference-missing")
     \cup When(Given(field, "parentId") /\ visit.parent = Undefined,
               Append(visit.path, "parentId"), "top-level-field-has-parent")
     \cup When(/\ Given(field, "parentId") /\ visit.parent # Undefined
               /\ parentId # Get(visit.parent, "id"),
               Append(visit.path, "parentId"), "child-parent-reference-mismatch")

validateSurveyInvariants(survey) ==
  LET groups == Items(Get(survey, "groups"))
      fields == Items(Get(survey, "fields"))
      visits == visitFields(fields, <<"fields">>, Undefined)
      Repeated(key) == Repeats(Map(visits, LAMBDA visit : Get(visit.field, key)))
      repeatedIn(key, rule) == {CustomIssue(Append(visits[v].path, key), rule) : v \in Repeated(key)}
      groupIds == {Get(g, "id") : g \in ToSet(groups)}
      last(code) == visits[CHOOSE v \in DOMAIN visits :
                             /\ codeOf(visits[v].field) = code
                             /\ \A w \in (v + 1)..Len(visits) : codeOf(visits[w].field) # code]
      fieldsByCode == [code \in {codeOf(visits[v].field) : v \in DOMAIN visits} |-> last(code).field]
      conditionIssues(owner, path) ==
        IF ~Has(owner, "visibility") THEN {}
        ELSE validateConditionReferences(Get(Get(owner, "visibility"), "condition"), fieldsByCode,
                                         path \o <<"visibility", "condition">>)
  IN repeatedAt(groups, "id", <<"groups">>, "duplicate-group-id")
     \cup duplicateResponseKeys(fields)
     \cup repeatedIn("id", "duplicate-field-id")
     \cup repeatedIn("code", "duplicate-field-code")
     \cup UNION {validateFieldPlace(visits[v], groupIds)
                   \cup validateResponseItemIdentities(visits[v].field, visits[v].path)
                   \cup conditionIssues(visits[v].field, visits[v].path) : v \in DOMAIN visits}
     \cup UNION {conditionIssues(groups[g], <<"groups", Index(g)>>) : g \in DOMAIN groups}
=============================================================================
