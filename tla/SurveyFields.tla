---------------------------- MODULE SurveyFields ----------------------------
(***************************************************************************)
(* The questions of a LimeSurvey survey become fields: the loops of        *)
(* build_survey_structure in services/survey_structure/normalizer.py.      *)
(*                                                                         *)
(* First ReferenceIndex indexes the names conditions may use, then the     *)
(* questions are put in order and become fields one by one, then the       *)
(* groups follow.  What happens to the result is in SurveyImport.          *)
(***************************************************************************)
EXTENDS SurveyNormalizer, ReferenceIndex

VARIABLES
    stage,     \* the loop that runs: "index", "fields", then "complete"
    todo,      \* the questions that have not become fields yet
    seen,      \* the codes of the questions that became fields or were dropped later
    fields,    \* the fields so far
    issues     \* what went wrong so far, for the reader of the survey

loopVars == <<todo, seen, fields, issues>>
fieldsVars == <<indexVars, stage, loopVars>>

\* What the loaders build: lists of rows with numbers to order them by.
ASSUME RowsAssumption ==
  \A loaded \in Payloads :
    /\ loaded.issues \in Seq({loaded.issues[n] : n \in DOMAIN loaded.issues})
    /\ \A n \in DOMAIN loaded.questions :
         LET row == loaded.questions[n]
         IN /\ row.order \in Int
            /\ {row.relevance, row.condition, row.full} \subseteq Expressions
            /\ IsFiniteSet(DOMAIN row.limits)
    /\ loaded.groups \in Seq({loaded.groups[n] : n \in DOMAIN loaded.groups})
    /\ \A n \in DOMAIN loaded.groups : loaded.groups[n].order \in Int /\ loaded.groups[n].relevance \in Expressions

ASSUME NumericAssumption == \A text \in DOMAIN Numeric : Content(Numeric[text]) \in Int

(***************************************************************************)
(* The questions and their order                                           *)
(***************************************************************************)
topLevelPlaces == {n \in DOMAIN payload.questions : isTopLevel(payload.questions[n])}
childrenOf(qid) ==
  chosen(payload.questions, {n \in DOMAIN payload.questions : isChildOf(payload.questions[n], qid)})

\* Groups by their order; a group that was not loaded counts by its id.
groupOrder(gid) ==
  LET known == {g \in DOMAIN payload.groups : payload.groups[g].gid = gid}
  IN CASE known # {} -> payload.groups[CHOOSE g \in known : \A h \in known : h <= g].order
       [] known = {} /\ gid \in DOMAIN Numeric -> Content(Numeric[gid]) \div 2
       [] OTHER -> 0

\* The question at i comes before the one at j.
isBefore(i, j) ==
  LET a == payload.questions[i]
      b == payload.questions[j]
  IN \/ groupOrder(a.gid) < groupOrder(b.gid)
     \/ /\ groupOrder(a.gid) = groupOrder(b.gid)
        /\ a.order < b.order \/ (a.order = b.order /\ i < j)

sorted ==
  LET places == ranked(topLevelPlaces, {pair \in topLevelPlaces \X topLevelPlaces : isBefore(pair[1], pair[2])})
  IN [p \in DOMAIN places |-> payload.questions[places[p]]]

\* A variant that takes any question for a parent.
orphansOfNobody ==
  LET parents == {row.qid : row \in ToSet(payload.questions)}
  IN {n \in DOMAIN payload.questions \ topLevelPlaces : payload.questions[n].parent \notin parents}

\* Subquestions whose parent is not a question that has none itself.
orphans ==
  LET parents == {payload.questions[n].qid : n \in topLevelPlaces}
  IN {n \in DOMAIN payload.questions \ topLevelPlaces : payload.questions[n].parent \notin parents}

orphanIssue(row) == _issue("warning", "MISSING_PARENT", _compact([fieldId |-> Str(row.qid)]))

orphanIssues ==
  LET rows == chosen(payload.questions, orphans)
  IN [p \in DOMAIN rows |-> orphanIssue(rows[p])]

SortQuestions ==
  /\ stage = "index" /\ allIndexed
  /\ todo' = sorted
  /\ issues' = payload.issues \o orphanIssues
  /\ stage' = "fields"
  /\ UNCHANGED <<indexVars, seen, fields>>

(***************************************************************************)
(* The loops                                                               *)
(***************************************************************************)
FieldsInit ==
  /\ IndexInit
  /\ stage = "index"
  /\ todo = << >> /\ seen = {} /\ fields = << >> /\ issues = << >>

\* The next row, as ReferenceIndex visits it.
IndexNames ==
  /\ stage = "index"
  /\ IndexQuestion
  /\ UNCHANGED <<stage, loopVars>>

\* The next question is dropped, with an issue.
Drop(issue) ==
  /\ issues' = Append(issues, issue)
  /\ todo' = Tail(todo)
  /\ UNCHANGED <<indexVars, stage, fields>>

SkipUnnamed ==
  /\ stage = "fields" /\ todo # << >> /\ Head(todo).title = ""
  /\ Drop(_issue("error", "MISSING_QUESTION_CODE", ofQuestion(Head(todo))))
  /\ UNCHANGED seen

SkipDuplicate ==
  /\ stage = "fields" /\ todo # << >> /\ Head(todo).title # "" /\ Head(todo).title \in seen
  /\ Drop(_issue("error", "DUPLICATE_QUESTION_CODE", ofQuestion(Head(todo))))
  /\ UNCHANGED seen

isNew(row) == row.title # "" /\ row.title \notin seen

SkipUnsupported ==
  /\ stage = "fields" /\ todo # << >> /\ isNew(Head(todo)) /\ ~isSupported(Head(todo))
  /\ Drop(unsupportedIssue(Head(todo)))
  /\ seen' = seen \cup {Head(todo).title}

NormalizeField ==
  /\ stage = "fields" /\ todo # << >> /\ isNew(Head(todo)) /\ isSupported(Head(todo))
  /\ LET result == normalize_field(Head(todo), childrenOf(Head(todo).qid), index)
     IN /\ fields' = IF result.field = Undefined THEN fields
                     ELSE Append(fields, With(result.field, "order", Num(Len(fields))))
        /\ issues' = issues \o result.issues
  /\ seen' = seen \cup {Head(todo).title}
  /\ todo' = Tail(todo)
  /\ UNCHANGED <<indexVars, stage>>

groupIssues == FlattenSeq([g \in DOMAIN payload.groups |-> normalize_group(payload.groups[g], index).issues])

\* Groups add to the issues, then the loops are over.
NormalizeGroups ==
  /\ stage = "fields" /\ todo = << >>
  /\ issues' = issues \o groupIssues
  /\ stage' = "complete"
  /\ UNCHANGED <<indexVars, todo, seen, fields>>

LoopStep ==
  \/ IndexNames \/ SortQuestions
  \/ SkipUnnamed \/ SkipDuplicate \/ SkipUnsupported \/ NormalizeField

FieldsNext == LoopStep \/ NormalizeGroups

FieldsSpec == FieldsInit /\ [][FieldsNext]_fieldsVars

----------------------------------------------------------------------------
(***************************************************************************)
(* Properties                                                              *)
(***************************************************************************)
isAbout(issue, row) == Get(issue, "fieldId") = Str(row.qid)

\* An issue says that a question was skipped, and its subquestions with it.
reportsSkip(issue, row) ==
  /\ isAbout(issue, row)
  /\ Get(issue, "code") \in {Str(c) : c \in {"MISSING_QUESTION_CODE", "DUPLICATE_QUESTION_CODE", "UNSUPPORTED_TYPE"}}

standsFor(f, row) == Get(f, "id") = Str(row.qid) /\ Get(f, "code") = Str(row.title)

codesIn(list) == {Get(Items(list)[k], "code") : k \in DOMAIN Items(list)}

\* The k-th subquestion of a question is in the list of the field that its type
\* has for it.  Types without subquestions have none, rankings with answers take
\* those instead, and a matrix may have no place for a scale.
hasPart(f, row, children, k) ==
  LET code == Str(childCodes(children)[k])
      matrix == Get(f, "matrix")
      isRow == children[k].scale = "0" \/ \A j \in DOMAIN children : children[j].scale # "0"
  IN /\ row.type \in {"M", "P"} \/ (row.type = "R" /\ row.answers = << >>) => code \in codesIn(Get(f, "options"))
     /\ row.type = "Q" => code \in codesIn(Get(f, "subquestions"))
     /\ QUESTION_TYPES[row.type] = "matrix" /\ isRow => code \in codesIn(Get(matrix, "rows"))
     /\ row.type \in {";", ":"} /\ children[k].scale = "1" => code \in codesIn(Get(matrix, "columns"))

\* A question that has an id is a field of the survey or was skipped with an
\* issue that says so; a subquestion is in the list that the field of its
\* question has for it, or its question was skipped, or an issue says that it
\* has none (the skips of build_survey_structure and normalize_field).  What
\* the type of a question has no list for is in neither: see hasPart.
NothingDisappears ==
  stage = "complete" =>
    \A row \in ToSet(payload.questions) :
      IF isTopLevel(row)
      THEN \/ row.qid = ""
           \/ \E f \in ToSet(fields) : standsFor(f, row)
           \/ \E i \in ToSet(issues) : reportsSkip(i, row)
      ELSE \/ row.qid = ""
           \/ \E i \in ToSet(issues) : isAbout(i, row) /\ Get(i, "code") = Str("MISSING_PARENT")
           \/ \E parent \in {q \in ToSet(payload.questions) : isTopLevel(q) /\ q.qid = row.parent} :
                LET children == inOrder(childrenOf(parent.qid))
                IN \/ \E i \in ToSet(issues) : reportsSkip(i, parent)
                   \/ \E f \in ToSet(fields), k \in DOMAIN children :
                        standsFor(f, parent) /\ children[k] = row /\ hasPart(f, parent, children, k)

\* A field stands for a question and is shown exactly when the expression of
\* the question says so, whatever holds of the conditions in it; when the
\* importer cannot say it, the field has no condition and an issue names it
\* (parse_limesurvey_condition, normalize_field_visibility).
ConditionsKeepTheirMeaning ==
  \A f \in ToSet(fields) :
    \E row \in ToSet(payload.questions) :
      LET expression == expressionOf(row)
          condition == Get(Get(f, "visibility"), "condition")
      IN /\ Get(f, "code") = Str(row.title)
         /\ Get(f, "id") = Str(IF row.qid = "" THEN row.title ELSE row.qid)
         /\ IF Undefined \in leaves(expression, index, row.title)
            THEN /\ condition = Undefined
                 /\ \E i \in ToSet(issues) : /\ Get(i, "code") = Str("INVALID_EXPRESSION")
                                             /\ Get(i, "questionCode") = Get(f, "code")
            ELSE meansTheSame(expression, index, row.title, condition)
=============================================================================
