--------------------------- MODULE ReferenceIndex ---------------------------
(***************************************************************************)
(* build_condition_references: the rows of a survey are indexed one after  *)
(* the other, each question with the names of its subquestions.  Python    *)
(* keeps the names of a question in a set and visits it in any order.      *)
(***************************************************************************)
EXTENDS ConditionReferences, FiniteSets

CONSTANT Payloads   \* the rows that may have been loaded

ASSUME PayloadsAssumption ==
  \A loaded \in Payloads :
    loaded.questions \in Seq({loaded.questions[n] : n \in DOMAIN loaded.questions})

VARIABLES
    payload,   \* the rows of this import
    index,     \* the names indexed so far
    reached    \* how many rows have been visited

indexVars == <<payload, index, reached>>

\* The orders in which a set may be visited.
visits(S) == {o \in [1..Cardinality(S) -> S] : \A s \in S : \E k \in DOMAIN o : o[k] = s}

IndexInit ==
  /\ payload \in Payloads
  /\ index = EmptyIndex
  /\ reached = 0

\* Subquestions are visited with their question.
IndexQuestion ==
  /\ reached < Len(payload.questions)
  /\ LET row == payload.questions[reached + 1]
     IN \/ ~isTopLevel(row) /\ index' = index
        \/ /\ isTopLevel(row)
           /\ \E order \in visits(tokens(row)) :
                index' = indexQuestion(index, row, payload.questions, order)
  /\ reached' = reached + 1
  /\ payload' = payload

IndexSpec == IndexInit /\ [][IndexQuestion]_indexVars

allIndexed == reached = Len(payload.questions)

----------------------------------------------------------------------------
(***************************************************************************)
(* What the names of a survey mean                                         *)
(***************************************************************************)
\* Every name of a subquestion, and of a question with its subquestions, with
\* the answer it stands for.
childMeanings(row, child) ==
  IF child.title = "" THEN {}
  ELSE {<<token \o "_" \o child.title, <<row.title, child.title>>>> : token \in tokens(row)}
       \cup {<<token \o child.title, <<row.title, child.title>>>> : token \in tokens(row)}
       \cup IF child.qid = "" THEN {}
            ELSE {<<"Q" \o row.qid \o "_S" \o child.qid, <<row.title, child.title>>>>}

rowMeanings(row, rows) ==
  IF ~isTopLevel(row) \/ row.title = "" THEN {}
  ELSE {<<token, <<row.title, "">>>> : token \in tokens(row)}
       \cup UNION {childMeanings(row, rows[n]) : n \in {m \in DOMAIN rows : isChildOf(rows[m], row.qid)}}

\* The meanings of the first rows of a survey.
meaningsUpTo(count, rows) == UNION {rowMeanings(rows[n], rows) : n \in 1..count}

namesIn(meanings) == {meaning[1] : meaning \in meanings}
answersFor(alias, meanings) == {meaning[2] : meaning \in {m \in meanings : m[1] = alias}}

\* A name is usable in a condition exactly when it stands for one answer, in
\* whatever order the rows and their names are visited; any other name is
\* refused (ConditionReferenceIndex.add, build_condition_references,
\* resolve_reference).
NamesDoNotGuess ==
  allIndexed =>
    LET meanings == meaningsUpTo(reached, payload.questions)
    IN \A alias \in namesIn(meanings) \cup DOMAIN index.targets \cup index.ambiguous :
         LET target == resolve_reference(index, alias)
         IN \/ answersFor(alias, meanings) = {target}
            \/ target = << >> /\ \A answer \in answersFor(alias, meanings) :
                                    answersFor(alias, meanings) # {answer}
=============================================================================
