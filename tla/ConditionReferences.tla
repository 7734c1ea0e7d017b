------------------------ MODULE ConditionReferences ------------------------
(***************************************************************************)
(* The index of the names by which a condition may mention a response:     *)
(* services/survey_structure/condition_references.py.                      *)
(*                                                                         *)
(* A name is a text.  A target is the code of a question and, or "", the   *)
(* code of one of its subquestions.  A row is a question or a subquestion, *)
(* with its ids qid, parent and gid and its code, title.                   *)
(***************************************************************************)
EXTENDS Integers, Sequences

CONSTANT SurveyId

EmptyIndex == [targets |-> [alias \in {} |-> << >>], ambiguous |-> {}, questions |-> [code \in {} |-> {}]]

\* dict[key] = value
put(dict, key, value) == [k \in DOMAIN dict \cup {key} |-> IF k = key THEN value ELSE dict[k]]

\* A variant that forgets which names were ambiguous.
addAgain(index, alias, target) ==
  IF alias \in DOMAIN index.targets /\ index.targets[alias] # target
  THEN [index EXCEPT !.targets = [a \in DOMAIN @ \ {alias} |-> @[a]]]
  ELSE [index EXCEPT !.targets = put(@, alias, target)]

\* A name with two meanings is dropped, and stays out.
add(index, alias, target) ==
  CASE alias \in index.ambiguous -> index
    [] alias \notin index.ambiguous /\ alias \in DOMAIN index.targets /\ index.targets[alias] # target ->
         [index EXCEPT !.targets = [a \in DOMAIN @ \ {alias} |-> @[a]], !.ambiguous = @ \cup {alias}]
    [] OTHER -> [index EXCEPT !.targets = put(@, alias, target)]

\* Names, each with its target, added one after the other.
addAll(index, names) ==
  LET after[n \in 0..Len(names)] ==
        IF n = 0 THEN index ELSE add(after[n - 1], names[n][1], names[n][2])
  IN after[Len(names)]

isTopLevel(row) == row.parent \in {"", "0"}
isChildOf(row, qid) == ~isTopLevel(row) /\ row.parent = qid

\* What a question may be called.
tokens(row) ==
  {row.title} \cup (IF row.qid = "" THEN {} ELSE {row.qid, "Q" \o row.qid})
  \cup (IF row.qid = "" \/ row.gid = "" THEN {} ELSE {SurveyId \o "X" \o row.gid \o "X" \o row.qid})

\* The names of a question and of one of its subquestions that are made of the
\* tokens of the question, in some order.
questionNames(row, order) == [k \in DOMAIN order |-> <<order[k], <<row.title, "">>>>]

childNames(row, child, order) ==
  LET joined(k) == LET token == order[(k + 1) \div 2]
                   IN IF k % 2 = 1 THEN token \o "_" \o child.title ELSE token \o child.title
  IN [k \in 1..(2 * Len(order)) |-> <<joined(k), <<row.title, child.title>>>>]

\* A subquestion has, besides, the name of its id.
addChild(index, row, child, order) ==
  LET named == addAll(index, childNames(row, child, order))
  IN CASE child.title = "" -> index
       [] child.title # "" /\ child.qid = "" -> named
       [] OTHER -> add(named, "Q" \o row.qid \o "_S" \o child.qid, <<row.title, child.title>>)

\* The subquestions of a question, in the order of the rows.
addChildren(index, row, rows, order) ==
  LET after[n \in 0..Len(rows)] ==
        CASE n = 0 -> index
          [] n # 0 /\ isChildOf(rows[n], row.qid) -> addChild(after[n - 1], row, rows[n], order)
          [] OTHER -> after[n - 1]
  IN after[Len(rows)]

\* Questions without a code are not indexed.
indexQuestion(index, row, rows, order) ==
  IF row.title = "" THEN index
  ELSE addChildren(addAll([index EXCEPT !.questions = put(@, row.title, row)], questionNames(row, order)),
                   row, rows, order)

\* The target of a name that has exactly one, or the empty tuple.
resolve_reference(index, alias) ==
  IF alias \in DOMAIN index.targets /\ alias \notin index.ambiguous THEN index.targets[alias] ELSE << >>
=============================================================================
