--------------------------- MODULE SurveyContract ---------------------------
(***************************************************************************)
(* The check of a survey against the shared contract.                      *)
(*                                                                         *)
(* services/survey_structure/contract.py writes the value as JSON, hands   *)
(* it to a node process that runs src/schemas/validate-survey.cjs and      *)
(* waits for its verdict.  On success it returns the value it was given,   *)
(* not what the process parsed.  The process may fail to start, die, say   *)
(* something else than JSON, or take longer than the caller waits.         *)
(*                                                                         *)
(* The properties are about the contract itself: what holds of a survey    *)
(* that was accepted, stated without the rules that are meant to make it   *)
(* hold.                                                                   *)
(***************************************************************************)
EXTENDS SurveySchemas, SurveyRules

CONSTANTS
    Requests,           \* the contracts and values that may be checked
    MAX_DOCUMENT_PARTS  \* stands for MAX_DOCUMENT_BYTES: parts of the largest document

VARIABLES
    request,    \* the contract and the value given to _validate_complete_contract
    step,       \* how far the check got: "dump", "spawn", "running", "done"
    reply,      \* what the process left behind; its exit is -1 while it runs
    outcome     \* what the caller gets: "none", "returned", "contract_error", "unavailable"

vars == <<request, step, reply, outcome>>

(***************************************************************************)
(* The schemas by name                                                     *)
(***************************************************************************)
Getter(name) ==
  CASE name = "field"     -> surveyStructureFieldSchema
    [] name = "custom"    -> surveyStructureCustomFieldSchema
    [] name = "condition" -> surveyConditionSchema

Refinement(name, v) ==
  CASE name = "fieldRules"       -> validateFieldRules(v)
    [] name = "surveyInvariants" -> validateSurveyInvariants(v)
    [] name = "validation"       -> validateValidation(v)
    [] name = "differentValues"  -> validateDifferentValues(v)
    [] name = "languageTag"      -> validateLanguage(Content(v))

Zod == INSTANCE ZodParse

schemas == [SurveyStructure  |-> surveyStructureSchema,
            SurveyLoadResult |-> surveyLoadResultSchema]

(***************************************************************************)
(* Values and their parts                                                  *)
(***************************************************************************)
\* Every part of a value, with the path that leads to it.
RECURSIVE parts(_)
parts(v) ==
  {[path |-> << >>, value |-> v]}
  \cup UNION {{[p EXCEPT !.path = <<k>> \o @] : p \in parts(Get(v, k))} : k \in Keys(v)}
  \cup UNION {{[p EXCEPT !.path = <<Index(i)>> \o @] : p \in parts(Items(v)[i])} : i \in DOMAIN Items(v)}

\* Python has numbers that JSON has not.
isFinite(v) == getParsedType(v) = "number" => Content(v) < Infinite

NoReply == [exit |-> -1, result |-> Undefined]

(***************************************************************************)
(* The check                                                               *)
(***************************************************************************)
Init ==
  /\ request \in Requests
  /\ step = "dump"
  /\ reply = NoReply
  /\ outcome = "none"

Finish(result) ==
  /\ step' = "done"
  /\ outcome' = result

\* json.dumps refuses numbers that are not finite, then the size is checked.
Dump ==
  /\ step = "dump"
  /\ LET all == parts(request.value)
     IN IF (\A p \in all : isFinite(p.value)) /\ Cardinality(all) <= MAX_DOCUMENT_PARTS
        THEN step' = "spawn" /\ UNCHANGED outcome
        ELSE Finish("contract_error")
  /\ UNCHANGED <<request, reply>>

Spawn ==
  /\ step = "spawn"
  /\ \/ step' = "running" /\ UNCHANGED outcome
     \/ Finish("unavailable")
  /\ UNCHANGED <<request, reply>>

\* The entry script parses its input and prints the verdict.
Validate ==
  /\ step = "running" /\ reply.exit = -1
  /\ reply' = [exit |-> 0, result |-> Zod!safeParse(schemas[request.contract], request.value)]
  /\ UNCHANGED <<request, step, outcome>>

\* The process dies, or catches an error and exits with 2.
Die ==
  /\ step = "running" /\ reply.exit = -1
  /\ reply' = [exit |-> 2, result |-> Undefined]
  /\ UNCHANGED <<request, step, outcome>>

\* A variant that waits for the process without a limit.
WaitOn ==
  /\ step = "running" /\ reply.exit = -1
  /\ UNCHANGED vars

\* subprocess.run kills a process that is still running after five seconds.
Timeout ==
  /\ step = "running" /\ reply.exit = -1
  /\ Finish("unavailable")
  /\ UNCHANGED <<request, reply>>

\* Anything but an exit with 0 raises; so does a refusal without an issue.
Read ==
  /\ step = "running" /\ reply.exit # -1
  /\ CASE reply.exit # 0 -> Finish("unavailable")
       [] reply.exit = 0 /\ reply.result.success -> Finish("returned")
       [] reply.exit = 0 /\ ~reply.result.success /\ reply.result.issues = {} -> Finish("unavailable")
       [] OTHER -> Finish("contract_error")
  /\ UNCHANGED <<request, reply>>

Done == step = "done" /\ UNCHANGED vars

Next == Dump \/ Spawn \/ Validate \/ Die \/ Timeout \/ Read \/ Done

\* The timer of the caller expires and the caller reads what it got; the
\* process may stay silent for ever.
Fairness == WF_vars(Timeout) /\ WF_vars(Read)

Spec == Init /\ [][Next]_vars /\ Fairness

----------------------------------------------------------------------------
(***************************************************************************)
(* The answers a survey collects, counted by position: two options with    *)
(* the same code are two answers.                                          *)
(***************************************************************************)
Cell(at, kind, key, item) == [at |-> at, kind |-> kind, key |-> key, item |-> item]

\* The answers of a field that is not a container, each with the key it is
\* saved under and the item by which a condition can name it.
ownCells(field, at, key) ==
  LET Under(code) == key \o "_" \o code
      PerItem(items, kind, suffix) ==
        {Cell(at \o <<Index(i)>>, kind, Under(codeOf(items[i])) \o suffix, codeOf(items[i])) : i \in DOMAIN items}
      whole(kind, k) == {Cell(at, kind, k, "")}
      type == typeOf(field)
  IN CASE type = "display" -> {}
       [] type = "multiple-input" -> PerItem(subquestions(field), "value", "")
       [] type = "ranking" ->
            {Cell(at \o <<Index(i)>>, "value", Under(ToString(i)), ToString(i)) : i \in DOMAIN options(field)}
       [] type \in checkboxTypes ->
            PerItem(options(field), "value", "")
            \cup IF type = "multiple-choice" THEN {} ELSE PerItem(options(field), "comment", "_comment")
       [] isMatrix(field, {"single"}) -> PerItem(rows(field), "value", "")
       [] isMatrix(field, {"multiple", "text", "number", "dual-single"}) ->
            {LET item == codeOf(rows(field)[r]) \o "_" \o codeOf(columns(field)[c])
             IN Cell(at \o <<Index(r), Index(c)>>, "value", Under(item), item) :
               r \in DOMAIN rows(field), c \in DOMAIN columns(field)}
       [] type = "list-with-comment" -> whole("value", key) \cup whole("comment", Under("comment"))
       [] OTHER -> whole("value", key)

\* The free text beside the options, which a condition names by its code.
otherCells(field, at) ==
  LET other == Get(field, "other")
  IN IF other = Undefined THEN {}
     ELSE {Cell(at, "other", TextOf(other, "textResponseKey"),
                IF typeOf(field) \in checkboxTypes THEN codeOf(other) ELSE "other")}
          \cup IF Has(other, "commentResponseKey")
               THEN {Cell(at, "other comment", TextOf(other, "commentResponseKey"), "other comment")} ELSE {}

RECURSIVE answerCells(_, _, _)
answerCells(fields, at, prefix) ==
  UNION {LET field == fields[i]
             key == prefix \o codeOf(field)
             here == Append(at, Index(i))
         IN IF typeOf(field) = "custom"
            THEN answerCells(Items(Get(field, "childrenFields")), here, key \o "_")
            ELSE ownCells(field, here, key) \cup otherCells(field, here)
         : i \in DOMAIN fields}

\* Every field at any depth, with its position.
fieldsOf(survey) ==
  {[at |-> SelectSeq(p.path, LAMBDA k : k \notin {"fields", "childrenFields"}), field |-> p.value] :
     p \in {q \in parts(survey) : Has(q.value, "code") /\ Has(q.value, "type")}}

\* What a comparison reads: the answers it can mean.
read(survey, comparison) ==
  LET reference == Get(comparison, "responseReference")
      named == {f \in fieldsOf(survey) : Get(f.field, "code") = Get(reference, "fieldCode")}
      item == IF Has(reference, "responseItemCode") THEN TextOf(reference, "responseItemCode") ELSE ""
  IN {c \in answerCells(Items(Get(survey, "fields")), << >>, "") :
        /\ \E f \in named : IsPrefix(f.at, c.at)
        /\ c.kind \in {"value", "other"}
        /\ c.item = item}

----------------------------------------------------------------------------
(***************************************************************************)
(* Properties                                                              *)
(***************************************************************************)
\* The survey of the request, once the check accepted it.
accepted == outcome = "returned"
survey == IF request.contract = "SurveyStructure" THEN request.value ELSE Get(request.value, "survey")

\* No two answers of an accepted survey are saved under the same key, however
\* the codes of fields, containers, rows, columns and options are chosen (the
\* loop over fieldResponseKeys in validateSurveyInvariants).
NoAnswerIsOverwritten ==
  accepted => LET cells == answerCells(Items(Get(survey, "fields")), << >>, "")
              IN Cardinality({c.key : c \in cells}) = Cardinality(cells)

\* A comparison in an accepted survey reads exactly one answer, wherever it
\* stands and however its field is nested (validateConditionReferences with
\* conditionResponseItemCodes and the uniqueness of codes and keys).
EveryComparisonReadsOneAnswer ==
  accepted => \A p \in parts(survey) :
                Get(p.value, "type") = Str("comparison") => Cardinality(read(survey, p.value)) = 1

\* The caller serves the value it sent, not what the process made of it: every
\* member of it was checked, none was dropped on the way (every object of the
\* contract is strict).
NothingUncheckedIsServed == accepted => reply.result.data = request.value

\* The order of the variants in a union decides nothing: at most one of them has
\* use for a value, so a field is judged by the rules of its own type.
VariantChoiceIsOrderFree ==
  LET usable(schema, v) == {o \in DOMAIN schema.options : Zod!Parse(schema.options[o], v).status # "aborted"}
      isField(v) == Has(v, "code") /\ Has(v, "type") /\ ~Has(v, "level")
      isCondition(v) == Has(v, "type") /\ ~Has(v, "code") /\ ~Has(v, "version")
  IN step = "spawn" =>
       \A p \in parts(request.value) :
         /\ isField(p.value) => Cardinality(usable(surveyStructureFieldSchema.schema, p.value)) <= 1
         /\ isCondition(p.value) => Cardinality(usable(surveyConditionSchema, p.value)) <= 1

\* Every check that started a process ends, even when the process stays silent:
\* the caller is answered after the timeout at the latest.
EveryCheckEnds == step = "running" ~> step = "done"
=============================================================================
