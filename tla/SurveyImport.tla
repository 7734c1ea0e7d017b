---------------------------- MODULE SurveyImport ----------------------------
(***************************************************************************)
(* The import of a LimeSurvey survey: build_survey_structure of            *)
(* services/survey_structure/normalizer.py, from the rows that were loaded *)
(* to the verdict of the contract.                                         *)
(*                                                                         *)
(* The loops over rows, questions and groups are those of SurveyFields;    *)
(* what they made is handed to the check of SurveyContract.  A step of     *)
(* these modules is a step of this one; a value may also be checked        *)
(* without an import, as the callers of validate_survey_structure do.      *)
(***************************************************************************)
EXTENDS SurveyContract, SurveyFields

Import ==
  /\ FieldsInit
  /\ step = "import"
  /\ request = [contract |-> "SurveyLoadResult", value |-> Undefined]
  /\ reply = NoReply
  /\ outcome = "none"

NoPayload == [sid |-> "", questions |-> << >>, groups |-> << >>, issues |-> << >>,
              state |-> Undefined]

imported == stage = "complete"

CheckOnly ==
  /\ Init
  /\ payload = NoPayload /\ index = EmptyIndex /\ reached = 0 /\ stage = "index"
  /\ todo = << >> /\ seen = {} /\ fields = << >> /\ issues = << >>

ImportInit == Import \/ CheckOnly

\* A source without a survey id cannot be imported.
RefuseNameless ==
  /\ step = "import" /\ payload.sid = ""
  /\ Finish("source_error")
  /\ UNCHANGED <<request, reply, fieldsVars>>

\* A step of a loop.
MakeFields ==
  /\ step = "import" /\ payload.sid # ""
  /\ LoopStep
  /\ UNCHANGED vars

\* The survey is complete: groups are normalized, counted from zero in their
\* order, and the document goes to the check.  Titles, texts and languages are
\* left out.
Submit ==
  /\ step = "import" /\ payload.sid # ""
  /\ NormalizeGroups
  /\ indexIsReadable(payload.survey)
  /\ LET groups == inOrder(payload.groups)
         placed(g) == Obj(normalize_group(groups[g], index).group ++ [order |-> Num(g - 1)])
     IN request' = [request EXCEPT !.value = Obj(
          [survey |-> Obj([contractVersion |-> Str("2.0.0"), id |-> Str(payload.sid), fields |-> Arr(fields),
                           settings |-> normalize_settings(payload.survey),
                           source |-> Obj([platform |-> Str("limesurvey"), format |-> Str("remotecontrol")])]
                          ++ IF groups = << >> THEN << >> ELSE [groups |-> Arr([g \in DOMAIN groups |-> placed(g)])]),
           issues |-> Arr(issues')]
          ++ IF payload.state = Undefined THEN << >> ELSE [responseState |-> payload.state])]
  /\ step' = "dump"
  /\ UNCHANGED <<reply, outcome>>

\* The settings raise an exception that nobody expects: the handler answers as it
\* does to an error of LimeSurvey.
FailSettings ==
  /\ step = "import" /\ payload.sid # ""
  /\ NormalizeGroups
  /\ ~indexIsReadable(payload.survey)
  /\ Finish("error")
  /\ UNCHANGED <<request, reply>>

ImportNext == RefuseNameless \/ MakeFields \/ Submit \/ FailSettings \/ (Next /\ UNCHANGED fieldsVars)

ImportSpec == ImportInit /\ [][ImportNext]_<<vars, fieldsVars>> /\ Fairness

----------------------------------------------------------------------------
(***************************************************************************)
(* What the contract asks for and the importer does not look at            *)
(***************************************************************************)
isText(v) == getParsedType(v) = "string"
allOf(v, fits(_)) == getParsedType(v) = "object" /\ \A k \in Keys(v) : fits(Get(v, k))

\* A default value is one that the contract allows in its field.
defaultFits(f) ==
  LET default == Get(f, "defaultValue")
      type == typeOf(f)
      mode == TextOf(Get(f, "matrix"), "mode")
      isCell(v) == getParsedType(v) = CASE mode = "multiple" -> "boolean"
                                        [] mode = "number" -> "number"
                                        [] OTHER -> "string"
      isRow(v) == IF mode = "single" THEN isText(v) ELSE allOf(v, isCell)
  IN \/ default = Undefined
     \/ type \notin singleChoiceTypes \cup multipleSelectionTypes \cup {"matrix", "multiple-input"}
     \/ type \in singleChoiceTypes /\ isText(default)
     \/ type \in multipleSelectionTypes /\ \A item \in ToSet(Items(default)) : isText(item)
     \/ type = "multiple-input" /\ allOf(default, isScalar)
     \/ type = "matrix" /\ allOf(default, isRow)

\* The selections that are asked for can be counted.
limitsFit(f) ==
  \A m \in {"minSelections", "maxSelections"} :
    LET limit == Get(Get(f, "validation"), m)
    IN limit = Undefined \/ (Content(limit) >= 0 /\ Content(limit) % 2 = 0)

\* Subquestions have ids.
partsFit(f) == \A part \in ToSet(Items(Get(f, "subquestions"))) : Get(part, "id") # Null

----------------------------------------------------------------------------
(***************************************************************************)
(* Properties                                                              *)
(***************************************************************************)
\* The contract finds a value of the wrong shape, where it should find at most a
\* rule broken, exactly in the fields with a default value, a limit or an id
\* that the importer handed on as it was (normalize_field and the schemas, which
\* are written in two languages).
ImportedShapeIsSound ==
  imported /\ reply.exit = 0 =>
    LET misshapen == {i.path : i \in {j \in reply.result.issues : j.code # "custom"}}
        at(n) == <<"survey", "fields", Index(n)>>
    IN /\ \A path \in misshapen : \E n \in DOMAIN fields : IsPrefix(at(n), path)
       /\ \A n \in DOMAIN fields :
            (\E path \in misshapen : IsPrefix(at(n), path))
              <=> ~(defaultFits(fields[n]) /\ limitsFit(fields[n]) /\ partsFit(fields[n]))

\* A condition of the imported survey is about a question of the imported
\* survey: what resolve_reference says of the names it cannot match.
MatchedToImported ==
  step = "dump" /\ payload # NoPayload =>
    \A p \in parts(request.value) :
      Has(p.value, "responseReference") =>
        Get(Get(p.value, "responseReference"), "fieldCode") \in {Get(f, "code") : f \in ToSet(fields)}
=============================================================================
