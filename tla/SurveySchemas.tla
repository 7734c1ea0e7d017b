--------------------------- MODULE SurveySchemas ---------------------------
(***************************************************************************)
(* The schemas of a survey, of the issues of an import and of what a load  *)
(* answers, with the names they have in src/schemas/validate-survey.cjs.   *)
(***************************************************************************)
EXTENDS FieldSchemas

surveyStructureGroupSchema ==
  strict(ZodObject([id |-> nonEmptyText, order |-> natural,
                    visibility |-> ZodOptional(surveyStructureVisibilitySchema),
                    source |-> ZodOptional(surveyStructureGroupSourceSchema)]
                   @@ Optionals({"title", "description"}, ZodString)))

surveyStructureSettingsSchema ==
  strict(ZodObject(
    Optionals({"showWelcome", "showProgress", "allowPrevious", "showGroupName",
               "showGroupDescription"}, ZodBoolean)
    @@ Optionals({"welcomeText", "endText", "policyNotice"}, ZodString)
    @@ [layout          |-> ZodOptional(ZodEnum({"all", "group", "question"})),
        questionIndex   |-> ZodOptional(ZodEnum({"inherit", "disabled", "incremental", "full"})),
        navigationDelay |-> ZodOptional(nonnegative(ZodNumber))]))

surveyLanguageSchema == superRefine(nonEmptyText, "languageTag")

surveyStructureSchema ==
  superRefine(strict(ZodObject(
    [contractVersion    |-> ZodLiteral(Str("2.0.0")),
     id                 |-> nonEmptyText,
     language           |-> ZodOptional(surveyLanguageSchema),
     availableLanguages |-> ZodOptional(ZodArray(surveyLanguageSchema)),
     groups             |-> ZodOptional(ZodArray(surveyStructureGroupSchema)),
     fields             |-> ZodArray(ZodLazy("field")),
     settings           |-> ZodOptional(surveyStructureSettingsSchema),
     source             |-> ZodOptional(surveyStructureSourceSchema)]
    @@ Optionals({"title", "description"}, ZodString))),
    "surveyInvariants")

(***************************************************************************)
(* The issues of an import: the code selects the details                   *)
(***************************************************************************)
issueCodesWithoutDetails ==
  {"INVALID_SOURCE", "MISSING_QUESTION_CODE", "DUPLICATE_QUESTION_CODE", "MISSING_PARENT",
   "EMPTY_OPTIONS"}

surveyStructureIssueBaseSchema ==
  ZodObject([level |-> ZodEnum({"warning", "error"}), message |-> nonEmptyText]
            @@ Optionals({"fieldId", "questionCode"}, ZodString))

IssueWith(code, details) ==
  strict(extend(surveyStructureIssueBaseSchema,
                [code |-> ZodLiteral(Str(code)), details |-> strict(ZodObject(details))]))

surveyStructureIssueSchema ==
  ZodDiscriminatedUnion("code",
    <<IssueWith("UNSUPPORTED_TYPE", [sourceType |-> ZodString]),
      IssueWith("INVALID_EXPRESSION",
                [sourceExpression |-> ZodString,
                 scope |-> ZodOptional(ZodEnum({"survey", "group", "field"}))]),
      IssueWith("UNSUPPORTED_SOURCE_VERSION", [sourceVersion |-> ZodString]),
      IssueWith("INVALID_VALIDATION",
                [rule |-> ZodString,
                 sourceValue |-> ZodOptional(ZodUnion(<<ZodString, finiteNumber, ZodBoolean, ZodNull>>))]),
      strict(extend(surveyStructureIssueBaseSchema, [code |-> ZodEnum(issueCodesWithoutDetails)]))>>)

(***************************************************************************)
(* What a load answers                                                     *)
(***************************************************************************)
surveyResponseStateSchema ==
  strict(ZodObject([active |-> ZodBoolean, canSaveResponses |-> ZodBoolean,
                    submitMode     |-> ZodEnum({"submit", "submit_preview"}),
                    warningCodes   |-> ZodArray(ZodString),
                    didNotSaveCode |-> ZodNullable(ZodString)]
                   @@ Optionals({"language", "endText"}, ZodString)))

surveyLoadResultSchema ==
  strict(ZodObject([survey        |-> surveyStructureSchema,
                    issues        |-> ZodArray(surveyStructureIssueSchema),
                    responseState |-> ZodOptional(surveyResponseStateSchema)]))
=============================================================================
