---------------------------- MODULE FieldSchemas ----------------------------
(***************************************************************************)
(* The schemas of a survey field and of its parts, with the names they     *)
(* have in src/schemas/validate-survey.cjs.                                *)
(***************************************************************************)
EXTENDS ZodSchemas

\* Members that may be left out and share a schema.
Optionals(keys, schema) == [k \in keys |-> ZodOptional(schema)]

finiteNumber == finite(ZodNumber)
natural == nonnegative(int(ZodNumber))
nonEmptyText == minChars(ZodString, 1)

(***************************************************************************)
(* Codes and scalars                                                       *)
(***************************************************************************)
surveyCodeSchema == regex(nonEmptyText, "trimmed")
jsonScalarSchema == ZodUnion(<<ZodString, finiteNumber, ZodBoolean>>)
jsonPrimitiveSchema == ZodUnion(<<jsonScalarSchema, ZodNull>>)

(***************************************************************************)
(* Options, subquestions and matrices                                      *)
(***************************************************************************)
\* A variant that is not strict.
looseOptionSchema ==
  ZodObject([code |-> surveyCodeSchema, label |-> ZodString, order |-> ZodOptional(natural)])

surveyStructureOptionSchema ==
  strict(ZodObject([code |-> surveyCodeSchema, label |-> ZodString,
                    order |-> ZodOptional(natural)]))

surveyStructureSubquestionSchema ==
  extend(surveyStructureOptionSchema, Optionals({"id"}, ZodString))

surveyStructureBasicMatrixSchema ==
  strict(ZodObject([mode    |-> ZodEnum({"single", "multiple", "text"}),
                    rows    |-> ZodArray(surveyStructureOptionSchema),
                    columns |-> ZodArray(surveyStructureOptionSchema)]))

surveyStructureNumberMatrixSchema ==
  extend(surveyStructureBasicMatrixSchema, [mode |-> ZodLiteral(Str("number"))])

\* Two columns, each of them a scale of its own.
surveyStructureDualMatrixSchema ==
  extend(surveyStructureBasicMatrixSchema,
         [mode    |-> ZodLiteral(Str("dual-single")),
          columns |-> length(ZodArray(extend(surveyStructureOptionSchema,
                               [options |-> minItems(ZodArray(surveyStructureOptionSchema), 1)])), 2)])

(***************************************************************************)
(* Conditions                                                              *)
(***************************************************************************)
surveyConditionReferenceSchema ==
  strict(ZodObject([fieldCode |-> surveyCodeSchema,
                    responseItemCode |-> ZodOptional(surveyCodeSchema)]))

orderedOperators == {"greater-than", "greater-than-or-equal", "less-than", "less-than-or-equal"}
conditionOperators == {"equals", "not-equals"} \cup orderedOperators

surveyComparisonConditionSchema ==
  strict(ZodObject([type |-> ZodLiteral(Str("comparison")),
                    responseReference |-> surveyConditionReferenceSchema,
                    operator |-> ZodEnum(conditionOperators),
                    value |-> jsonPrimitiveSchema]))

surveyAnsweredConditionSchema ==
  strict(ZodObject([type |-> ZodEnum({"answered", "not-answered"}),
                    responseReference |-> surveyConditionReferenceSchema]))

surveySelectionCountConditionSchema ==
  extend(surveyComparisonConditionSchema,
         [type |-> ZodLiteral(Str("selection-count")), value |-> natural])

surveyAnsweredCountConditionSchema ==
  extend(surveySelectionCountConditionSchema, [type |-> ZodLiteral(Str("answered-count"))])

surveyConstantConditionSchema ==
  strict(ZodObject([type |-> ZodLiteral(Str("constant")), value |-> ZodBoolean]))

\* The schema that the lazy schema "condition" names.
surveyConditionSchema ==
  ZodUnion(<<surveyComparisonConditionSchema, surveyAnsweredConditionSchema,
             surveySelectionCountConditionSchema, surveyAnsweredCountConditionSchema,
             surveyConstantConditionSchema,
             strict(ZodObject([type |-> ZodEnum({"all", "any"}),
                               conditions |-> minItems(ZodArray(ZodLazy("condition")), 1)])),
             strict(ZodObject([type |-> ZodLiteral(Str("not")),
                               condition |-> ZodLazy("condition")]))>>)

surveyStructureVisibilitySchema == strict(ZodObject([condition |-> ZodLazy("condition")]))

(***************************************************************************)
(* Rendering, responses and validation                                     *)
(***************************************************************************)
surveyStructureWidgetSchema ==
  ZodEnum({"text-input", "text-area", "date-picker", "checkbox", "slider", "radio-group",
           "dropdown", "toggle", "checkbox-group-with-comments", "gender-selector",
           "matrix-grid", "multiple-input-list", "numbered-radio-group", "ranking-list",
           "custom"})

surveyRenderingInputTypeSchema ==
  ZodEnum({"text", "email", "number", "date", "datetime", "range", "password"})
surveyRenderingInputModeSchema ==
  ZodEnum({"text", "numeric", "decimal", "tel", "email", "url", "search"})
surveyRenderingDateOrderSchema == ZodEnum({"date-time", "time-date"})

surveyStructureRenderingSchema ==
  strict(ZodObject([widget      |-> ZodOptional(surveyStructureWidgetSchema),
                    placeholder |-> ZodOptional(ZodString),
                    inputType   |-> ZodOptional(surveyRenderingInputTypeSchema),
                    inputMode   |-> ZodOptional(surveyRenderingInputModeSchema),
                    dateOrder   |-> ZodOptional(surveyRenderingDateOrderSchema)]
                   @@ Optionals({"showLabel", "disabled"}, ZodBoolean)))

surveyStructureResponseEncodingSchema ==
  superRefine(strict(ZodObject([selectedValue |-> jsonScalarSchema,
                                unselectedValue |-> jsonScalarSchema]
                               @@ Optionals({"selectedLabel", "unselectedLabel"}, nonEmptyText))),
              "differentValues")

surveyStructureOtherResponseSchema ==
  strict(ZodObject([code |-> surveyCodeSchema, label |-> nonEmptyText,
                    textResponseKey |-> surveyCodeSchema,
                    commentResponseKey |-> ZodOptional(surveyCodeSchema)]))

surveyStructureValidationSchema ==
  superRefine(strict(ZodObject(
    Optionals({"min", "max"}, finiteNumber)
    @@ Optionals({"minLength", "maxLength", "minSelections", "maxSelections"}, natural)
    @@ [integer  |-> ZodOptional(ZodBoolean),
        pattern  |-> ZodOptional(ZodString),
        messages |-> ZodOptional(ZodRecord(ZodString))])),
    "validation")

(***************************************************************************)
(* Where a field or a group came from                                      *)
(***************************************************************************)
surveyPlatformIdentifierSchema == regex(ZodString, "kebab")

limeSurveyNativeValidationSchema ==
  strict(ZodObject(Optionals(
    {"minimumNumericValueExpression", "maximumNumericValueExpression",
     "minimumAnswerExpression", "maximumAnswerExpression",
     "minimumAnswersExpression", "maximumAnswersExpression",
     "questionValidationExpression", "subquestionValidationExpression",
     "minimumCellValueExpression", "maximumCellValueExpression", "cellStepExpression"},
    ZodString)))

\* An extension of one version; extensions are told apart by their type.
Extension(type, members) ==
  strict(ZodObject([type |-> ZodLiteral(Str(type)), version |-> ZodLiteral(Str("1.0.0"))] @@ members))

Extensions(extension) == ZodOptional(ZodArray(ZodDiscriminatedUnion("type", <<extension>>)))

limeSurveyQuestionSourceExtensionSchema ==
  Extension("limesurvey-question",
            Optionals({"questionRelevanceExpression", "questionAndGroupRelevanceExpression",
                       "dateTimeFormat"}, ZodString)
            @@ [nativeValidation |-> ZodOptional(limeSurveyNativeValidationSchema)])

limeSurveyGroupSourceExtensionSchema ==
  Extension("limesurvey-group", Optionals({"groupRelevanceExpression"}, ZodString))

limeSurveySourceExtensionSchema ==
  Extension("limesurvey-survey", Optionals({"databaseSchemaVersion"}, ZodString))

surveyStructureFieldSourceSchema ==
  strict(ZodObject(
    Optionals({"surveyId", "groupId", "questionId", "nativeType"}, ZodString)
    @@ [platform |-> surveyPlatformIdentifierSchema,
        responseAliases |-> ZodOptional(ZodArray(strict(ZodObject(
          [responseItemCode |-> nonEmptyText, aliases |-> minItems(ZodArray(nonEmptyText), 1)])))),
        extensions |-> Extensions(limeSurveyQuestionSourceExtensionSchema)]))

surveyStructureGroupSourceSchema ==
  strict(ZodObject([platform |-> surveyPlatformIdentifierSchema,
                    groupId |-> ZodOptional(ZodString),
                    extensions |-> Extensions(limeSurveyGroupSourceExtensionSchema)]))

surveyStructureSourceSchema ==
  strict(ZodObject([platform |-> surveyPlatformIdentifierSchema,
                    importedAt |-> ZodOptional(datetime(ZodString)),
                    extensions |-> Extensions(limeSurveySourceExtensionSchema)]
                   @@ Optionals({"format", "version"}, ZodString)))

(***************************************************************************)
(* Fields: a base, and for each type what it adds to it                    *)
(***************************************************************************)
singleChoiceTypes == {"yes-no", "gender", "single-choice", "list-with-comment"}
multipleSelectionTypes == {"multiple-choice", "multiple-choice-with-comments", "ranking"}
textTypes == {"short-text", "long-text"}
numericTypes == {"number", "range"}

surveyStructureFieldTypeSchema ==
  ZodEnum(singleChoiceTypes \cup multipleSelectionTypes \cup textTypes \cup numericTypes
          \cup {"date", "matrix", "multiple-input", "display", "boolean", "custom"})
surveyDateValueTypeSchema == ZodEnum({"date", "month-year", "date-time", "time", "year"})

surveyStructureFieldBaseSchema ==
  strict(ZodObject(
    [id |-> nonEmptyText, code |-> surveyCodeSchema,
     type |-> surveyStructureFieldTypeSchema, label |-> ZodString,
     required         |-> ZodOptional(ZodBoolean),
     order            |-> ZodOptional(natural),
     validation       |-> ZodOptional(surveyStructureValidationSchema),
     visibility       |-> ZodOptional(surveyStructureVisibilitySchema),
     rendering        |-> ZodOptional(surveyStructureRenderingSchema),
     responseEncoding |-> ZodOptional(surveyStructureResponseEncodingSchema),
     source           |-> ZodOptional(surveyStructureFieldSourceSchema)]
    @@ Optionals({"groupId", "parentId", "help"}, ZodString)))

\* A field of these types, with these members and this default value.
OneOf(texts) == IF Cardinality(texts) = 1 THEN ZodLiteral(Str(CHOOSE t \in texts : TRUE))
                ELSE ZodEnum(texts)
Field(types, members, default) ==
  extend(surveyStructureFieldBaseSchema,
         [type |-> OneOf(types), defaultValue |-> ZodOptional(default)] @@ members)

choiceMembers == [options |-> ZodArray(surveyStructureOptionSchema),
                  other |-> ZodOptional(surveyStructureOtherResponseSchema)]

surveyStructureSingleChoiceFieldSchema == Field(singleChoiceTypes, choiceMembers, ZodString)
surveyStructureMultipleChoiceFieldSchema ==
  Field(multipleSelectionTypes, choiceMembers, ZodArray(ZodString))

\* A matrix field of a mode; every row of the default holds a cell.
MatrixField(matrix, row) == Field({"matrix"}, [matrix |-> matrix], ZodRecord(row))
\* A variant that leaves the mode open.
anyBasicMatrix(mode) == surveyStructureBasicMatrixSchema
basicMatrix(mode) == extend(surveyStructureBasicMatrixSchema, [mode |-> ZodLiteral(Str(mode))])

surveyStructureSingleMatrixFieldSchema == MatrixField(basicMatrix("single"), ZodString)
surveyStructureMultipleMatrixFieldSchema == MatrixField(basicMatrix("multiple"), ZodRecord(ZodBoolean))
surveyStructureTextMatrixFieldSchema == MatrixField(basicMatrix("text"), ZodRecord(ZodString))
surveyStructureNumberMatrixFieldSchema ==
  MatrixField(surveyStructureNumberMatrixSchema, ZodRecord(finiteNumber))
surveyStructureDualMatrixFieldSchema ==
  MatrixField(surveyStructureDualMatrixSchema, ZodRecord(ZodString))

surveyStructureMultipleInputFieldSchema ==
  Field({"multiple-input"}, [subquestions |-> ZodArray(surveyStructureSubquestionSchema)],
        ZodRecord(jsonScalarSchema))
surveyStructureTextFieldSchema == Field(textTypes, << >>, ZodString)
surveyStructureNumericFieldSchema == Field(numericTypes, << >>, finiteNumber)
surveyStructureDateFieldSchema ==
  Field({"date"}, [dateValueType |-> surveyDateValueTypeSchema], ZodString)
surveyStructureBooleanFieldSchema == Field({"boolean"}, << >>, ZodBoolean)
surveyStructureDisplayFieldSchema ==
  extend(surveyStructureFieldBaseSchema, [type |-> ZodLiteral(Str("display"))])
surveyStructureCustomFieldSchema ==
  extend(surveyStructureFieldBaseSchema,
         [type |-> ZodLiteral(Str("custom")),
          childrenFields |-> minItems(ZodArray(ZodLazy("field")), 1)])

\* The schema that the lazy schema "field" names, before its rules.
surveyStructureFieldSchema ==
  superRefine(
    ZodUnion(<<surveyStructureSingleChoiceFieldSchema, surveyStructureMultipleChoiceFieldSchema,
               surveyStructureSingleMatrixFieldSchema, surveyStructureMultipleMatrixFieldSchema,
               surveyStructureTextMatrixFieldSchema, surveyStructureNumberMatrixFieldSchema,
               surveyStructureDualMatrixFieldSchema, surveyStructureMultipleInputFieldSchema,
               surveyStructureTextFieldSchema, surveyStructureNumericFieldSchema,
               surveyStructureDateFieldSchema, surveyStructureBooleanFieldSchema,
               surveyStructureDisplayFieldSchema, ZodLazy("custom")>>),
    "fieldRules")
=============================================================================
