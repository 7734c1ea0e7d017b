SPECIFICATION ImportSpec
CONSTANTS
    Language <- MCLanguage
    DateParts <- MCDateParts
    Requests <- MCRequests
    MAX_DOCUMENT_PARTS = 140
    Numeric <- MCNumeric
    SurveyId = "7"
    Expressions <- MCExpressions
    TextLength <- MCTextLength
    Payloads <- MCPayloads
INVARIANTS
    NoAnswerIsOverwritten
    EveryComparisonReadsOneAnswer
    NothingUncheckedIsServed
    VariantChoiceIsOrderFree
    NamesDoNotGuess
    ConditionsKeepTheirMeaning
    ImportedShapeIsSound
    NothingDisappears
PROPERTIES
    EveryCheckEnds
