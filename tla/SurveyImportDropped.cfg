SPECIFICATION ImportSpec
CONSTANTS
    Language <- MCLanguage
    DateParts <- MCDateParts
    Requests = {}
    MAX_DOCUMENT_PARTS = 140
    Numeric <- MCNumeric
    SurveyId = "7"
    Expressions <- MCExpressions
    TextLength <- MCTextLength
    Payloads <- DroppedButNamed
INVARIANT
    MatchedToImported
