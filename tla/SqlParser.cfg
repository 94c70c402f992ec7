SPECIFICATION Spec
CONSTANTS
    Lower <- Words
    MaxTokens = 9
    MaxKeywords = 4
CHECK_DEADLOCK FALSE
INVARIANTS
    AcceptsTheGrammar
    StatementKeepsWords
PROPERTIES
    ParserReturns
