CONSTANTS
    Lines <- SheetLines
    MaxLines = 3
    Terminators <- BothTerminators
    Header <- HeaderWords
    UrlTexts <- Urls
SPECIFICATION Spec
INVARIANTS
    TypeOK
    ChunksDoNotMatter
    ResultIsOfTheFile
    OutputReadsBack
CHECK_DEADLOCK FALSE
