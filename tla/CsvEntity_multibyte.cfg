CONSTANTS
    Lines <- WideLines
    MaxLines = 2
    Terminators <- BothTerminators
    Header <- HeaderWords
    UrlTexts <- Urls
SPECIFICATION Spec
INVARIANTS
    ResultIsOfTheFile
CHECK_DEADLOCK FALSE
