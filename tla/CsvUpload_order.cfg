\* Every body of up to three parts.
SPECIFICATION FairSpec
CONSTANTS
    Heads <- AllHeads
    Bodies <- AllBodies
    FilesCountLimit = 1
    FileSizeLimit = 2
INVARIANTS
    TypeOK
    AnswerIsOfFirstFile
PROPERTY
    UploadIsAnswered
\* A request ends when it is answered.
CHECK_DEADLOCK FALSE
