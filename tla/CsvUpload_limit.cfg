\* One file, within the limit or over it.
SPECIFICATION Spec
CONSTANTS
    Heads <- Uploads
    Bodies <- OneFile
    FilesCountLimit = 1
    FileSizeLimit = 2
INVARIANT
    LimitsAreEnforced
\* A request ends when it is answered.
CHECK_DEADLOCK FALSE
