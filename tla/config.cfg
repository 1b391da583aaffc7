\* Files that tomllib and the edits read alike and files that they do not; one URL that breaks
\* the file.  Every key has one good value to be changed to.
SPECIFICATION ConfigSpec
CONSTANTS
    Example <- TheExample
    Files <- TheFiles
    Elsewhere <- OneFile
    Urls <- MCUrls
    Paths <- MCPaths
    Levels <- MCLevels
    Limits <- MCLimits
    Quoted <- MCQuoted
INVARIANTS Readable OnlyWhatWasAsked LinkLasts
CHECK_DEADLOCK FALSE
