\* Two uploads of one name or of two, a URL download of the second, two DELETEs.
SPECIFICATION FairSpec
CONSTANTS
    Uploaders = {u1, u2}
    Downloaders = {d1}
    Deleters = {x1, x2}
    UploadNames = {a, b}
    DownloadNames = {b}
    Sizes = {1}
    MaxTotalBytes = 1
    MaxRestarts = 1
    NoWriter = NoWriter
    NoName = NoName
INVARIANTS RecordedFileIsThere StorageLimitHolds
PROPERTIES EndedDownloadIsDecided
CHECK_DEADLOCK FALSE
