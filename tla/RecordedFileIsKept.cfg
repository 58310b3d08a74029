\* An upload and a URL download of one name, and no DELETE.
SPECIFICATION Spec
CONSTANTS
    Uploaders = {u1}
    Downloaders = {d1}
    Deleters = {}
    UploadNames = {a}
    DownloadNames = {a}
    Sizes = {1}
    MaxTotalBytes = 2
    MaxRestarts = 0
    NoWriter = NoWriter
    NoName = NoName
PROPERTIES RecordedFileIsKept
CHECK_DEADLOCK FALSE
