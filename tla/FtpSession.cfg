SPECIFICATION Spec
CONSTANTS
  Paths = {p1, p2}
  NoPath = NoPath
  Absent = Absent
  Dir = Dir
  NoXfer = NoXfer
  MaxLen = 2
INVARIANTS UploadStored DownloadExact
