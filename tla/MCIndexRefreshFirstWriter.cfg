SPECIFICATION Spec
CONSTANTS
  i1 = i1
  i2 = i2
  Segment = {0, 1}
  Index <- MCIndex
  Interval = {"1s", "30s"}
  Default = "1s"
  Disabled = "-1"
  Unset = "unset"
  Absent = "absent"
  None = "none"
  MaxRetries = 1
INVARIANT FirstWriterIsRight
