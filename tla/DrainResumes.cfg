\* One upload whose feeding thread is slow to pause.
SPECIFICATION Spec
CONSTANTS
  long = long
  short = short
  Sessions = {long, short}
  Overwriting = {}
  Chunks = {1, 2}
  MaxBytes <- MCMaxBytes
  BlockSize = 2
  HighMark = 2
  LowMark = 1
  MaxUpload = 4
  MaxTotal = 4
  MaxActive = 1
  Workers = 1
  MaxFaults = 0
INVARIANTS DrainResumes
CHECK_DEADLOCK FALSE
