\* Two uploads on one worker, blocks of two bytes, one fault; and bodies of up
\* to two parts through the route, cut in every way.
SPECIFICATION MCSpec
CONSTANTS
  long = long
  short = short
  Sessions = {long, short}
  Overwriting = {short}
  Chunks = {1, 2}
  MaxBytes <- MCMaxBytes
  BlockSize = 2
  HighMark = 2
  LowMark = 1
  MaxUpload = 4
  MaxTotal = 4
  MaxActive = 2
  Workers = 1
  MaxFaults = 1
  Bodies <- MCBodies
  RawBodies <- MCRawBodies
  MaxHeader = 4
  MaxField = 3
INVARIANTS QueueAccounted FilesOwned MultipartFaithful UploadAnswered
PROPERTIES UploadEnds
\* The system ends when the uploads have.
CHECK_DEADLOCK FALSE
