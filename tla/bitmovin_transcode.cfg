SPECIFICATION StatusSpec
CONSTANTS
  Outputs <- EachKind
  WithAudio <- Sounding
  WithVideo <- Showing
  RangeCounts <- UpToThree
  APIMayFail = TRUE
  Jobs <- SomeJobs
  Limit = 2
CHECK_DEADLOCK FALSE
INVARIANTS
  TypeOK
  ReportTypeOK
  StartedComplete
  NoSendOnClosed
  SplicedInOrder
  ReportComplete
  PlaylistWhole
PROPERTIES
  PromiseKept
  EncodingCallImplemented
  TranscodeReturns
  NoGoroutineLeft
  JobStatusReturns
