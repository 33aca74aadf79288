SPECIFICATION Spec
CONSTANTS
  Paper <- MCPaper
  Address <- MCAddress
  Texts <- MCTexts
  Budget = 24000
  Quote <- MCQuote
  Match <- MCMatch
  Method <- MCMethod
  ReaderReply <- MCReaderReply
  RepairReply <- MCRepairReply
  ReviewReply <- MCReviewReply
  ReadingCopy <- MCReadingCopy
  DisplayCopy <- MCDisplayCopy
  OtherClaims <- MCOtherClaims
  ClaimWords <- MCClaimWords
  Identity <- MCIdentity
  Documents <- MCDocuments
INVARIANTS
  CoverageHolds
  PublishedAnchored
  HeldBackStaysBack
  ExplanationSupported
  BriefBacked
  FigureBacked
  ImagesThere
CHECK_DEADLOCK FALSE
