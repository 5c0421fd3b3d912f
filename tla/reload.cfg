\* Three detectors, two edits, valid or not, SIGHUP at any moment, and one call
\* at a time by a process that changes under the handler's eyes.
CONSTANTS
  Order <- MCOrder
  Net = "network"
  MaxEdits = 2
  SysCall <- MCSysCall
  Image <- MCImage
  Own <- MCOwn
  FileName <- MCFileName
  Asked <- MCAsked
  TextOf <- MCTextOf
  Parsed <- MCParsed
  Defaults <- MCDefaults
  Known <- MCKnown
  AddrBits = 18
  Guarded = {}
  Fallback <- MCFallback
  SetLimit = 2
SPECIFICATION DFairSpec
INVARIANTS
  CidrsNeverAhead
  ReloadsAreValid
  OpensAgree
  DestinationsAgree
  CallsAgree
PROPERTIES
  ReloadConverges
  ExemptionHasGround
  ListedIsExempt
CHECK_DEADLOCK FALSE
