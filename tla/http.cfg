\* Replies cut at every place, connections that fail at every place.
SPECIFICATION FairSpec
CONSTANTS
  Data <- MCData
  Replies <- MCReplies
  RecvSize = 24
INVARIANTS
  TypeOK
  OnlyTheBody
  GoodCutsDecode
  NothingDropped
PROPERTIES
  GetReturns
