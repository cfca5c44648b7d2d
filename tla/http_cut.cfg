\* A piece ends between the data of a chunk and the end of its line.
SPECIFICATION Spec
CONSTANTS
  Data <- MCData
  Replies <- MCReplies
  RecvSize = 24
INVARIANTS
  DataCutsDecode
