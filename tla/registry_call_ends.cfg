\* One publisher with the retry budget of the code: does every call return?
CONSTANTS
  p1 = p1
  p2 = p2
  signed = signed
  plain = plain
  NoImage = NoImage
  Publishers = {p1}
  Images = {signed}
  Digests <- MCDigests
  ImageOf <- MCImageOf
  Descriptor <- MCDescriptor
  MaxRetries = 3
  MaxRuns <- MCMaxRuns
  MaxLate = 1
  Refusals = TRUE
SPECIFICATION FairSpec
PROPERTY CallEnds
CHECK_DEADLOCK FALSE
