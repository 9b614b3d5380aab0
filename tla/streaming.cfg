\* A file streamed twice to a tag that other publishers move, too.
CONSTANTS
  p1 = p1
  streamed = streamed
  signed = signed
  NoImage = NoImage
  Pushers = {p1}
  Images = {streamed, signed}
  Digests <- MCDigests
  ImageOf <- MCImageOf
  LayerOf <- MCLayerOf
  EmptyConfig = "empty"
  Descriptor <- MCDescriptor
  MaxRetries = 3
  MaxRuns <- MCMaxRuns
  MaxLate = 2
  Refusals = TRUE
SPECIFICATION FairSpec
INVARIANTS TagComplete OutcomeTruthful
PROPERTIES ImplementsRegistry CallEnds
CHECK_DEADLOCK FALSE
