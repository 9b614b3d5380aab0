\* Two publishers push different images that share a layer to one tag.
CONSTANTS
  p1 = p1
  p2 = p2
  signed = signed
  plain = plain
  NoImage = NoImage
  Publishers = {p1, p2}
  Images = {signed, plain}
  Digests <- MCDigests
  ImageOf <- MCImageOf
  Descriptor <- MCDescriptor
  MaxRetries = 1
  MaxRuns <- MCMaxRuns
  MaxLate = 1
  Refusals = TRUE
SPECIFICATION Spec
INVARIANTS TagComplete ManifestsClosed OutcomeTruthful ResumeSkips
PROPERTIES ImplementsAtomicPublish ImplementsRegistry
CHECK_DEADLOCK FALSE
