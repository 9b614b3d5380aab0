\* Two publishers to one served directory, with crashes and a second call.
CONSTANTS
  p1 = p1
  p2 = p2
  bare = bare
  signed = signed
  plain = plain
  NoImage = NoImage
  Publishers = {p1, p2}
  Images = {bare, signed, plain}
  Digests <- MCDigests
  Blobs <- MCBlobs
  SourceOf <- MCSourceOf
  Attested <- MCAttested
  Platforms = {"posix", "windows"}
  LiveSource = FALSE
  MaxRuns <- MCMaxRuns
SPECIFICATION Spec
INVARIANTS ServedComplete OutcomeIsPartition ResumeSkips
PROPERTY ImplementsAtomicPublish
CHECK_DEADLOCK FALSE
