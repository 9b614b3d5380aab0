\* Publishing a directory as soon as build has promoted it, before attest is done.
CONSTANTS
  p1 = p1
  p2 = p2
  bare = bare
  signed = signed
  plain = plain
  NoImage = NoImage
  Publishers = {p1}
  Images = {bare, signed, plain}
  Digests <- MCDigests
  Blobs <- MCBlobs
  SourceOf <- MCSourceOf
  Attested <- MCAttested
  Platforms = {"posix"}
  LiveSource = TRUE
  MaxRuns <- MCMaxRuns
SPECIFICATION Spec
INVARIANT ServedComplete
CHECK_DEADLOCK FALSE
