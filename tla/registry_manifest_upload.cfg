\* Is the image invisible after a ManifestUpload error?
CONSTANTS
  p1 = p1
  p2 = p2
  signed = signed
  plain = plain
  NoImage = NoImage
  Publishers = {p1}
  Images = {signed}
  Digests <- MCDigests
  ImageOf <- MCImageOf
  Descriptor <- MCDescriptor
  MaxRetries = 1
  MaxRuns <- MCOneRun
  MaxLate = 1
  Refusals = TRUE
SPECIFICATION Spec
INVARIANT ManifestUploadMeansInvisible
CHECK_DEADLOCK FALSE
