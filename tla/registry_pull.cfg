\* Two pulls into one directory while the repository fills and its tag moves.
CONSTANTS
  NoImage = NoImage
  Images <- MCImages
  Digests <- MCDigests
  Descriptor <- MCDescriptor
  Manifest <- MCManifest
  Pinned = {"m1", "r1"}
  MaxPulls = 2
SPECIFICATION Spec
INVARIANTS DestOpens BytesMatchNames AttestationsPulled
CHECK_DEADLOCK FALSE
