\* Two builders at work on the same output_dir.
CONSTANTS
  b1 = b1
  b2 = b2
  NoDir = NoDir
  Builders = {b1, b2}
  Images <- MCImages
  Digests <- MCDigests
  EmptyConfig = "empty"
  MaxRuns = 1
SPECIFICATION Spec
INVARIANT OutputOpens
CHECK_DEADLOCK FALSE
