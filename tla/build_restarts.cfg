\* One builder that fails, is killed and runs again.
CONSTANTS
  b1 = b1
  b2 = b2
  NoDir = NoDir
  Builders = {b1}
  Images <- MCImages
  Digests <- MCDigests
  EmptyConfig = "empty"
  MaxRuns = 3
SPECIFICATION Spec
INVARIANTS OutputOpens ReferrersAllOrNothing OutputHasNoLeftovers SignatureIsRecorded
PROPERTY ExitTellsOutput
CHECK_DEADLOCK FALSE
