\* The stateless parts, over all the cases of their modules.
SPECIFICATION Spec
CONSTANTS
  BadDigests = {"short"}
  UpperDigests = {"UPPER"}
  Directories <- MCDirectories
  Commands <- MCCommands
  SpecFiles <- MCSpecFiles
  Disk <- MCDisk
  Listings <- MCListings
  Primary <- MCPrimary
  Policies <- MCPolicies
  WeakPolicies <- MCWeakPolicies
  Attestations <- MCAttestations
INVARIANTS AcceptsExactly ListIsClosure AcceptanceIsBacked PolicyOnlyRestricts OrderIsIrrelevant
INVARIANTS NothingFallsThrough PublishAndPullAgree
INVARIANTS SpecHashPinsBuild TarOrderIrrelevant ValidatedSpecBuilds
INVARIANTS AttestedImageVerifies SbomsAgree
CHECK_DEADLOCK FALSE
