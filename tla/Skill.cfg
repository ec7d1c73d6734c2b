SPECIFICATION AllSpec
CONSTANTS
  None = None
  NoFile = NoFile
  NoContent = NoContent
  NoArtifact = NoArtifact
  Sources = {"a", "b", "c", "bad"}
  ArtifactOf <- RenderedTo
  MaxChanges = 3
  MaxMishaps = 1
  Artifacts = {"a", "b"}
  Views = 2
  MaxDeliveries = 2
  MaxChecks = 2
  Snapshots = {"a", "b", "bad"}
  Valid = {"a", "b"}
  MaxEdits = 2
  MaxFaults = 2
  MaxRuns = 2
  Procs = {"p", "q"}
  Digests = {"a"}
  Newer = {"a"}
  Capacity = 1
  MaxGeneration = 3
INVARIANTS SkillTyped EvidenceIsBound PairBelongsTogether
PROPERTIES ChecksAreAtomic LiveClaimStays VerifiedIsCurrent CatchesUp NothingHangs
CHECK_DEADLOCK FALSE
