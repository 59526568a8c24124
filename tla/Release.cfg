SPECIFICATION Spec
CONSTANTS
  Commits = {1, 2}
  Versions = {v1, v2}
  NoCommit = NoCommit
  Attempts = 3
  MaxJobs = 3
  MaxOthers = 2
  MaxFaults = 3
  Fragments = {1, 2}
  Texts <- MCTexts
  VersionStrings <- MCVersions
  FirstVersion <- MCFirst
  NoteVersions <- MCNoteVersions
INVARIANTS ContractFollowed StaleIsTakenBack OwnTagStays SaidOnce VersionsAscend
CHECK_DEADLOCK FALSE
