CONSTANTS
  Event = {"PreToolUse", "Stop"}
  Group <- OwnGroups
  LocalRef <- Refs
  UserGroup <- Edited
  MaxCopies = 1
  EditsMidRun = TRUE
  Transcript = {f1, f2}
  Token = {1}
  Window = 1
  History = 2
  Interval = 1
  Budget = 0
  Floor = 1
  MaxLines = 2
SPECIFICATION FilesSpec
SYMMETRY TranscriptSymmetry
INVARIANTS UsersHooksSurvive
PROPERTIES OneGroupOfOurs GaugeCounts PeakIsHeaviest
