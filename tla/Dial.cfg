CONSTANTS
  Sid = {a, b, c}
  NoSid = NoSid
  MaxSessions = 2
  MaxRx = 1
  Choices = {"allow_once", "reject"}
  Kinds = {"session"}
  HoldOn <- NotOnPrompts
  Opens <- Nowhere
SPECIFICATION FairSpec
INVARIANTS NoPromptLost
PROPERTIES SendsWhatWasPicked PromptsGetTheirTurn
