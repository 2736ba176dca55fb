CONSTANTS
  Sid = {a}
  NoSid = NoSid
  MaxSessions = 1
  MaxRx = 1
  Choices = {"reject"}
  Kinds = {"session", "offer", "image"}
  HoldOn <- AllScreens
  Opens <- SomeEntries
SPECIFICATION Spec
INVARIANTS QueueIsSound
PROPERTIES PromptsTakeOver
