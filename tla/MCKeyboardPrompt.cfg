SPECIFICATION Spec
CONSTANTS
  FB_WIDTH = 3
  FB_HEIGHT = 6
  BYTE = 10
  PROMPT <- SmallPrompt
  Chars = {"h", "u", "nul"}
  CMDSIZE = 6
  MaxLine = 5
  MaxKeys = 5
  BootKeys = 2
  FirstRow = 1
  BootText <- SmallBootText
  Commands <- SmallCommands
  Output <- SmallOutput
  KeysFrom = "registered"
\* reboot halts the machine
PROPERTIES
  PromptStands
CHECK_DEADLOCK FALSE
