SPECIFICATION Spec
CONSTANTS
  Width = 2
  Height = 3
  Word = 1024
  Ring = 4
  MaxLine = 2
  MaxHistory = 1
  Chars <- MCChars
  Letters = {"x", " "}
  Keys <- MCKeys
  Prompt <- MCPrompt
  Outputs <- MCOutputs
INVARIANTS
  LineOnScreen
