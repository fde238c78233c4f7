SPECIFICATION Spec
CONSTANTS
  TextLens <- AllTexts
  Overrun = 3
  None = None
INVARIANTS RequestArrives ShortAnswerArrives
