SPECIFICATION FairSpec
CONSTANTS
  d1 = d1
  d2 = d2
  None = None
  Docs <- TwoDocs
  Moved <- SecondMoved
  Respelt <- FirstRespelt
  LastStep = 2
  RetryAfter = 1
  MaxEvents = 1
  MaxEdits = 2
  Usual <- UsualValues
  FieldTexts <- SomeTexts
CHECK_DEADLOCK FALSE
INVARIANTS
  RequestsSound
  EditorHonest
  FormsAgree
PROPERTIES
  AccessProgress
  EditorProgress
