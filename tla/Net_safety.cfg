SPECIFICATION Spec
CONSTANTS
  NumRx = 3
  NumTx = 3
  MaxPending = 2
  Frames <- MCFrames
  Alone <- MCAlone
INVARIANTS
  FramesArrive
  FramesAnnounced
  SentInOrder
  AnswersRight
PROPERTY StopsOnlyWhenFull
