SPECIFICATION Spec
CONSTANTS
  LoWords = {0, 1}
  HiWords = {1, 2}
  Frames <- SomeFrames
  QUARANTINE_MAX = 2
  MaxPublish = 3
INVARIANT TypeOK
PROPERTIES NoWrongDrop ExactWhenStill
