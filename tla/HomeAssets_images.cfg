SPECIFICATION HomeFairSpec
CONSTANTS
  Editors = {e1}
  Slots = {t1}
  Orders = {o1, o2}
  Assets = {a0, a1}
  Legacy = a0
  Cleaners = {c1}
  BatchSize = 1
  NoImage = NoImage
  MaxSlips = 1
PROPERTY QueuedImagesVanish
CHECK_DEADLOCK FALSE
