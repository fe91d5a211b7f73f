SPECIFICATION Spec
CONSTANTS
  Threads = {t1, t2}
  SeqMod = 20
  WindowSize = 4
  BitfieldSize = 2
  MaxSends = 5
SYMMETRY Symmetry
INVARIANT WindowSlides
CHECK_DEADLOCK FALSE
