CONSTANTS
  Handle = {h1, h2, h3}
  Raster = {r1, r2, r3}
  Size = {s1, s2}
  Content = {c1, c2}
  Free = Free
  allow_resize = TRUE
SPECIFICATION Spec
SYMMETRY Symmetry
CHECK_DEADLOCK FALSE
INVARIANTS OnePlace HeldInv HashInv
PROPERTY HandlesAreValues
