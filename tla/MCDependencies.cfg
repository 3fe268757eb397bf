SPECIFICATION Spec
CONSTANTS
  m1 = m1
  m2 = m2
  m3 = m3
  x = x
  k1 = k1
  k2 = k2
  r = r
  root = root
  free = free
  Members = {m1, m2, m3}
  Claimed = {m1, m2}
  UvRoot = root
  Releasables = {r}
  Owner <- MCOwner
  Free = free
  Siblings <- MCSiblings
  Packages = {x}
  Checkouts = {k1, k2}
  Builds <- MCBuilds
  Inside = {}
  MaxVersion = 2
  MaxEdits = 3
PROPERTIES
  OverlaysKept
  CommitsInstall
CHECK_DEADLOCK FALSE
