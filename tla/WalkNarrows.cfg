\* A repair, no clients, nothing fails.
SPECIFICATION Spec
CONSTANTS
  root = root d1 = d1 d2 = d2 f1 = f1 l1 = l1 gone = gone w1 = w1
  Id = {d1, d2, f1, l1}
  Root = root
  Gone = gone
  Kind <- Kinds
  Parent0 <- SmallTree
  Open0 = {f1}
  Walker = {w1}
  MaxClient = 0
  MaxErrors = 0
PROPERTIES NeverNarrows
CHECK_DEADLOCK FALSE
