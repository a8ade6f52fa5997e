\* A repair of the tree or of the root, clients at work, system calls that fail.
SPECIFICATION Spec
CONSTANTS
  root = root d1 = d1 d2 = d2 f1 = f1 l1 = l1 gone = gone w1 = w1
  Id = {d1, d2, f1, l1}
  Root = root
  Gone = gone
  Kind <- Kinds
  Parent0 <- SmallTree
  Open0 = {f1}
  Walker = {w1}
  MaxClient = 2
  MaxErrors = 1
INVARIANTS TypeOK Repaired DefaultsEverywhere
CHECK_DEADLOCK FALSE
