CONSTANTS
  Timer = {t1, t2}
  Mesh = mesh
  Node = {n1, n2, n3}
  Idle = Idle
  Active = Active
  Null = Null
  MaxPosts = 3
SPECIFICATION Spec
CHECK_DEADLOCK FALSE
INVARIANTS SentIsQueued
