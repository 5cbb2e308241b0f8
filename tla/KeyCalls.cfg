CONSTANTS
  Value = {0, 1}
  Blank = Blank
  Freed = Freed
  Label <- Distinct
  NetIndex = {0, 1}
  AppIndex = {0, 1}
  NetMax = 2
  AppMax = 1
  DevMax = 2
  Address = {1, 2, 3}
  Elements = {1, 2}
SPECIFICATION Spec
CHECK_DEADLOCK FALSE
INVARIANTS AppFollowsNet PrimaryFound
