CONSTANTS
  Surfaces = {s1, s2}
  Targets = {4, 7}
  Refreshes = {0, 2, 3}
  Default = 2
  Slack = 1
  Ahead = 1
  MaxNow = 8
  Never = Never
SPECIFICATION Spec
INVARIANTS
  TimersCovered
PROPERTIES
  NeverEarly
  NothingDueBetween
  TimersFire
