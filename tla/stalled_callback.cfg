CONSTANTS
  Views = {v1}
  Refresh = 1
  Stale = 2
  HiddenRelease = 3
  MaxInFlight = 2
  MaxLoose = 1
  Never = Never
SPECIFICATION Spec
PROPERTY CallbacksSent
