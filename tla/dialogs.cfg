CONSTANTS
  ViewIds = {1, 2}
  MaxTops = 3
  plain = plain
  boxed = boxed
  Clients = {plain}
  ClientCtx <- MCClientCtx
  Unsandboxed = Unsandboxed
  NoName = NoName
  a = a
  b = b
  k = k
  AppIds = {}
  Tokens = {}
  ParamSet <- MCPlainParams
  MaxDepth = 3
  NoTop = NoTop
  NoView = NoView
  NoApp = anyApp
  NoToken = anyToken
  anyApp = anyApp
  anyToken = anyToken
SPECIFICATION Spec
ACTION_CONSTRAINT SceneOnly
INVARIANTS
  KeyboardFollowsScene
  OnlyKeyboardWindowActive
  SuspendedFollowsScene
