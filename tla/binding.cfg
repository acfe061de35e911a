CONSTANTS
  ViewIds = {1, 2}
  MaxTops = 2
  plain = plain
  boxed = boxed
  Clients = {plain, boxed}
  ClientCtx <- MCClientCtx
  Unsandboxed = Unsandboxed
  NoName = NoName
  a = a
  b = b
  k = k
  AppIds = {a, b}
  Tokens = {k}
  ParamSet <- MCParams
  MaxDepth = 3
  NoTop = NoTop
  NoView = NoView
  NoApp = anyApp
  NoToken = anyToken
  anyApp = anyApp
  anyToken = anyToken
SPECIFICATION Spec
ACTION_CONSTRAINT BindingOnly
INVARIANTS
  BindingAgrees
  SandboxHonoured
  OneToplevelPerToken
  BoundIsTold
PROPERTIES
  HandoverIsByToken
  TokenToplevelsPassedOver
  MappedIsOffered
