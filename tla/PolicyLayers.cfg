CONSTANTS
  top = top
  sub = sub
  other = other
  fuse = fuse
  Paths <- MCPaths
  DevFuse = fuse
  Below <- MCBelow
  Names = {n1}
  Services = {s1}
  Ports = {0, 1, 2}
  Hooks = {h1}
  Unset = Unset
  Layers <- MCLayers
  MaxLayers = 3
SPECIFICATION Spec
INVARIANTS TypeOK GrantsMeanLayers CarriedSinceReset SelfFuseKeepsPromises DeniedVariableStaysOut
CHECK_DEADLOCK FALSE
