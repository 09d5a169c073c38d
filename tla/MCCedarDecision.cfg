SPECIFICATION Spec
CONSTANTS
  NONE = NONE
  PrincipalType = "User"
  ActionType = "Action"
  IdWhenAbsent = "u"
  Principal <- MCPrincipal
  Resource <- MCResource
  Context <- MCContext
  Layouts <- MCLayouts
  Foreign <- MCForeign
  AttrMaps <- MCAttrMaps
  Collectors <- MCCollectors
  Replies <- MCReplies
  BadTypes = {"-"}
INVARIANTS
  OwnSetDecides
  ForbidsNotEvaded
  RolesKeptApart
CHECK_DEADLOCK FALSE
