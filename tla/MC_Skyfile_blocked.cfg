CONSTANTS
  c1 = c1
  c2 = c2
  l1 = l1
  l2 = l2
  p1 = p1
  p3 = p3
  p4 = p4
  ps = ps
  none = none
  Callers <- MCCallers
  Links <- MCLinks
  Paths <- MCPaths
  Sources <- MCSources
  InitLinks <- MCInitLinks
  RestorePath <- MCRestorePath
  CallerPath <- MCCallerPath
  NoOwner = none
SPECIFICATION Spec
PROPERTY NoBlockedUpload
