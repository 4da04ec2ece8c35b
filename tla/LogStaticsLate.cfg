SPECIFICATION Spec
CONSTANTS
  Servers = {s1}
  Plugins <- MCPlugins
  Replies <- MCReplies
  Logs <- MCLateLogs
  Step = 3
  Day = 12
  Faults = {}
  MaxRuns <- MCOneRun
  None = None
  s1 = s1
  s2 = s2
INVARIANT WindowsApart
