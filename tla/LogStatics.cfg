SPECIFICATION Spec
CONSTANTS
  Servers = {s1, s2}
  Plugins <- MCPlugins
  Replies <- MCReplies
  Logs <- MCLogs
  Step = 3
  Day = 12
  Faults = {"connect", "insert", "kill"}
  MaxRuns <- MCMaxRuns
  None = None
  s1 = s1
  s2 = s2
INVARIANTS
  TypeOK
  RowsAreWindows
  NoReplyTwice
  CompleteRun
  CompleteHttp
  WindowsApart
