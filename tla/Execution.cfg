SPECIFICATION FairSpec
CONSTANTS
  f = f
  g = g
  d = d
  text = text
  Execution = {e1, e2}
  FilePath = {f, g}
  DirPath = {d}
  Text = {text}
  Empty = Empty
  Bare = Bare
  Full = Full
  Absent = Absent
  NoRequest = NoRequest
  NoPlan = NoPlan
  NoExecution = NoExecution
  Request <- AllRequests
INVARIANT
  AuditAgrees
PROPERTIES
  OutcomeKept
  QueueDrains
