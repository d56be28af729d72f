CONSTANTS
  f1 = f1  f2 = f2  f3 = f3
  m1 = m1  m2 = m2  m3 = m3  m4 = m4  m5 = m5  m6 = m6
  NoTicket = NoTicket
  Files = {f1, f2, f3}
  Messages = {m1, m2, m3, m4, m5, m6}
  Registry <- UnomiGroupsOrder
  Priority <- UnomiGroupsPriority
  NeedsNewTicket <- UnomiGroupsNeedsNewTicket
  PathMatch <- MCPathMatch
  DocTargets <- MCDocTargets
  MsgTickets <- MCMsgTickets
  MsgMatch <- MCMsgMatch
  DocTicket = "UNOMI-882"
  MiscTicket = "UNOMI-908"
  MaxCommits = 2
  CommitMessages <- RegisteredMessages
  BranchShadowing = {FALSE, TRUE}
  GitFailures = {FALSE, TRUE}
SPECIFICATION Spec
INVARIANT ValidationMeansGrouped
CHECK_DEADLOCK FALSE
