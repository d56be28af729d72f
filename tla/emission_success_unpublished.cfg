CONSTANTS
  p1 = p1  p2 = p2  p3 = p3  p4 = p4  n1 = n1  n2 = n2  n3 = n3
  NoTicket = NoTicket
  Base = Base
  Files = {p1, p4}
  Messages = {n1, n2}
  Registry <- UnomiGroupsOrder
  Priority <- UnomiGroupsPriority
  NeedsNewTicket <- UnomiGroupsNeedsNewTicket
  PathMatch <- PrPathMatch
  DocTargets <- PrDocTargets
  MsgTickets <- PrMsgTickets
  MsgMatch <- PrMsgMatch
  DocTicket = "UNOMI-882"
  MiscTicket = "UNOMI-908"
  MaxCommits = 1
  CommitMessages = {n1}
  BranchShadowing = {FALSE}
  GitFailures = {FALSE}
  DependencyPhases <- DependencyOrderPhases
  TicketLexOrder <- TicketsLexical
  CommitOutcomes = {"ok"}
  PushOutcomes = {"ok", "fatal"}
  GhOutcomes = {"created"}
  MaxInterrupts = 0
  MaxRuns = 1
  FaultyRuns = {1}
  ShadowedBranches = {}
  Modes = {"execute"}
SPECIFICATION PrSpec
INVARIANT SuccessMeansPublished
CHECK_DEADLOCK FALSE
