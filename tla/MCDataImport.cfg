SPECIFICATION FairSpec
CONSTANTS
  u1 = u1
  u2 = u2
  Requests = {u1, u2}
  Jobs <- MCJobs
  Callers = {"read_only_visitor", "data_admin", "super_admin"}
  MaxItems = 2
  FileTypes = {"INSERT", "DELETE"}
  Stmts <- MCStmts
  MaxRows = 1
  MaxRetries = 2
  Faults = {"db", "mysql", "llm"}
INVARIANTS AnswerTellsRows StatementsAccounted TruncatedIffMore AgentOnlyReads
PROPERTIES ColumnCheckEnds
CHECK_DEADLOCK FALSE
