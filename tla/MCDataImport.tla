---------------------------- MODULE MCDataImport ----------------------------
(* Model checking of DataImport: one slot for an upload, one for SQL.      *)
EXTENDS DataImport, TLC

CONSTANTS u1, u2

MCJobs == (u1 :> {"upload"}) @@ (u2 :> {"terminal", "question", "plain", "agent"})

S(type, writes, where, sys) ==
  [type |-> type, writes |-> writes, where |-> where, sys |-> sys]

\* One statement for each way through the checks: a SELECT that is one and a
\* WITH that deletes, a statement on a system table, one of no known type.
MCStmts == {S("SELECT", FALSE, TRUE, FALSE), S("SELECT", TRUE, TRUE, FALSE),
            S("INSERT", TRUE, FALSE, FALSE), S("INSERT", TRUE, FALSE, TRUE),
            S("UPDATE", TRUE, FALSE, FALSE), S("UPDATE", TRUE, TRUE, FALSE),
            S("DELETE", TRUE, TRUE, FALSE), S("DROP", TRUE, FALSE, FALSE),
            S("UNKNOWN", FALSE, FALSE, FALSE)}
=============================================================================
