---------------------------- MODULE DatasetStore ----------------------------
(***************************************************************************)
(* One dataset: its row in table datasets, its MySQL database, the tables  *)
(* in it with their metadata, and its entry in mysqlmgr.Manager, under the *)
(* handlers that create, use and delete them side by side.                 *)
(*                                                                         *)
(* Manager's methods run under its mutex, Connect's ping included, so each *)
(* is one action.  They touch one dataset's entry only, and no handler     *)
(* works on two datasets, which is why one dataset is enough.  A pool is   *)
(* the number of its creation.                                             *)
(***************************************************************************)
EXTENDS Integers

CONSTANTS
  Tables,    \* tables ever created in the dataset
  Deletes,   \* DELETE calls for the dataset
  Calls,     \* request slots that look for the dataset's pool
  Faults,    \* "db": a statement on the platform database fails;
             \* "mysql": a statement on the dataset's server fails
  MaxPools   \* bound: pools opened

ASSUME StoreAssumption ==
  /\ Faults \subseteq {"db", "mysql"}
  /\ MaxPools \in Nat
  /\ Tables # {}

VARIABLES
  row,       \* datasets.status, or "absent"
  db,        \* the dataset's MySQL database exists
  phys,      \* the tables that exist in it
  meta,      \* dataset_tables.status of each table, or "absent"
  cached,    \* Manager.pools: the dataset's pool, or 0
  opened,    \* pools opened and not closed
  made,      \* pools opened so far
  creator,   \* where CreateDataset is
  del,       \* where each DeleteDataset is
  call,      \* the other requests
  \* History, read by the properties only.
  clean,     \* some delete dropped the database and went on to its end
  dropSent   \* tables that a DROP TABLE was sent for

sqlVars  == <<row, db, phys, meta>>
poolVars == <<cached, opened, made>>
histVars == <<clean, dropSent>>
vars     == <<sqlVars, poolVars, creator, del, call, histVars>>

Jobs == {"query", "terminal", "create", "drop"}

CreatorStates == {"checkName", "createDb", "insert", "rollback", "grant",
                  "created", "failed"}
DelStates  == {"idle", "drop", "mark", "close", "ok", "failed"}
CallStates == {"idle", "get", "select", "connect", "use", "meta"}

\* A slot without a request.  Tables are arbitrary, so any stands for none.
Idle == [pc |-> "idle", job |-> "query", tab |-> CHOOSE t \in Tables : TRUE,
         pool |-> 0]

(***************************************************************************)
(* The one type invariant.                                                 *)
(***************************************************************************)
TypeOK ==
  /\ row \in {"absent", "active", "deleted"}
  /\ db \in BOOLEAN
  /\ phys \in SUBSET Tables
  /\ meta \in [Tables -> {"absent", "active", "inactive"}]
  /\ cached \in 0 .. MaxPools
  /\ opened \in SUBSET (1 .. made)
  /\ made \in 0 .. MaxPools
  /\ creator \in CreatorStates
  /\ del \in [Deletes -> [pc : DelStates, dropped : BOOLEAN]]
  /\ call \in [Calls -> [pc : CallStates, job : Jobs, tab : Tables,
                         pool : 0 .. MaxPools]]
  /\ clean \in BOOLEAN
  /\ dropSent \in SUBSET Tables

Init ==
  /\ row = "absent"
  /\ db = FALSE
  /\ phys = {}
  /\ meta = [t \in Tables |-> "absent"]
  /\ cached = 0
  /\ opened = {}
  /\ made = 0
  /\ creator = "checkName"
  /\ del = [x \in Deletes |-> [pc |-> "idle", dropped |-> FALSE]]
  /\ call = [u \in Calls |-> Idle]
  /\ clean = FALSE
  /\ dropSent = {}

-----------------------------------------------------------------------------
(* CreateDataset.                                                          *)

\* The name is taken: 409.  An error of the SELECT counts as "not taken".
CheckName ==
  /\ creator = "checkName"
  /\ creator' \in {"failed", "createDb"}
  /\ UNCHANGED <<sqlVars, poolVars, del, call, histVars>>

\* Manager.CreateDatabase; it can also fail after the server did the work.
CreateDb ==
  /\ creator = "createDb"
  /\ \/ db' = TRUE /\ creator' = "insert"
     \/ "mysql" \in Faults /\ db' \in BOOLEAN /\ creator' = "failed"
  /\ UNCHANGED <<row, phys, meta, poolVars, del, call, histVars>>

\* INSERT INTO datasets, whose error may hide a commit.
InsertRow ==
  /\ creator = "insert"
  /\ \/ row' = "active" /\ creator' = "grant"
     \/ "db" \in Faults /\ row' \in {"absent", "active"} /\ creator' = "rollback"
  /\ UNCHANGED <<db, phys, meta, poolVars, del, call, histVars>>

\* The INSERT failed: drop the database again; an error is only logged.
Rollback ==
  /\ creator = "rollback"
  /\ creator' = "failed"
  /\ \/ db' = FALSE /\ phys' = {}
     \/ "mysql" \in Faults /\ UNCHANGED <<db, phys>>
  /\ UNCHANGED <<row, meta, poolVars, del, call, histVars>>

\* Faulty variant: a failed grant is compensated like a failed INSERT.
GrantRollsBack ==
  /\ creator = "grant"
  /\ \/ creator' = "created" /\ UNCHANGED <<db, phys>>
     \/ "db" \in Faults /\ creator' = "created" /\ db' = FALSE /\ phys' = {}
  /\ UNCHANGED <<row, meta, poolVars, del, call, histVars>>

\* The creator's own permission; an error is only logged.  201.
Grant ==
  /\ creator = "grant"
  /\ creator' = "created"
  /\ UNCHANGED <<sqlVars, poolVars, del, call, histVars>>

-----------------------------------------------------------------------------
(* DeleteDataset.                                                          *)

\* SELECT mysql_database: a row of any status will do; otherwise 404.
BeginDelete(x) ==
  /\ del[x].pc = "idle"
  /\ del' = [del EXCEPT ![x].pc = IF row = "absent" THEN "failed" ELSE "drop"]
  /\ UNCHANGED <<sqlVars, poolVars, creator, call, histVars>>

\* Manager.DropDatabase.  An error, even one that hides a drop, is only logged.
DropDatabase(x) ==
  /\ del[x].pc = "drop"
  /\ \/ /\ db' = FALSE /\ phys' = {}
        /\ del' = [del EXCEPT ![x] = [pc |-> "mark", dropped |-> TRUE]]
     \/ /\ "mysql" \in Faults
        /\ UNCHANGED <<db, phys>> \/ (db' = FALSE /\ phys' = {})
        /\ del' = [del EXCEPT ![x].pc = "mark"]
  /\ UNCHANGED <<row, meta, poolVars, creator, call, histVars>>

\* Faulty variant: the row is removed and not marked.
MarkDeletedRemoves(x) ==
  /\ del[x].pc = "mark"
  /\ row' = "removed"
  /\ del' = [del EXCEPT ![x].pc = "close"]
  /\ UNCHANGED <<db, phys, meta, poolVars, creator, call, histVars>>

\* UPDATE datasets to deleted.  An error, even one that hides a commit, is
\* answered with 500 and leaves the pool alone.
MarkDeleted(x) ==
  /\ del[x].pc = "mark"
  /\ \/ row' = "deleted" /\ del' = [del EXCEPT ![x].pc = "close"]
     \/ /\ "db" \in Faults
        /\ row' \in {row, "deleted"}
        /\ del' = [del EXCEPT ![x].pc = "failed"]
  /\ UNCHANGED <<db, phys, meta, poolVars, creator, call, histVars>>

\* Faulty variant: the pool is closed and its entry kept.
CloseKeepsEntry(x) ==
  /\ del[x].pc = "close"
  /\ opened' = opened \ {cached}
  /\ del' = [del EXCEPT ![x].pc = "ok"]
  /\ clean' = (clean \/ del[x].dropped)
  /\ UNCHANGED <<sqlVars, cached, made, creator, call, dropSent>>

\* Faulty variant: the pool is left to the connection lifetime.
CloseSkipped(x) ==
  /\ del[x].pc = "close"
  /\ del' = [del EXCEPT ![x].pc = "ok"]
  /\ clean' = (clean \/ del[x].dropped)
  /\ UNCHANGED <<sqlVars, poolVars, creator, call, dropSent>>

\* Manager.Close, if there is an entry.  200.
ClosePool(x) ==
  /\ del[x].pc = "close"
  /\ opened' = opened \ {cached}
  /\ cached' = 0
  /\ del' = [del EXCEPT ![x].pc = "ok"]
  /\ clean' = (clean \/ del[x].dropped)
  /\ UNCHANGED <<sqlVars, made, creator, call, dropSent>>

DeleteStep(x) ==
  BeginDelete(x) \/ DropDatabase(x) \/ MarkDeleted(x) \/ ClosePool(x)

-----------------------------------------------------------------------------
(* Requests that use the dataset: a question to it or an upload ("query"), *)
(* the SQL terminal, CreateDatasetTable and DeleteDatasetTable.            *)

\* What each of them reads of the platform database first.  The terminal
\* reads nothing: it asks the manager first.  An upload needs an active table
\* and so a dataset row, like a question.  generateMySQLTableName makes a name
\* that nobody has used.
Unused(t) ==
  /\ meta[t] = "absent"
  /\ t \notin phys
  /\ \A u \in Calls : ~(call[u].pc # "idle" /\ call[u].job = "create" /\ call[u].tab = t)

Admitted(job, t) ==
  CASE job = "query"    -> row # "absent"
    [] job = "terminal" -> TRUE
    [] job = "create"   -> row = "active" /\ Unused(t)
    [] job = "drop"     -> meta[t] = "active"

BeginCall(u, job, t) ==
  /\ call[u].pc = "idle"
  /\ Admitted(job, t)
  /\ call' = [call EXCEPT ![u] = [pc |-> "get", job |-> job, tab |-> t, pool |-> 0]]
  /\ UNCHANGED <<sqlVars, poolVars, creator, del, histVars>>

\* Manager.GetPool.  On a miss the terminal still has to find the dataset.
GetPool(u) ==
  /\ call[u].pc = "get"
  /\ call' = [call EXCEPT ![u].pool = cached,
                          ![u].pc = CASE cached # 0 -> "use"
                                      [] call[u].job = "terminal" -> "select"
                                      [] OTHER -> "connect"]
  /\ UNCHANGED <<sqlVars, poolVars, creator, del, histVars>>

\* getDatasetPool: SELECT mysql_database of an active dataset.
SelectActive(u) ==
  /\ call[u].pc = "select"
  /\ \/ row = "active" /\ call' = [call EXCEPT ![u].pc = "connect"]
     \/ (row # "active" \/ "db" \in Faults) /\ call' = [call EXCEPT ![u] = Idle]
  /\ UNCHANGED <<sqlVars, poolVars, creator, del, histVars>>

\* A pool is opened, found to answer, and entered in the map.
OpenPool(u) ==
  /\ db
  /\ made < MaxPools
  /\ made' = made + 1
  /\ cached' = made + 1
  /\ opened' = opened \cup {made + 1}
  /\ call' = [call EXCEPT ![u].pool = made + 1, ![u].pc = "use"]

\* The ping fails and the pool is closed.  DeleteDatasetTable goes on to the
\* metadata, everyone else gives up.
ConnectFails(u) ==
  /\ ~db \/ "mysql" \in Faults
  /\ call' = [call EXCEPT ![u] = IF call[u].job = "drop"
                                 THEN [call[u] EXCEPT !.pc = "meta"] ELSE Idle]
  /\ UNCHANGED poolVars

\* Faulty variant: Connect does not look at the map again.
ConnectAnyway(u) ==
  /\ call[u].pc = "connect"
  /\ OpenPool(u) \/ ConnectFails(u)
  /\ UNCHANGED <<sqlVars, creator, del, histVars>>

\* Manager.Connect: the map once more, then a new pool.
Connect(u) ==
  /\ call[u].pc = "connect"
  /\ \/ /\ cached # 0
        /\ call' = [call EXCEPT ![u].pool = cached, ![u].pc = "use"]
        /\ UNCHANGED poolVars
     \/ cached = 0 /\ OpenPool(u)
     \/ cached = 0 /\ ConnectFails(u)
  /\ UNCHANGED <<sqlVars, creator, del, histVars>>

\* The statements a job sends through its pool can work, or fail.
Works(u) == call[u].pool \in opened /\ db
Fails(u) == ~Works(u) \/ "mysql" \in Faults

\* They are done and the caller still sees an error.
HiddenWork(u) == Works(u) /\ "mysql" \in Faults

\* Faulty variant: a failed CREATE TABLE is logged and the handler goes on.
UsePoolIgnoresError(u) ==
  /\ call[u].pc = "use"
  /\ call[u].job = "create"
  /\ phys' = IF Works(u) THEN phys \cup {call[u].tab} ELSE phys
  /\ call' = [call EXCEPT ![u].pc = "meta"]
  /\ UNCHANGED <<row, db, meta, poolVars, creator, del, histVars>>

\* A statement that a model generated or an administrator typed: it reads or
\* writes rows, or creates or drops a table behind the metadata's back, which
\* a super_admin may.  Its error ends the request, as its success does.
RunStatement(u) ==
  /\ call' = [call EXCEPT ![u] = Idle]
  /\ \/ UNCHANGED <<phys, dropSent>>
     \/ /\ Works(u)
        /\ \E t \in Tables :
             \/ phys' = phys \cup {t} /\ UNCHANGED dropSent
             \/ phys' = phys \ {t} /\ dropSent' = dropSent \cup {t}

\* A statement; CREATE TABLE, whose error ends the request; or DROP TABLE,
\* whose error is only logged.
UsePool(u) ==
  LET t == call[u].tab
  IN /\ call[u].pc = "use"
     /\ \/ call[u].job \in {"query", "terminal"} /\ RunStatement(u)
        \/ /\ call[u].job = "create"
           /\ \/ Works(u) /\ phys' = phys \cup {t} /\ call' = [call EXCEPT ![u].pc = "meta"]
              \/ Fails(u) /\ UNCHANGED phys /\ call' = [call EXCEPT ![u] = Idle]
              \/ HiddenWork(u) /\ phys' = phys \cup {t} /\ call' = [call EXCEPT ![u] = Idle]
           /\ UNCHANGED dropSent
        \/ /\ call[u].job = "drop"
           /\ \/ Works(u) /\ phys' = phys \ {t}
              \/ Fails(u) /\ UNCHANGED phys
           /\ call' = [call EXCEPT ![u].pc = "meta"]
           /\ dropSent' = dropSent \cup {t}
     /\ UNCHANGED <<row, db, meta, poolVars, creator, del, clean>>

\* The transaction with the table's and its fields' metadata, or the UPDATE
\* that makes them inactive.  A failed one leaves the MySQL side as it is.
WriteMeta(u) ==
  /\ call[u].pc = "meta"
  /\ \/ meta' = [meta EXCEPT ![call[u].tab] = IF call[u].job = "create"
                                              THEN "active" ELSE "inactive"]
     \/ "db" \in Faults /\ UNCHANGED meta
  /\ call' = [call EXCEPT ![u] = Idle]
  /\ UNCHANGED <<row, db, phys, poolVars, creator, del, histVars>>

CallStep(u) ==
  \/ \E job \in Jobs, t \in Tables : BeginCall(u, job, t)
  \/ GetPool(u) \/ SelectActive(u) \/ Connect(u) \/ UsePool(u) \/ WriteMeta(u)

Next ==
  \/ CheckName \/ CreateDb \/ InsertRow \/ Rollback \/ Grant
  \/ \E x \in Deletes : DeleteStep(x)
  \/ \E u \in Calls : CallStep(u)

Spec == Init /\ [][Next]_vars

-----------------------------------------------------------------------------
(* Properties.                                                             *)

\* Requests that miss in GetPool at the same time do not leak pools, and the
\* map never hands out a closed one: the open pools are the one in the map.
MapHoldsTheOpenPool == opened = (IF cached = 0 THEN {} ELSE {cached})

\* Once a delete has dropped the database and run to its end, the dataset is
\* gone for good: no request that was under way, however late it connects,
\* brings a pool, a table or the database back.
CleanDeleteStays == clean => cached = 0 /\ ~db /\ phys = {}

\* A dataset whose creation was answered 201 can be used until somebody
\* deletes it, although the creation is three statements on two servers.
CreatedIsUsable ==
  (creator = "created" /\ \A x \in Deletes : del[x].pc = "idle")
    => row = "active" /\ db

\* A table listed as active exists, unless its database went away or a DROP
\* TABLE was sent for it, by DeleteDatasetTable or as a statement of a user:
\* no creation that failed half way lists a table that was never made.
ListedTableExists ==
  \A t \in Tables : meta[t] = "active" /\ t \notin dropSent => t \in phys \/ ~db

-----------------------------------------------------------------------------
(* The inductive invariant behind them.                                    *)

\* A delete under way.
Deleting(x) == del[x].pc \notin {"idle", "failed"} \/ del[x].dropped

\* The database is made once, before there is a row to delete; until the row
\* is there no delete runs, and the database stays until one does.
BeforeRow ==
  /\ creator \in {"checkName", "createDb", "insert"} =>
       row = "absent" /\ ~clean /\ \A x \in Deletes : ~Deleting(x)
  /\ creator = "insert" => db
  /\ row = "absent" =>
       /\ phys = {} /\ cached = 0
       /\ \A t \in Tables : meta[t] = "absent"
       /\ \A u \in Calls :
            \/ call[u].pc = "idle"
            \/ call[u].job = "terminal" /\ call[u].pc \in {"get", "select"}
  /\ creator \in {"grant", "created"} /\ (\A x \in Deletes : del[x].pc = "idle")
       => row = "active" /\ db

\* A drop that succeeded is final, and tables go with their database.
DroppedStays ==
  /\ \A x \in Deletes : del[x].dropped => ~db
  /\ ~db => phys = {}

\* A table about to be listed was created.
MetaAfterTable ==
  \A u \in Calls : call[u].pc = "meta" /\ call[u].job = "create" =>
    call[u].tab \in phys \/ ~db \/ call[u].tab \in dropSent

StoreInv ==
  /\ MapHoldsTheOpenPool /\ CleanDeleteStays /\ ListedTableExists
  /\ BeforeRow /\ DroppedStays /\ MetaAfterTable

=============================================================================
