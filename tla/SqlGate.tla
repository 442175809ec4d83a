------------------------------ MODULE SqlGate ------------------------------
(***************************************************************************)
(* Which statements may reach a database, and as what: the tables and      *)
(* checks of internal/rbac and internal/sqlrun that SQL files, the SQL     *)
(* terminal and generated SQL go through.                                  *)
(*                                                                         *)
(* A statement is what these checks see of its text: type, the answer of   *)
(* ClassifySQL; writes, whether the lexer of IsReadOnlySQL finds a writing *)
(* keyword; where, whether the text contains WHERE; sys, whether           *)
(* CheckSystemTableInSQL names a table.  SqlText is about the texts.       *)
(***************************************************************************)
EXTENDS Naturals

Writes == {"INSERT", "UPDATE", "DELETE", "CREATE_TABLE", "CREATE_DATABASE",
           "DROP", "ALTER", "TRUNCATE"}
SQLTypes == Writes \cup {"SELECT", "UNKNOWN"}

\* ClassifySQL reads the first word, the lexer reads all of them: a writing
\* type implies a writing keyword, and no other type excludes one.
Statement ==
  {s \in [type : SQLTypes, writes : BOOLEAN, where : BOOLEAN, sys : BOOLEAN] :
     s.type \in Writes => s.writes}

-----------------------------------------------------------------------------
\* rbac.RoleOrder; a map in Go has 0 for a role it does not know, and so for
\* a caller that names none.
RoleOrder(role) == CASE role = "read_only_visitor" -> 1
                     [] role = "normal_user"       -> 2
                     [] role = "data_admin"        -> 3
                     [] role = "super_admin"       -> 4
                     [] OTHER                      -> 0

Roles == {"read_only_visitor", "normal_user", "data_admin", "super_admin"}

\* rbac.MinRole: a role it does not know is below every other.
MinRole(required, role) == role \in Roles /\ RoleOrder(role) >= RoleOrder(required)

minRoleForSQLType(type) ==
  CASE type = "SELECT"                                            -> "read_only_visitor"
    [] type \in {"INSERT", "UPDATE"}                              -> "normal_user"
    [] type \in {"CREATE_TABLE", "DELETE", "ALTER", "TRUNCATE"}   -> "data_admin"
    [] type \in {"CREATE_DATABASE", "DROP", "UNKNOWN"}            -> "super_admin"

\* Faulty variant: a caller without a role counts as an internal one.
IsAllowedForRoleTrusting(type, role) ==
  role = "" \/ RoleOrder(role) >= RoleOrder(minRoleForSQLType(type))

IsAllowedForRole(type, role) ==
  RoleOrder(role) >= RoleOrder(minRoleForSQLType(type))

-----------------------------------------------------------------------------
\* What a SQL file may contain.
validateSQLStatement(type) == type \in {"INSERT", "UPDATE"}

\* What the SQL terminal executes: an UPDATE needs a WHERE.
validateSQLTerminal(s) ==
  /\ s.type \in {"SELECT", "INSERT", "UPDATE"}
  /\ s.type = "UPDATE" => s.where

\* QueryRows' own check, on its way to wrapping the text in a SELECT.
IsReadOnlySQL(s) == ~s.writes

CheckSystemTableInSQL(s) == s.sys

\* Executor.Execute: what becomes of a generated statement.
Route(s, role) ==
  CASE s.type = "SELECT" /\ IsReadOnlySQL(s)    -> "read"
    [] /\ s.type # "SELECT" /\ IsAllowedForRole(s.type, role)
       /\ ~CheckSystemTableInSQL(s)             -> "write"
    [] OTHER                                    -> "refused"
=============================================================================
