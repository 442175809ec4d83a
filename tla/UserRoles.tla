----------------------------- MODULE UserRoles -----------------------------
(***************************************************************************)
(* Accounts and their roles (handlers/auth.go, seed.EnsureAdminUser).      *)
(*                                                                         *)
(* Every handler reads, decides and then writes, without a transaction; an *)
(* action is the code from one statement to the next, so that the requests *)
(* of several administrators interleave between a check and its write.     *)
(*                                                                         *)
(* An element of Users is a registration request and the account (the      *)
(* fresh id) it may create; an element of Seeds is a start of the API and  *)
(* the administrator it may create.  email is the unique column: the phone *)
(* number with a suffix, or the configured seed address.  Passwords, names *)
(* and reasons are left out.  A token lasts 24 hours, longer than anything *)
(* here, so it does not expire.                                            *)
(***************************************************************************)
EXTENDS Integers

CONSTANTS
  Users,     \* Register and SelfRegister requests
  Seeds,     \* starts of the API process
  Phones,    \* telephone numbers
  Edits,     \* ChangeUserRole and DeleteUser requests
  Requests,  \* CreateUpgradeRequest requests and the rows they insert
  Reviews,   \* ReviewUpgradeRequest requests
  IdsFilled, \* whether the server fills in the id that the INSERT of the seed
             \* leaves out: MySQL does outside its strict mode only
  Faults     \* {} or {"db"}: a statement may fail, a write perhaps done

ASSUME UserRolesAssumption ==
  /\ Users \cap Seeds = {}
  /\ "seed" \notin Phones
  /\ IdsFilled \in BOOLEAN
  /\ Faults \subseteq {"db"}

VARIABLES
  role,      \* id -> users.role, "none" if there is no such row
  email,     \* id -> the value of its unique column
  reg,       \* id -> where the request that creates it is
  tokens,    \* pairs of an id and what its token says it is
  edit,      \* ChangeUserRole or DeleteUser request -> its locals
  ask,       \* permission_requests row -> its columns
  review,    \* ReviewUpgradeRequest request -> its locals
  made,      \* history: ids that have had a row
  granted    \* history: permission requests that have set a role

accountVars == <<role, email, reg, made>>
vars == <<accountVars, tokens, edit, ask, review, granted>>

Ids        == Users \cup Seeds
Roles      == {"super_admin", "data_admin", "normal_user", "read_only_visitor"}
Assignable == {"data_admin", "read_only_visitor"}

NoEdit   == [pc |-> "idle", target |-> "none", to |-> "none"]
NoReview == [pc |-> "idle", of |-> "none", verdict |-> "none"]
NoRow    == [user |-> "none", wants |-> "none", status |-> "none"]

(***************************************************************************)
(* The one type invariant.                                                 *)
(***************************************************************************)
TypeOK ==
  /\ role \in [Ids -> Roles \cup {"none"}]
  /\ email \in [Ids -> Phones \cup {"seed"}]
  /\ reg \in [Ids -> {"idle", "self", "admin", "seed", "done", "fatal"}]
  /\ made \in SUBSET Ids
  /\ tokens \in SUBSET (Ids \X {"admin", "other"})
  /\ edit \in [Edits -> [pc : {"idle", "checked", "done"},
                         target : Ids \cup {"none"},
                         to : Roles \cup {"none"}]]
  /\ ask \in [Requests -> [user : Ids \cup {"none"},
                           wants : Assignable \cup {"none"},
                           status : {"none", "pending", "approved", "rejected"}]]
  /\ review \in [Reviews -> [pc : {"idle", "checked", "granting", "done"},
                             of : Requests \cup {"none"},
                             verdict : {"none", "approved", "rejected"}]]
  /\ granted \in SUBSET Requests
  /\ \A o \in Edits : edit[o].pc = "checked" => edit[o].target \in Ids
  /\ \A q \in Requests : ask[q].status # "none" =>
       ask[q].user \in Ids /\ ask[q].wants \in Assignable
  /\ \A v \in Reviews : review[v].pc \in {"checked", "granting"} =>
       /\ review[v].of \in Requests
       /\ review[v].verdict \in {"approved", "rejected"}
       /\ ask[review[v].of].status # "none"

\* The tables exist and are empty; no process runs.
Init ==
  /\ role = [u \in Ids |-> "none"]
  /\ email \in {e \in [Ids -> Phones \cup {"seed"}] :
                  \A u \in Ids : e[u] = "seed" <=> u \in Seeds}
  /\ reg = [u \in Ids |-> "idle"]
  /\ made = {}
  /\ tokens = {}
  /\ edit = [o \in Edits |-> NoEdit]
  /\ ask = [q \in Requests |-> NoRow]
  /\ review = [v \in Reviews |-> NoReview]
  /\ granted = {}

Exists(u) == role[u] # "none"
Fails     == "db" \in Faults

\* An account with the unique column of u exists.
Taken(u) == \E w \in Ids : Exists(w) /\ email[w] = email[u]

\* A replica has got past EnsureAdminUser and serves requests.
Up == \E u \in Seeds : reg[u] = "done"

\* The role a request acts with is the one in its token, whatever the row
\* says by now; the handlers only ask whether it is super_admin.
Claim(r)   == IF r = "super_admin" THEN "admin" ELSE "other"
IsAdmin(a) == <<a, "admin">> \in tokens

-----------------------------------------------------------------------------
(* Accounts come into being.                                               *)

\* EnsureAdminUser, its SELECT: an error or an existing row ends it, the
\* error together with the process.
SeedCheck(u) ==
  /\ u \in Seeds /\ reg[u] = "idle"
  /\ \/ Taken(u) /\ reg' = [reg EXCEPT ![u] = "done"]
     \/ ~Taken(u) /\ reg' = [reg EXCEPT ![u] = "seed"]
     \/ Fails /\ reg' = [reg EXCEPT ![u] = "fatal"]
  /\ UNCHANGED <<role, email, made, tokens, edit, ask, review, granted>>

\* The check of the phone number, with 409 if it is known.  A failed check is
\* logged and counts as "not known".
PhoneCheck(u, pc) ==
  /\ Up /\ u \in Users /\ reg[u] = "idle"
  /\ \/ Taken(u) /\ reg' = [reg EXCEPT ![u] = "done"]
     \/ (~Taken(u) \/ Fails) /\ reg' = [reg EXCEPT ![u] = pc]
  /\ UNCHANGED <<role, email, made, tokens, edit, ask, review, granted>>

SelfRegister(u) == PhoneCheck(u, "self")

Register(u) == (\E a \in Ids : IsAdmin(a)) /\ PhoneCheck(u, "admin")

\* The roles the INSERT of each handler may write.
InitialRoles(pc) == CASE pc = "self"  -> {"normal_user"}
                      [] pc = "admin" -> Assignable
                      [] pc = "seed"  -> {"super_admin"}

\* Faulty variant: the unique column is not derived from the phone number.
InsertUnchecked(u) ==
  /\ reg[u] \in {"self", "admin", "seed"}
  /\ \E r \in InitialRoles(reg[u]) : role' = [role EXCEPT ![u] = r]
  /\ made' = made \cup {u}
  /\ reg' = [reg EXCEPT ![u] = "done"]
  /\ UNCHANGED <<email, tokens, edit, ask, review, granted>>

\* The seed's INSERT is refused for want of an id.
LacksId(u) == u \in Seeds /\ ~IdsFilled

\* INSERT INTO users.  The unique column refuses the second of two requests
\* that both passed the check.  A start that sees an error ends its process,
\* although the row may have been written.
Insert(u) ==
  /\ reg[u] \in {"self", "admin", "seed"}
  /\ \/ /\ ~Taken(u) /\ ~LacksId(u)
        /\ \E r \in InitialRoles(reg[u]) : role' = [role EXCEPT ![u] = r]
        /\ made' = made \cup {u}
        /\ \/ reg' = [reg EXCEPT ![u] = "done"]
           \/ Fails /\ u \in Seeds /\ reg' = [reg EXCEPT ![u] = "fatal"]
     \/ /\ Taken(u) \/ LacksId(u) \/ Fails
        /\ reg' = [reg EXCEPT ![u] = IF u \in Seeds THEN "fatal" ELSE "done"]
        /\ UNCHANGED <<role, made>>
  /\ UNCHANGED <<email, tokens, edit, ask, review, granted>>

\* Login: the token says the role of this moment.
Login(u) ==
  /\ Up /\ Exists(u)
  /\ tokens' = tokens \cup {<<u, Claim(role[u])>>}
  /\ UNCHANGED <<accountVars, edit, ask, review, granted>>

-----------------------------------------------------------------------------
(* An administrator changes or deletes an account.                         *)

\* Faulty variant: an UPDATE that finds no row inserts one.
UpdateRoleUpserts(u, r) == role' = [role EXCEPT ![u] = r]

\* UPDATE users SET role WHERE id: nothing happens to a row that is gone.
UpdateRole(u, r) == role' = IF Exists(u) THEN [role EXCEPT ![u] = r] ELSE role

\* DELETE FROM users WHERE id.
DeleteRow(u) == role' = [role EXCEPT ![u] = "none"]

\* Faulty variant: the role of the target is not looked at.
EditCheckSkipped(o, a, u, r) ==
  /\ Up /\ edit[o].pc = "idle" /\ IsAdmin(a) /\ u # a
  /\ edit' = [edit EXCEPT ![o] =
                IF Exists(u) THEN [pc |-> "checked", target |-> u, to |-> r]
                             ELSE [NoEdit EXCEPT !.pc = "done"]]
  /\ UNCHANGED <<accountVars, tokens, ask, review, granted>>

\* ChangeUserRole (r a role) and DeleteUser (r "none") up to the SELECT:
\* never oneself, only an account that exists and is no super_admin.
EditCheck(o, a, u, r) ==
  /\ Up /\ edit[o].pc = "idle" /\ IsAdmin(a) /\ u # a
  /\ \/ /\ role[u] \notin {"none", "super_admin"}
        /\ edit' = [edit EXCEPT ![o] =
                      [pc |-> "checked", target |-> u, to |-> r]]
     \/ /\ role[u] \in {"none", "super_admin"} \/ Fails
        /\ edit' = [edit EXCEPT ![o] = [NoEdit EXCEPT !.pc = "done"]]
  /\ UNCHANGED <<accountVars, tokens, ask, review, granted>>

\* The UPDATE or DELETE that follows.
EditWrite(o) ==
  /\ edit[o].pc = "checked"
  /\ \/ edit[o].to # "none" /\ UpdateRole(edit[o].target, edit[o].to)
     \/ edit[o].to = "none" /\ DeleteRow(edit[o].target)
     \/ Fails /\ UNCHANGED role
  /\ edit' = [edit EXCEPT ![o] = [NoEdit EXCEPT !.pc = "done"]]
  /\ UNCHANGED <<email, reg, made, tokens, ask, review, granted>>

-----------------------------------------------------------------------------
(* Requests for another role.                                              *)

\* CreateUpgradeRequest: anyone with a token, whatever role it says.
CreateUpgradeRequest(q, u, r) ==
  /\ Up /\ ask[q].status = "none"
  /\ \E t \in {"admin", "other"} : <<u, t>> \in tokens
  /\ ask' = [ask EXCEPT ![q] = [user |-> u, wants |-> r, status |-> "pending"]]
  /\ UNCHANGED <<accountVars, tokens, edit, review, granted>>

\* ReviewUpgradeRequest up to the SELECT: 404 or 400 unless it is pending.
ReviewCheck(v, q, d) ==
  /\ Up /\ review[v].pc = "idle" /\ \E a \in Ids : IsAdmin(a)
  /\ \/ /\ ask[q].status = "pending"
        /\ review' = [review EXCEPT ![v] =
                        [pc |-> "checked", of |-> q, verdict |-> d]]
     \/ /\ ask[q].status # "pending" \/ Fails
        /\ review' = [review EXCEPT ![v] = [NoReview EXCEPT !.pc = "done"]]
  /\ UNCHANGED <<accountVars, tokens, edit, ask, granted>>

\* Faulty variant: the role is written before the status, and a failed
\* status UPDATE is answered with an error.
ReviewWriteRoleFirst(v) ==
  LET q == review[v].of d == review[v].verdict
  IN /\ review[v].pc = "checked"
     /\ IF d = "approved"
        THEN UpdateRole(ask[q].user, ask[q].wants) /\ granted' = granted \cup {q}
        ELSE UNCHANGED <<role, granted>>
     /\ \/ ask' = [ask EXCEPT ![q].status = d]
        \/ Fails /\ UNCHANGED ask
     /\ review' = [review EXCEPT ![v] = [NoReview EXCEPT !.pc = "done"]]
     /\ UNCHANGED <<email, reg, made, tokens, edit>>

\* UPDATE permission_requests, whatever the status is by now.  On an error
\* the handler stops, although the row may have been written.
ReviewWrite(v) ==
  LET q == review[v].of d == review[v].verdict
      ended == [review EXCEPT ![v] = [NoReview EXCEPT !.pc = "done"]]
  IN /\ review[v].pc = "checked"
     /\ \/ /\ ask' = [ask EXCEPT ![q].status = d]
           /\ review' = IF d = "approved"
                        THEN [review EXCEPT ![v].pc = "granting"] ELSE ended
        \/ /\ Fails
           /\ ask' \in {ask, [ask EXCEPT ![q].status = d]}
           /\ review' = ended
     /\ UNCHANGED <<accountVars, tokens, edit, granted>>

\* An approval also updates the account; an error is logged.
ReviewGrant(v) ==
  LET q == review[v].of
  IN /\ review[v].pc = "granting"
     /\ \/ UpdateRole(ask[q].user, ask[q].wants) /\ granted' = granted \cup {q}
        \/ Fails /\ UNCHANGED <<role, granted>>
     /\ review' = [review EXCEPT ![v] = [NoReview EXCEPT !.pc = "done"]]
     /\ UNCHANGED <<email, reg, made, tokens, edit, ask>>

-----------------------------------------------------------------------------
Next ==
  \/ \E u \in Ids : SeedCheck(u)
  \/ \E u \in Ids : SelfRegister(u)
  \/ \E u \in Ids : Register(u)
  \/ \E u \in Ids : Insert(u)
  \/ \E u \in Ids : Login(u)
  \/ \E o \in Edits, a, u \in Ids, r \in Roles \cup {"none"} :
       EditCheck(o, a, u, r)
  \/ \E o \in Edits : EditWrite(o)
  \/ \E q \in Requests, u \in Ids, r \in Assignable :
       CreateUpgradeRequest(q, u, r)
  \/ \E v \in Reviews, q \in Requests, d \in {"approved", "rejected"} :
       ReviewCheck(v, q, d)
  \/ \E v \in Reviews : ReviewWrite(v)
  \/ \E v \in Reviews : ReviewGrant(v)

Spec == Init /\ [][Next]_vars

-----------------------------------------------------------------------------
(* Properties.                                                             *)

\* Two requests that both find a phone number free, or whose check failed,
\* do not both create an account; nor do two replicas that start together
\* both create the seed administrator.
OneAccountPerEmail ==
  \A u, w \in Ids :
    u # w /\ Exists(u) /\ Exists(w) => email[u] # email[w]

\* The seed administrator cannot be demoted or deleted by other
\* administrators, however their checks and writes interleave: it keeps its
\* role until a request of its own for another role was granted.
SeedKeepsItsRole ==
  \A u \in Seeds \cap made :
    role[u] = "super_admin" \/ \E q \in granted : ask[q].user = u

\* As long as a request is listed as pending, it has not changed a role,
\* also when one of the two UPDATEs of a review failed.
PendingGrantsNothing ==
  \A q \in granted : ask[q].status # "pending"

\* An account that was deleted does not come back through a role change or an
\* approval that was under way.
GoneStaysGone ==
  [][\A u \in made : ~Exists(u) => ~Exists(u)']_vars

-----------------------------------------------------------------------------
(* What a comment says and the code does not do: it is violated, and the   *)
(* README tells how.                                                       *)

\* ChangeUserRole and DeleteUser leave a super_admin alone: no write of theirs
\* takes that role from an account that has it.
EditsSpareSuperAdmins ==
  [][\A o \in Edits : EditWrite(o) =>
       \A u \in Ids : role[u] = "super_admin" => role'[u] = "super_admin"]_vars

-----------------------------------------------------------------------------
(* What makes SeedKeepsItsRole inductive.                                  *)

\* An edit that passed its check is aimed at an account that was no
\* super_admin then, so at a seed administrator only after its own request.
EditsSpareSeeds ==
  \A o \in Edits :
    edit[o].pc = "checked" /\ edit[o].target \in Seeds =>
      \E q \in granted : ask[q].user = edit[o].target

\* A request acts only after it was filed and decided, a row is remembered,
\* and the address of the seed belongs to no phone number.
Remembered ==
  /\ \A u \in Ids : Exists(u) => u \in made
  /\ \A u \in Ids : u \in made => reg[u] \in {"done", "fatal"}
  /\ \A u \in Ids : reg[u] \in {"self", "admin"} => u \in Users
  /\ \A u \in Ids : reg[u] = "seed" => u \in Seeds
  /\ \A v \in Reviews : review[v].pc = "granting" =>
       ask[review[v].of].status \in {"approved", "rejected"}
  /\ \A q \in granted : ask[q].status # "none"

RolesInv ==
  OneAccountPerEmail /\ SeedKeepsItsRole /\ PendingGrantsNothing
    /\ EditsSpareSeeds /\ Remembered
=============================================================================
