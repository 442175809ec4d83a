--------------------------- MODULE UserRolesProofs ---------------------------
(***************************************************************************)
(* Proofs about UserRoles, for any number of accounts, administrators,     *)
(* requests, reviews and replicas.                                         *)
(***************************************************************************)
EXTENDS UserRoles, TLAPS

-----------------------------------------------------------------------------
(* Type correctness.                                                       *)

\* The tables start well typed.
LEMMA InitType == Init => TypeOK
BY DEF Init, TypeOK, NoEdit, NoRow, NoReview

\* Creating accounts and logging in keep the types.
LEMMA AccountType ==
  ASSUME TypeOK, NEW u \in Ids,
         SeedCheck(u) \/ SelfRegister(u) \/ Register(u) \/ Insert(u) \/ Login(u)
  PROVE  TypeOK'
<1> USE DEF TypeOK
<1>1. CASE SeedCheck(u) \/ SelfRegister(u) \/ Register(u)
  BY <1>1 DEF SeedCheck, SelfRegister, Register, PhoneCheck
<1>2. CASE Insert(u)
  <2>1. InitialRoles(reg[u]) \subseteq Roles
    BY <1>2 DEF Insert, LacksId, InitialRoles, Assignable, Roles
  <2> QED
    BY <1>2, <2>1 DEF Insert
<1>3. CASE Login(u)
  BY <1>3 DEF Login, Claim, accountVars
<1> QED
  BY <1>1, <1>2, <1>3

\* Edits of accounts keep the types.
LEMMA EditType ==
  ASSUME TypeOK, NEW o \in Edits,
         EditWrite(o) \/ \E a, u \in Ids, r \in Roles \cup {"none"} :
                            EditCheck(o, a, u, r)
  PROVE  TypeOK'
<1> USE DEF TypeOK
<1>1. CASE EditWrite(o)
  BY <1>1 DEF EditWrite, UpdateRole, DeleteRow, NoEdit
<1>2. ASSUME NEW a \in Ids, NEW u \in Ids, NEW r \in Roles \cup {"none"},
             EditCheck(o, a, u, r)
      PROVE  TypeOK'
  <2>1. UNCHANGED <<accountVars, tokens, ask, review, granted>>
    BY <1>2 DEF EditCheck
  <2>2. edit' \in [Edits -> [pc : {"idle", "checked", "done"}, target : Ids \cup {"none"},
                             to : Roles \cup {"none"}]]
        /\ \A p \in Edits : edit'[p].pc = "checked" => edit'[p].target \in Ids
    <3>1. CASE edit' = [edit EXCEPT ![o] = [pc |-> "checked", target |-> u, to |-> r]]
      BY <1>2, <3>1
    <3>2. CASE edit' = [edit EXCEPT ![o] = [NoEdit EXCEPT !.pc = "done"]]
      BY <1>2, <3>2 DEF NoEdit
    <3> QED
      BY <1>2, <3>1, <3>2 DEF EditCheck
  <2> QED
    BY <2>1, <2>2 DEF accountVars
<1> QED
  BY <1>1, <1>2

\* Requests for a role and their reviews keep the types.
LEMMA ReviewType ==
  ASSUME TypeOK,
         \/ \E q \in Requests, u \in Ids, r \in Assignable :
              CreateUpgradeRequest(q, u, r)
         \/ \E v \in Reviews, q \in Requests, d \in {"approved", "rejected"} :
              ReviewCheck(v, q, d)
         \/ \E v \in Reviews : ReviewWrite(v) \/ ReviewGrant(v)
  PROVE  TypeOK'
<1> USE DEF TypeOK
<1>1. ASSUME NEW q \in Requests, NEW u \in Ids, NEW r \in Assignable,
             CreateUpgradeRequest(q, u, r)
      PROVE  TypeOK'
  BY <1>1 DEF CreateUpgradeRequest, accountVars
<1>2. ASSUME NEW v \in Reviews, NEW q \in Requests,
             NEW d \in {"approved", "rejected"}, ReviewCheck(v, q, d)
      PROVE  TypeOK'
  <2>1. CASE review' = [review EXCEPT ![v] =
                          [pc |-> "checked", of |-> q, verdict |-> d]]
             /\ ask[q].status = "pending"
    BY <1>2, <2>1 DEF ReviewCheck, accountVars
  <2>2. CASE review' = [review EXCEPT ![v] = [NoReview EXCEPT !.pc = "done"]]
    BY <1>2, <2>2 DEF ReviewCheck, NoReview, accountVars
  <2> QED
    BY <1>2, <2>1, <2>2 DEF ReviewCheck
<1>3. ASSUME NEW v \in Reviews, ReviewWrite(v) PROVE TypeOK'
  <2> DEFINE q == review[v].of  d == review[v].verdict
             ended == [review EXCEPT ![v] = [NoReview EXCEPT !.pc = "done"]]
             decided == [ask EXCEPT ![q].status = d]
  <2>1. q \in Requests /\ d \in {"approved", "rejected"} /\ ask[q].status # "none"
    BY <1>3 DEF ReviewWrite
  <2>2. ask' \in {ask, decided}
    BY <1>3 DEF ReviewWrite
  <2>3. /\ ask' \in [Requests -> [user : Ids \cup {"none"},
                           wants : Assignable \cup {"none"},
                           status : {"none", "pending", "approved", "rejected"}]]
        /\ \A p \in Requests : /\ ask'[p].user = ask[p].user
                               /\ ask'[p].wants = ask[p].wants
                               /\ ask'[p].status # "none" <=> ask[p].status # "none"
    <3>1. CASE ask' = ask
      BY <3>1
    <3>2. CASE ask' = decided
      BY <2>1, <3>2
    <3> QED
      BY <2>2, <3>1, <3>2
  <2>4. CASE review' = ended
    BY <1>3, <2>3, <2>4 DEF ReviewWrite, NoReview, accountVars
  <2>5. CASE review' = [review EXCEPT ![v].pc = "granting"]
    BY <1>3, <2>1, <2>3, <2>5 DEF ReviewWrite, accountVars
  <2> QED
    BY <1>3, <2>4, <2>5 DEF ReviewWrite
<1>4. ASSUME NEW v \in Reviews, ReviewGrant(v) PROVE TypeOK'
  <2>1. /\ review[v].of \in Requests
        /\ ask[review[v].of].user \in Ids /\ ask[review[v].of].wants \in Roles
    BY <1>4 DEF ReviewGrant, Assignable, Roles
  <2>2. review' = [review EXCEPT ![v] = [NoReview EXCEPT !.pc = "done"]]
    BY <1>4 DEF ReviewGrant
  <2> QED
    BY <1>4, <2>1, <2>2 DEF ReviewGrant, UpdateRole, NoReview
<1> QED
  BY <1>1, <1>2, <1>3, <1>4

\* Every step keeps the types.
LEMMA StepType == TypeOK /\ [Next]_vars => TypeOK'
<1> SUFFICES ASSUME TypeOK, [Next]_vars PROVE TypeOK'
  OBVIOUS
<1>1. CASE UNCHANGED vars
  BY <1>1 DEF TypeOK, vars, accountVars
<1>2. CASE Next
  BY <1>2, AccountType, EditType, ReviewType DEF Next
<1> QED
  BY <1>1, <1>2

\* The tables and the requests in progress stay well typed; in particular a
\* review under way refers to a request that was filed by an account.
THEOREM TypeCorrect == Spec => []TypeOK
BY InitType, StepType, PTL DEF Spec

-----------------------------------------------------------------------------
(* The inductive invariant.                                                *)

\* The empty tables satisfy it.
LEMMA InitRoles == Init => RolesInv
BY DEF Init, RolesInv, OneAccountPerEmail, SeedKeepsItsRole,
       PendingGrantsNothing, EditsSpareSeeds, Remembered, Exists, NoEdit, NoRow,
       NoReview

\* A request that only reads and moves its own program counter, and a login,
\* disturb nothing.
LEMMA CheckRoles ==
  ASSUME TypeOK, RolesInv, NEW u \in Ids,
         SeedCheck(u) \/ SelfRegister(u) \/ Register(u) \/ Login(u)
  PROVE  RolesInv'
<1> USE DEF RolesInv, OneAccountPerEmail, SeedKeepsItsRole,
        PendingGrantsNothing, EditsSpareSeeds, Remembered, Exists
<1>1. CASE SeedCheck(u)
  BY <1>1 DEF SeedCheck, TypeOK
<1>2. CASE SelfRegister(u) \/ Register(u)
  BY <1>2 DEF SelfRegister, Register, PhoneCheck, TypeOK
<1>3. CASE Login(u)
  BY <1>3 DEF Login, accountVars
<1> QED
  BY <1>1, <1>2, <1>3

\* The unique column refuses the second account, and an account begins with
\* super_admin exactly if a start of the API makes it.
LEMMA InsertRoles ==
  ASSUME TypeOK, RolesInv, NEW u \in Ids, Insert(u)
  PROVE  RolesInv'
<1>1. CASE UNCHANGED <<role, made>>
  BY <1>1 DEF Insert, LacksId, TypeOK, RolesInv, OneAccountPerEmail, SeedKeepsItsRole,
        PendingGrantsNothing, EditsSpareSeeds, Remembered, Exists
<1>2. ASSUME ~Taken(u), NEW r \in InitialRoles(reg[u]),
             role' = [role EXCEPT ![u] = r], made' = made \cup {u}
      PROVE  RolesInv'
  <2>1. OneAccountPerEmail'
    BY <1>2 DEF Insert, LacksId, Taken, Exists, RolesInv, OneAccountPerEmail, TypeOK
  <2>2. u \in Seeds => r = "super_admin"
    BY <1>2, UserRolesAssumption
       DEF Insert, LacksId, InitialRoles, RolesInv, Remembered, TypeOK
  <2>3. SeedKeepsItsRole'
    BY <1>2, <2>2 DEF Insert, LacksId, RolesInv, SeedKeepsItsRole, TypeOK
  <2>4. PendingGrantsNothing' /\ EditsSpareSeeds'
    BY <1>2 DEF Insert, LacksId, RolesInv, PendingGrantsNothing, EditsSpareSeeds
  <2>5. Remembered'
    BY <1>2 DEF Insert, LacksId, RolesInv, Remembered, Exists, TypeOK
  <2> QED
    BY <2>1, <2>3, <2>4, <2>5 DEF RolesInv
<1> QED
  BY <1>1, <1>2 DEF Insert

\* An edit's check lets a seed administrator through only after a request of
\* its own was granted, and what was granted stays so until the write.
LEMMA EditRoles ==
  ASSUME TypeOK, RolesInv, NEW o \in Edits,
         EditWrite(o) \/ \E a, u \in Ids, r \in Roles \cup {"none"} :
                            EditCheck(o, a, u, r)
  PROVE  RolesInv'
<1>1. CASE EditWrite(o)
  <2>1. edit[o].target \in Ids
    BY <1>1 DEF EditWrite, TypeOK
  <2>2. \A u \in Ids : Exists(u)' => Exists(u)
    BY <1>1, <2>1 DEF EditWrite, UpdateRole, DeleteRow, Exists, TypeOK
  <2>3. OneAccountPerEmail' /\ Remembered'
    BY <1>1, <2>2 DEF EditWrite, RolesInv, OneAccountPerEmail, Remembered
  <2>4. SeedKeepsItsRole'
    BY <1>1, <2>1 DEF EditWrite, UpdateRole, DeleteRow, RolesInv, SeedKeepsItsRole,
          EditsSpareSeeds, TypeOK
  <2>5. EditsSpareSeeds' /\ PendingGrantsNothing'
    BY <1>1 DEF EditWrite, NoEdit, RolesInv, EditsSpareSeeds,
          PendingGrantsNothing, TypeOK
  <2> QED
    BY <2>3, <2>4, <2>5 DEF RolesInv
<1>2. ASSUME NEW a \in Ids, NEW u \in Ids, NEW r \in Roles \cup {"none"},
             EditCheck(o, a, u, r)
      PROVE  RolesInv'
  <2>1. EditsSpareSeeds'
    BY <1>2 DEF EditCheck, NoEdit, accountVars, RolesInv, EditsSpareSeeds,
          SeedKeepsItsRole, Remembered, Exists, TypeOK
  <2>2. OneAccountPerEmail' /\ SeedKeepsItsRole' /\ PendingGrantsNothing'
          /\ Remembered'
    BY <1>2 DEF EditCheck, accountVars, RolesInv, OneAccountPerEmail,
          SeedKeepsItsRole, PendingGrantsNothing, Remembered, Exists
  <2> QED
    BY <2>1, <2>2 DEF RolesInv
<1> QED
  BY <1>1, <1>2

\* Filing and deciding a request: its user never changes once it is filed,
\* and a role is written only after the status has left "pending".
LEMMA ReviewRoles ==
  ASSUME TypeOK, RolesInv,
         \/ \E q \in Requests, u \in Ids, r \in Assignable :
              CreateUpgradeRequest(q, u, r)
         \/ \E v \in Reviews, q \in Requests, d \in {"approved", "rejected"} :
              ReviewCheck(v, q, d)
         \/ \E v \in Reviews : ReviewWrite(v) \/ ReviewGrant(v)
  PROVE  RolesInv'
<1>1. ASSUME NEW q \in Requests, NEW u \in Ids, NEW r \in Assignable,
             CreateUpgradeRequest(q, u, r)
      PROVE  RolesInv'
  <2>1. q \notin granted
    BY <1>1 DEF CreateUpgradeRequest, RolesInv, Remembered
  <2>2. \A p \in Requests : p # q => ask'[p] = ask[p]
    BY <1>1 DEF CreateUpgradeRequest, TypeOK
  <2>3. \A v \in Reviews : review[v].pc = "granting" => review[v].of # q
    BY <1>1 DEF CreateUpgradeRequest, TypeOK
  <2> QED
    BY <1>1, <2>1, <2>2, <2>3
       DEF CreateUpgradeRequest, accountVars, RolesInv, OneAccountPerEmail,
           SeedKeepsItsRole, PendingGrantsNothing, EditsSpareSeeds, Remembered,
           Exists, TypeOK
<1>2. ASSUME NEW v \in Reviews, NEW q \in Requests,
             NEW d \in {"approved", "rejected"}, ReviewCheck(v, q, d)
      PROVE  RolesInv'
  <2>1. review'[v].pc # "granting"
    BY <1>2 DEF ReviewCheck, NoReview, TypeOK
  <2>2. \A w \in Reviews : w # v => review'[w] = review[w]
    BY <1>2 DEF ReviewCheck, TypeOK
  <2> QED
    BY <1>2, <2>1, <2>2
       DEF ReviewCheck, accountVars, RolesInv, OneAccountPerEmail,
           SeedKeepsItsRole, PendingGrantsNothing, EditsSpareSeeds, Remembered,
           Exists
<1>3. ASSUME NEW v \in Reviews, ReviewWrite(v) PROVE RolesInv'
  <2> DEFINE q == review[v].of  d == review[v].verdict
  <2>1. q \in Requests /\ d \in {"approved", "rejected"}
    BY <1>3 DEF ReviewWrite, TypeOK
  <2>2. \A p \in Requests : /\ ask'[p].user = ask[p].user
                            /\ ask'[p].status \in {ask[p].status, d}
    BY <1>3, <2>1 DEF ReviewWrite, TypeOK
  <2>3. review'[v].pc = "granting" => review'[v].of = q /\ ask'[q].status = d
    BY <1>3, <2>1 DEF ReviewWrite, NoReview, TypeOK
  <2>4. \A w \in Reviews : w # v => review'[w] = review[w]
    BY <1>3 DEF ReviewWrite, TypeOK
  <2>5. /\ PendingGrantsNothing'
        /\ \A p \in granted' : ask'[p].status # "none"
    BY <1>3, <2>1, <2>2 DEF ReviewWrite, RolesInv, PendingGrantsNothing,
          Remembered, TypeOK
  <2>6. \A w \in Reviews : review'[w].pc = "granting" =>
          ask'[review'[w].of].status \in {"approved", "rejected"}
    BY <2>1, <2>2, <2>3, <2>4 DEF RolesInv, Remembered, TypeOK
  <2>7. OneAccountPerEmail' /\ SeedKeepsItsRole' /\ EditsSpareSeeds'
    BY <1>3, <2>2 DEF ReviewWrite, accountVars, RolesInv, OneAccountPerEmail,
          SeedKeepsItsRole, EditsSpareSeeds, Exists, TypeOK
  <2>8. Remembered'
    BY <1>3, <2>5, <2>6 DEF ReviewWrite, accountVars, RolesInv, Remembered,
          Exists
  <2> QED
    BY <2>5, <2>7, <2>8 DEF RolesInv
<1>4. ASSUME NEW v \in Reviews, ReviewGrant(v) PROVE RolesInv'
  <2> DEFINE q == review[v].of  acct == ask[q].user
  <2>1. /\ q \in Requests /\ acct \in Ids /\ ask[q].wants # "none"
        /\ ask[q].status \in {"approved", "rejected"}
    BY <1>4 DEF ReviewGrant, RolesInv, Remembered, Assignable, TypeOK
  <2>2. \/ UpdateRole(acct, ask[q].wants) /\ granted' = granted \cup {q}
        \/ UNCHANGED <<role, granted>>
    BY <1>4 DEF ReviewGrant
  <2>3. \A u \in Ids : /\ Exists(u)' => Exists(u)
                       /\ u # acct => role'[u] = role[u]
    BY <2>1, <2>2 DEF UpdateRole, Exists, TypeOK
  <2> HIDE DEF q, acct
  <2>4. OneAccountPerEmail'
    BY <1>4, <2>3 DEF ReviewGrant, RolesInv, OneAccountPerEmail
  <2>5. SeedKeepsItsRole'
    BY <1>4, <2>1, <2>2, <2>3 DEF ReviewGrant, RolesInv, SeedKeepsItsRole, Ids,
          acct
  <2>6. PendingGrantsNothing' /\ EditsSpareSeeds'
    BY <1>4, <2>1, <2>2 DEF ReviewGrant, RolesInv, PendingGrantsNothing,
          EditsSpareSeeds
  <2>7. Remembered'
    BY <1>4, <2>1, <2>2, <2>3 DEF ReviewGrant, NoReview, RolesInv, Remembered,
          TypeOK
  <2> QED
    BY <2>4, <2>5, <2>6, <2>7 DEF RolesInv
<1> QED
  BY <1>1, <1>2, <1>3, <1>4

\* Every step keeps the invariant.
LEMMA StepRoles == TypeOK /\ RolesInv /\ [Next]_vars => RolesInv'
<1> SUFFICES ASSUME TypeOK, RolesInv, [Next]_vars PROVE RolesInv'
  OBVIOUS
<1>1. CASE UNCHANGED vars
  BY <1>1 DEF vars, accountVars, RolesInv, OneAccountPerEmail,
        SeedKeepsItsRole, PendingGrantsNothing, EditsSpareSeeds, Remembered,
        Exists
<1>2. CASE Next
  BY <1>2, CheckRoles, InsertRoles, EditRoles, ReviewRoles DEF Next
<1> QED
  BY <1>1, <1>2

\* The accounts stay consistent with the requests made about them.
THEOREM RolesConsistent == Spec => []RolesInv
BY InitType, StepType, InitRoles, StepRoles, PTL DEF Spec

-----------------------------------------------------------------------------
(* What follows for the service.                                           *)

\* A phone number has one account and the seed address one administrator,
\* although check and INSERT are separate statements.
THEOREM EmailsAreUnique == Spec => []OneAccountPerEmail
BY RolesConsistent, PTL DEF RolesInv

\* The seed administrator loses its role only through its own request.
THEOREM SeedIsSafe == Spec => []SeedKeepsItsRole
BY RolesConsistent, PTL DEF RolesInv

\* A pending request has had no effect.
THEOREM PendingIsPending == Spec => []PendingGrantsNothing
BY RolesConsistent, PTL DEF RolesInv

\* Once deleted, an account is not recreated by any request.
LEMMA GoneStep ==
  ASSUME TypeOK, RolesInv, [Next]_vars, NEW u \in made, ~Exists(u)
  PROVE  ~Exists(u)'
<1>1. CASE role' = role
  BY <1>1 DEF Exists
<1>2. ASSUME NEW w \in Ids, Insert(w) PROVE ~Exists(u)'
  <2>1. w \notin made
    BY <1>2 DEF Insert, LacksId, RolesInv, Remembered
  <2> QED
    BY <1>2, <2>1 DEF Insert, LacksId, Exists, TypeOK
<1>3. ASSUME NEW o \in Edits, EditWrite(o) PROVE ~Exists(u)'
  BY <1>3 DEF EditWrite, UpdateRole, DeleteRow, Exists, TypeOK
<1>4. ASSUME NEW v \in Reviews, ReviewGrant(v) PROVE ~Exists(u)'
  BY <1>4 DEF ReviewGrant, UpdateRole, Exists, TypeOK
<1> QED
  BY <1>1, <1>2, <1>3, <1>4
     DEF Next, vars, accountVars, SeedCheck, SelfRegister, Register, PhoneCheck,
         Login, EditCheck, CreateUpgradeRequest, ReviewCheck, ReviewWrite

\* A change or an approval under way does not bring a deleted account back.
THEOREM DeletedAccountsStayDeleted == Spec => GoneStaysGone
<1>1. TypeOK /\ RolesInv /\ [Next]_vars =>
        [\A u \in made : ~Exists(u) => ~Exists(u)']_vars
  BY GoneStep
<1> QED
  BY <1>1, TypeCorrect, RolesConsistent, PTL DEF Spec, GoneStaysGone
=============================================================================
