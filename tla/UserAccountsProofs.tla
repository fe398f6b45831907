------------------------- MODULE UserAccountsProofs -------------------------
(***************************************************************************)
(* Proofs about UserAccounts, for every number of addresses, roles,        *)
(* overlapping calls and failures.                                         *)
(***************************************************************************)
EXTENDS UserAccounts, TLAPS

USE AccountBounds, RoleAssumption, NoCallAssumption

-----------------------------------------------------------------------------
(* Types.                                                                  *)

\* A call in a phase of its operation is a call of that operation, and a role
\* call about to save names an account that is stored.
CallsFitPhases ==
  \A q \in Calls :
    /\ pc[q] \in {"findEmail", "insert"} => call[q] \in Create
    /\ pc[q] \in {"findUser", "saveAdd", "saveRemove"} => call[q] \in RoleCall
    /\ pc[q] = "saveAdd" => call[q].op = "add" /\ call[q].user \in DOMAIN users
    /\ pc[q] = "saveRemove" => call[q].op = "remove" /\ call[q].user \in DOMAIN users

TypeInv == TypeOK /\ CallsFitPhases

LEMMA PushType ==
  ASSUME NEW b \in Roles, NEW r \in Role
  PROVE  /\ Push(b, r) \in Roles
         /\ RolesOf(Push(b, r)) = RolesOf(b) \cup {r}
BY DEF Push, Roles, RolesOf

LEMMA WithoutType ==
  ASSUME NEW b \in Roles, NEW r \in Role
  PROVE  /\ Without(b, r) \in Roles
         /\ RolesOf(Without(b, r)) = RolesOf(b) \ {r}
BY DEF Without, Roles, RolesOf

LEMMA NoRolesType == NoRoles \in Roles /\ RolesOf(NoRoles) = {}
BY DEF NoRoles, Roles, RolesOf

LEMMA NewUserType ==
  ASSUME NEW e \in Emails
  PROVE  /\ NewUser(e) \in User
         /\ NewUser(e).email = e
         /\ RolesOf(NewUser(e).roles) = {DefaultRole}
<1>1. /\ Push(NoRoles, DefaultRole) \in Roles
      /\ RolesOf(Push(NoRoles, DefaultRole)) = {DefaultRole}
  BY PushType, NoRolesType
<1> QED BY <1>1 DEF NewUser, User

LEMMA SavedType ==
  ASSUME NEW d \in User, NEW b \in Roles
  PROVE  /\ Saved(d, b) \in User
         /\ Saved(d, b).email = d.email
         /\ Saved(d, b).roles = b
         /\ Saved(d, b).version = d.version + 1
BY DEF Saved, User

LEMMA TypeInit == Init => TypeInv
BY NoRolesType DEF Init, TypeInv, TypeOK, CallsFitPhases, Phases

LEMMA TypeArrive ==
  ASSUME TypeInv, NEW q \in Calls, NEW c \in Call, Arrive(q, c)
  PROVE  TypeInv'
<1>1. TypeOK'
  BY DEF TypeInv, TypeOK, Arrive, Goto, Phases
<1>2. CallsFitPhases'
  BY DEF TypeInv, TypeOK, CallsFitPhases, Arrive, Goto, Call, Create, RoleCall
<1> QED BY <1>1, <1>2 DEF TypeInv

LEMMA TypeServe ==
  ASSUME TypeInv, NEW q \in Calls, Serve(q)
  PROVE  TypeInv'
<1> USE DEF TypeInv, TypeOK, CallsFitPhases, Goto, Phases
<1>1. CASE FindEmail(q)
  BY <1>1 DEF FindEmail
<1>2. CASE Insert(q)
  <2>1. call[q].email \in Emails
    BY <1>2 DEF Insert, Create
  <2>2. CASE UNCHANGED users
    BY <1>2, <2>2 DEF Insert
  <2>3. CASE Len(users) < MaxAccounts /\ users' = Append(users, NewUser(call[q].email))
    <3>1. /\ users' \in Seq(User) /\ Len(users') = Len(users) + 1
          /\ DOMAIN users \subseteq DOMAIN users'
      BY <2>1, <2>3, NewUserType
    <3>2. TypeOK'
      BY <1>2, <2>3, <3>1 DEF Insert
    <3>3. CallsFitPhases'
      BY <1>2, <3>1 DEF Insert
    <3> QED BY <3>2, <3>3
  <2> QED BY <1>2, <2>2, <2>3 DEF Insert
<1>3. CASE FindForAdd(q)
  BY <1>3 DEF FindForAdd, Known
<1>4. CASE SaveAdd(q)
  <2> DEFINE u == call[q].user
  <2>1. u \in DOMAIN users /\ call[q].role \in Role
    BY <1>4 DEF SaveAdd, RoleCall
  <2>2. users[u] \in User
    BY <2>1
  <2>3. Saved(users[u], Push(users[u].roles, call[q].role)) \in User
    BY <2>1, <2>2, PushType, SavedType DEF User
  <2>4. users' \in Seq(User) /\ Len(users') = Len(users) /\ DOMAIN users' = DOMAIN users
    BY <1>4, <2>1, <2>3 DEF SaveAdd
  <2> QED BY <1>4, <2>4 DEF SaveAdd
<1>5. CASE FindForRemove(q)
  <2>1. CASE UNCHANGED doc
    BY <1>5, <2>1 DEF FindForRemove, Removable, Known
  <2>2. CASE Removable(q) /\ Goto(q, "findUser", "saveRemove")
             /\ doc' = [doc EXCEPT ![q] = [roles |-> Without(RolesRead(q), call[q].role),
                                           version |-> users[call[q].user].version]]
    <3>1. call[q].user \in DOMAIN users /\ call[q].role \in Role
      BY <1>5, <2>2 DEF FindForRemove, Removable, Known, RoleCall
    <3>2. users[call[q].user] \in User
      BY <3>1
    <3>3. Without(RolesRead(q), call[q].role) \in Roles
      BY <3>1, <3>2, WithoutType DEF RolesRead, User
    <3>4. doc' \in [Calls -> [roles : Roles, version : Nat]]
      BY <2>2, <3>2, <3>3 DEF User
    <3>5. TypeOK'
      BY <1>5, <2>2, <3>4 DEF FindForRemove
    <3>6. CallsFitPhases'
      BY <1>5, <2>2, <3>1 DEF FindForRemove
    <3> QED BY <3>5, <3>6
  <2> QED BY <1>5, <2>1, <2>2 DEF FindForRemove
<1>6. CASE SaveRemove(q)
  <2> DEFINE u == call[q].user
  <2>1. u \in DOMAIN users
    BY <1>6 DEF SaveRemove
  <2>2. users[u] \in User /\ doc[q].roles \in Roles
    BY <2>1
  <2>3. users' \in Seq(User) /\ Len(users') = Len(users) /\ DOMAIN users' = DOMAIN users
    <3>1. CASE VersionMatches(q)
      <4>1. Saved(users[u], doc[q].roles) \in User
        BY <2>2, SavedType
      <4> QED BY <1>6, <2>1, <3>1, <4>1 DEF SaveRemove
    <3>2. CASE ~ VersionMatches(q)
      BY <1>6, <3>2 DEF SaveRemove
    <3> QED BY <3>1, <3>2
  <2> QED BY <1>6, <2>3 DEF SaveRemove
<1> QED BY <1>1, <1>2, <1>3, <1>4, <1>5, <1>6 DEF Serve

LEMMA TypeStep == TypeInv /\ [Next]_vars => TypeInv'
<1> SUFFICES ASSUME TypeInv, [Next]_vars PROVE TypeInv'
  OBVIOUS
<1>1. ASSUME NEW q \in Calls, NEW c \in Call, Arrive(q, c) PROVE TypeInv'
  BY <1>1, TypeArrive
<1>2. ASSUME NEW q \in Calls, Serve(q) PROVE TypeInv'
  BY <1>2, TypeServe
<1>3. ASSUME NEW q \in Calls, Fail(q) PROVE TypeInv'
  BY <1>3 DEF Fail, TypeInv, TypeOK, CallsFitPhases, Phases
<1>4. CASE UNCHANGED vars
  BY <1>4 DEF vars, TypeInv, TypeOK, CallsFitPhases
<1> QED BY <1>1, <1>2, <1>3, <1>4 DEF Next

LEMMA TypeInvariant == Spec => []TypeInv
BY TypeInit, TypeStep, PTL DEF Spec

\* Every variable of the account store and its calls keeps its type.
THEOREM AccountTypes == Spec => []TypeOK
BY TypeInvariant, PTL DEF TypeInv

-----------------------------------------------------------------------------
(* What a step does to the collection.                                     *)

\* Call q stores a new account.
Stores(q) ==
  /\ pc[q] = "insert" /\ ~ DuplicateEmail(call[q].email)
  /\ Len(users) < MaxAccounts
  /\ users' = Append(users, NewUser(call[q].email))

\* Call q saves a changed array of roles to the account it names.
Saves(q) ==
  \/ /\ pc[q] = "saveAdd"
     /\ users' = [users EXCEPT ![call[q].user] =
                    Saved(@, Push(@.roles, call[q].role))]
  \/ /\ pc[q] = "saveRemove" /\ VersionMatches(q)
     /\ users' = [users EXCEPT ![call[q].user] = Saved(@, doc[q].roles)]

Ends(q) ==
  /\ pc' = [pc EXCEPT ![q] = "idle"]
  /\ UNCHANGED <<call, doc>>

LEMMA UsersStep ==
  ASSUME TypeInv, [Next]_vars
  PROVE  \/ UNCHANGED users
         \/ \E q \in Calls : (Stores(q) \/ Saves(q)) /\ Ends(q)
<1>1. ASSUME NEW q \in Calls, NEW c \in Call, Arrive(q, c) PROVE UNCHANGED users
  BY <1>1 DEF Arrive
<1>2. ASSUME NEW q \in Calls, Fail(q) PROVE UNCHANGED users
  BY <1>2 DEF Fail
<1>3. ASSUME NEW q \in Calls, Serve(q)
      PROVE  UNCHANGED users \/ ((Stores(q) \/ Saves(q)) /\ Ends(q))
  BY <1>3 DEF Serve, FindEmail, Insert, FindForAdd, FindForRemove, SaveAdd, SaveRemove,
              Goto, Stores, Saves, Ends
<1>4. CASE UNCHANGED vars
  BY <1>4 DEF vars
<1> QED BY <1>1, <1>2, <1>3, <1>4 DEF Next

\* A stored account is appended; no other changes.
LEMMA StoresType ==
  ASSUME TypeInv, NEW q \in Calls, Stores(q)
  PROVE  /\ call[q] \in Create /\ call[q].email \in Emails
         /\ Len(users) + 1 \in Accounts
         /\ DOMAIN users' = DOMAIN users \cup {Len(users) + 1}
         /\ Len(users) + 1 \notin DOMAIN users
         /\ \A a \in DOMAIN users : users'[a] = users[a]
         /\ users'[Len(users) + 1] = NewUser(call[q].email)
<1>1. call[q] \in Create /\ call[q].email \in Emails
  BY DEF Stores, TypeInv, CallsFitPhases, Create
<1>2. NewUser(call[q].email) \in User /\ users \in Seq(User)
  BY <1>1, NewUserType DEF TypeInv, TypeOK
<1> QED BY <1>1, <1>2 DEF Stores, Accounts

\* A save changes one stored account: its array, to b, and its version.
LEMMA SavesType ==
  ASSUME TypeInv, NEW q \in Calls, Saves(q)
  PROVE  LET u == call[q].user
             b == IF pc[q] = "saveAdd" THEN Push(users[u].roles, call[q].role)
                  ELSE doc[q].roles
         IN  /\ call[q] \in RoleCall /\ u \in DOMAIN users /\ u \in Accounts
             /\ users[u] \in User /\ b \in Roles
             /\ DOMAIN users' = DOMAIN users
             /\ users'[u] = Saved(users[u], b)
             /\ \A a \in DOMAIN users : a # u => users'[a] = users[a]
<1> DEFINE u == call[q].user
           b == IF pc[q] = "saveAdd" THEN Push(users[u].roles, call[q].role)
                ELSE doc[q].roles
<1>1. call[q] \in RoleCall /\ u \in DOMAIN users /\ users \in Seq(User)
  BY DEF Saves, TypeInv, TypeOK, CallsFitPhases
<1>2. u \in Accounts /\ users[u] \in User
  BY <1>1 DEF RoleCall
<1>3. b \in Roles
  BY <1>1, <1>2, PushType DEF RoleCall, TypeInv, TypeOK, User
<1>4. users' = [users EXCEPT ![u] = Saved(users[u], b)]
  BY DEF Saves
<1> HIDE DEF b
<1>5. /\ DOMAIN users' = DOMAIN users
      /\ users'[u] = Saved(users[u], b)
      /\ \A a \in DOMAIN users : a # u => users'[a] = users[a]
  BY <1>1, <1>4
<1> QED BY <1>1, <1>2, <1>3, <1>5 DEF b

-----------------------------------------------------------------------------
(* One account per address.                                                *)

LEMMA EmailStep == TypeInv /\ OneAccountPerEmail /\ [Next]_vars => OneAccountPerEmail'
<1> SUFFICES ASSUME TypeInv, OneAccountPerEmail, [Next]_vars
             PROVE  OneAccountPerEmail'
  OBVIOUS
<1>1. CASE UNCHANGED users
  BY <1>1 DEF OneAccountPerEmail
<1>2. ASSUME NEW q \in Calls, Stores(q) PROVE OneAccountPerEmail'
  <2>1. \A a \in DOMAIN users : users[a].email # call[q].email
    BY <1>2 DEF Stores, DuplicateEmail, EmailTaken
  <2>2. NewUser(call[q].email).email = call[q].email
    BY <1>2, StoresType, NewUserType
  <2> QED BY <1>2, <2>1, <2>2, StoresType DEF OneAccountPerEmail
<1>3. ASSUME NEW q \in Calls, Saves(q) PROVE OneAccountPerEmail'
  <2>1. \A a \in DOMAIN users : users'[a].email = users[a].email
    BY <1>3, SavesType, SavedType
  <2>2. DOMAIN users' = DOMAIN users
    BY <1>3, SavesType
  <2> QED BY <2>1, <2>2 DEF OneAccountPerEmail
<1> QED BY <1>1, <1>2, <1>3, UsersStep

\* An address has at most one account, however many registrations overlap.
THEOREM OneAccountPerEmailHolds == Spec => []OneAccountPerEmail
<1>1. Init => OneAccountPerEmail
  BY DEF Init, OneAccountPerEmail
<1> QED BY <1>1, EmailStep, TypeInvariant, PTL DEF Spec

-----------------------------------------------------------------------------
(* The document a removal has read.                                        *)

\* A removal about to save read a version that is still stored or an older one;
\* while it is still stored, so is the array it filtered, which then had more
\* than one entry.
ReadIsCurrent ==
  \A q \in Calls : pc[q] = "saveRemove" =>
    /\ doc[q].version <= users[call[q].user].version
    /\ VersionMatches(q) =>
         /\ doc[q].roles = Without(users[call[q].user].roles, call[q].role)
         /\ ~ Single(users[call[q].user].roles)

\* A call whose document and account stay as they are keeps its reading.
LEMMA ReadingKept ==
  ASSUME TypeInv, ReadIsCurrent, NEW q \in Calls,
         pc'[q] = "saveRemove" => /\ pc[q] = "saveRemove"
                                  /\ call'[q] = call[q] /\ doc'[q] = doc[q]
                                  /\ users'[call[q].user] = users[call[q].user],
         pc'[q] = "saveRemove"
  PROVE  /\ doc'[q].version <= users'[call'[q].user].version
         /\ VersionMatches(q)' =>
              /\ doc'[q].roles = Without(users'[call'[q].user].roles, call'[q].role)
              /\ ~ Single(users'[call'[q].user].roles)
BY DEF ReadIsCurrent, VersionMatches, Without, Single

LEMMA ReadStep == TypeInv /\ ReadIsCurrent /\ [Next]_vars => ReadIsCurrent'
<1> SUFFICES ASSUME TypeInv, ReadIsCurrent, [Next]_vars,
                    NEW q \in Calls, pc'[q] = "saveRemove"
             PROVE  /\ doc'[q].version <= users'[call'[q].user].version
                    /\ VersionMatches(q)' =>
                         /\ doc'[q].roles = Without(users'[call'[q].user].roles, call'[q].role)
                         /\ ~ Single(users'[call'[q].user].roles)
  BY DEF ReadIsCurrent, VersionMatches, Without, Single
<1> DEFINE Kept == /\ pc[q] = "saveRemove"
                   /\ call'[q] = call[q] /\ doc'[q] = doc[q]
                   /\ users'[call[q].user] = users[call[q].user]
<1> USE DEF Goto
<1>1. ASSUME NEW p \in Calls, NEW c \in Call, Arrive(p, c) PROVE Kept
  BY <1>1 DEF Arrive, TypeInv, TypeOK
<1>2. ASSUME NEW p \in Calls, Fail(p) PROVE Kept
  BY <1>2 DEF Fail, TypeInv, TypeOK
<1>3. ASSUME NEW p \in Calls, FindEmail(p) \/ FindForAdd(p) PROVE Kept
  BY <1>3 DEF FindEmail, FindForAdd, TypeInv, TypeOK
<1>4. ASSUME NEW p \in Calls, FindForRemove(p), p # q PROVE Kept
  BY <1>4 DEF FindForRemove, TypeInv, TypeOK
<1>5. ASSUME NEW p \in Calls, (Stores(p) \/ Saves(p)) /\ Ends(p)
      PROVE  \/ Kept
             \/ /\ pc[q] = "saveRemove"
                /\ call'[q] = call[q] /\ doc'[q] = doc[q]
                /\ users[call[q].user] \in User
                /\ users'[call[q].user].version = users[call[q].user].version + 1
  <2>1. pc[q] = "saveRemove" /\ call'[q] = call[q] /\ doc'[q] = doc[q]
    BY <1>5 DEF Ends, TypeInv, TypeOK
  <2>2. call[q].user \in DOMAIN users
    BY <2>1 DEF TypeInv, CallsFitPhases
  <2>3. CASE Stores(p)
    BY <2>1, <2>2, <2>3, StoresType
  <2>4. CASE Saves(p)
    BY <2>1, <2>2, <2>4, SavesType, SavedType
  <2> QED BY <1>5, <2>3, <2>4
<1>6. ASSUME NEW p \in Calls, Insert(p) \/ SaveAdd(p) \/ SaveRemove(p), UNCHANGED users
      PROVE  Kept
  BY <1>6 DEF Insert, SaveAdd, SaveRemove, TypeInv, TypeOK
<1>7. CASE UNCHANGED vars
  BY <1>7, ReadingKept DEF vars
<1>8. CASE FindForRemove(q)
  <2>1. /\ Removable(q) /\ UNCHANGED <<users, call>>
        /\ doc'[q] = [roles |-> Without(RolesRead(q), call[q].role),
                      version |-> users[call[q].user].version]
    BY <1>8 DEF FindForRemove, TypeInv, TypeOK
  <2>2. users[call[q].user] \in User
    BY <2>1 DEF Removable, Known, TypeInv, TypeOK
  <2>3. ~ Single(users[call[q].user].roles)
    BY <2>1 DEF Removable, LastRole, RolesRead
  <2> QED BY <2>1, <2>2, <2>3 DEF RolesRead, User, VersionMatches, Without, Single
<1>9. CASE Kept
  BY <1>9, ReadingKept
<1>10. CASE /\ pc[q] = "saveRemove"
            /\ call'[q] = call[q] /\ doc'[q] = doc[q]
            /\ users[call[q].user] \in User
            /\ users'[call[q].user].version = users[call[q].user].version + 1
  <2>1. doc[q].version \in Nat /\ users[call[q].user].version \in Nat
    BY <1>10 DEF User, TypeInv, TypeOK
  <2>2. doc[q].version <= users[call[q].user].version
    BY <1>10 DEF ReadIsCurrent
  <2> QED BY <1>10, <2>1, <2>2 DEF VersionMatches
<1>11. ASSUME NEW p \in Calls, Insert(p) \/ SaveAdd(p) \/ SaveRemove(p)
       PROVE  UNCHANGED users \/ ((Stores(p) \/ Saves(p)) /\ Ends(p))
  BY <1>11 DEF Insert, SaveAdd, SaveRemove, Stores, Saves, Ends
<1> HIDE DEF Kept
<1> QED
  BY <1>1, <1>2, <1>3, <1>4, <1>5, <1>6, <1>7, <1>8, <1>9, <1>10, <1>11 DEF Next, Serve

LEMMA ReadInvariant == Spec => []ReadIsCurrent
<1>1. Init => ReadIsCurrent
  BY DEF Init, ReadIsCurrent
<1> QED BY <1>1, ReadStep, TypeInvariant, PTL DEF Spec

\* The guard of removeRole is not stale when the array is written: a single entry
\* is never emptied, however calls overlap.
THEOREM LastEntryIsKept == Spec => LastEntryKept
<1>1. TypeInv /\ ReadIsCurrent /\ [Next]_vars
      => [\A a \in DOMAIN users :
            Single(users[a].roles) => RolesOf(users'[a].roles) # {}]_vars
  <2> SUFFICES ASSUME TypeInv, ReadIsCurrent, [Next]_vars,
                      NEW a \in DOMAIN users, Single(users[a].roles)
               PROVE  RolesOf(users'[a].roles) # {}
    OBVIOUS
  <2>1. users[a] \in User /\ RolesOf(users[a].roles) # {}
    <3>1. PICK r \in Role : users[a].roles = Push(NoRoles, r)
      BY DEF Single
    <3>2. RolesOf(Push(NoRoles, r)) = {r}
      BY NoRolesType, PushType
    <3> QED BY <3>1, <3>2 DEF TypeInv, TypeOK
  <2>2. CASE UNCHANGED users
    BY <2>1, <2>2
  <2>3. ASSUME NEW q \in Calls, Stores(q) PROVE RolesOf(users'[a].roles) # {}
    BY <2>1, <2>3, StoresType
  <2>4. ASSUME NEW q \in Calls, Saves(q) PROVE RolesOf(users'[a].roles) # {}
    <3>1. CASE a # call[q].user
      BY <2>1, <2>4, <3>1, SavesType
    <3>2. CASE a = call[q].user
      <4>1. pc[q] = "saveAdd"
        BY <2>4, <3>2 DEF Saves, ReadIsCurrent
      <4>2. /\ users'[a] = Saved(users[a], Push(users[a].roles, call[q].role))
            /\ call[q].role \in Role
        BY <2>4, <3>2, <4>1, SavesType DEF RoleCall
      <4>3. call[q].role \in RolesOf(users'[a].roles)
        BY <2>1, <4>2, SavedType, PushType DEF User
      <4> QED BY <4>3
    <3> QED BY <3>1, <3>2
  <2> QED BY <2>2, <2>3, <2>4, UsersStep
<1> QED BY <1>1, TypeInvariant, ReadInvariant, PTL DEF Spec, LastEntryKept

-----------------------------------------------------------------------------
(* UserAccounts implements RoleRegister.                                   *)

\* What becomes of the calls being served when slot q goes idle, or changes its
\* phase without going idle.
LEMMA PendingEnds ==
  ASSUME TypeInv, NEW q \in Calls, pc[q] # "idle", UNCHANGED call,
         pc' = [pc EXCEPT ![q] = "idle"]
  PROVE  /\ Pending' = [Pending EXCEPT ![q] = NoCall]
         /\ Pending[q] = call[q] /\ Pending[q] # NoCall
<1>1. call[q] \in Call
  BY DEF TypeInv, TypeOK, CallsFitPhases, Phases, Call
<1> QED BY <1>1 DEF Pending, TypeInv, TypeOK

LEMMA PendingStays ==
  ASSUME TypeInv, NEW q \in Calls, NEW p \in Phases, p # "idle", pc[q] # "idle",
         pc' = [pc EXCEPT ![q] = p], UNCHANGED call
  PROVE  Pending' = Pending
BY DEF Pending, TypeInv, TypeOK

LEMMA GrantedStays == UNCHANGED users => UNCHANGED Granted
BY DEF Granted

\* A call that ends without a save.
LEMMA QuietEnd ==
  ASSUME TypeInv, NEW q \in Calls, pc[q] # "idle", UNCHANGED <<users, call>>,
         pc' = [pc EXCEPT ![q] = "idle"]
  PROVE  Register!Next
<1>1. Register!End(q)
  BY PendingEnds, GrantedStays DEF Register!End
<1> QED BY <1>1 DEF Register!Next

LEMMA ArriveBegins ==
  ASSUME TypeInv, NEW q \in Calls, NEW c \in Call, Arrive(q, c)
  PROVE  Register!Next
<1>1. Pending[q] = NoCall /\ Pending' = [Pending EXCEPT ![q] = c]
  BY DEF Arrive, Goto, Pending, TypeInv, TypeOK
<1>2. UNCHANGED Granted
  BY GrantedStays DEF Arrive
<1>3. Register!Begin(q, c)
  BY <1>1, <1>2 DEF Register!Begin
<1> QED BY <1>3 DEF Register!Next, Call

\* Storing an account grants it the default role.
LEMMA StoreTakesEffect ==
  ASSUME TypeInv, NEW q \in Calls, Stores(q), Ends(q)
  PROVE  Register!Next
<1> DEFINE n == Len(users) + 1
<1>1. /\ Pending' = [Pending EXCEPT ![q] = NoCall]
      /\ Pending[q] = call[q] /\ Pending[q] # NoCall
  BY PendingEnds DEF Stores, Ends
<1>2. n \in Accounts /\ Granted[n] = {}
  BY StoresType DEF Granted
<1>3. Granted' = [Granted EXCEPT ![n] = @ \cup {DefaultRole}]
  <2>1. \A a \in Accounts :
          Granted'[a] = IF a = n THEN {DefaultRole} ELSE Granted[a]
    <3>1. RolesOf(users'[n].roles) = {DefaultRole}
      BY StoresType, NewUserType
    <3>2. ASSUME NEW a \in Accounts, a # n PROVE Granted'[a] = Granted[a]
      BY <3>2, StoresType DEF Granted
    <3>3. Granted'[n] = {DefaultRole}
      BY <3>1, StoresType DEF Granted
    <3> QED BY <3>2, <3>3
  <2>2. /\ Granted' = [a \in Accounts |-> Granted'[a]]
        /\ Granted = [a \in Accounts |-> Granted[a]]
    BY DEF Granted
  <2> QED BY <1>2, <2>1, <2>2
<1>4. Register!TakeEffect(q)
  BY <1>1, <1>2, <1>3, StoresType DEF Register!TakeEffect, Register!Grant
<1> QED BY <1>4 DEF Register!Next

\* Saving an array grants or revokes the role the call names.
LEMMA SaveTakesEffect ==
  ASSUME TypeInv, ReadIsCurrent, NEW q \in Calls, Saves(q), Ends(q)
  PROVE  Register!Next
<1> DEFINE u == call[q].user
           r == call[q].role
<1>1. /\ Pending' = [Pending EXCEPT ![q] = NoCall]
      /\ Pending[q] = call[q] /\ Pending[q] # NoCall
  BY PendingEnds DEF Saves, Ends
<1>2. /\ call[q] \in RoleCall /\ u \in DOMAIN users /\ u \in Accounts /\ r \in Role
      /\ users[u].roles \in Roles
      /\ Granted[u] = RolesOf(users[u].roles)
      /\ Granted'[u] = RolesOf(users'[u].roles)
  BY SavesType DEF Granted, RoleCall, User
<1>3. \A a \in Accounts : a # u => Granted'[a] = Granted[a]
  BY SavesType DEF Granted
<1>4. /\ Granted' = [a \in Accounts |-> Granted'[a]]
      /\ Granted = [a \in Accounts |-> Granted[a]]
  BY DEF Granted
<1>5. CASE pc[q] = "saveAdd"
  <2>1. call[q].op = "add"
    BY <1>5 DEF TypeInv, CallsFitPhases
  <2>2. users'[u].roles = Push(users[u].roles, r)
    <3>1. users[u] \in User /\ users'[u] = Saved(users[u], Push(users[u].roles, r))
      BY <1>5, SavesType
    <3>2. Push(users[u].roles, r) \in Roles
      BY <1>2, PushType
    <3> QED BY <3>1, <3>2, SavedType
  <2>3. Granted'[u] = Granted[u] \cup {r}
    BY <1>2, <2>2, PushType
  <2>4. Granted' = [Granted EXCEPT ![u] = @ \cup {r}]
    BY <1>2, <1>3, <1>4, <2>3
  <2>5. Register!TakeEffect(q)
    BY <1>1, <1>2, <2>1, <2>4 DEF Register!TakeEffect, Register!Grant
  <2> QED BY <2>5 DEF Register!Next
<1>6. CASE pc[q] = "saveRemove" /\ VersionMatches(q)
  <2>1. call[q].op = "remove"
    BY <1>6 DEF TypeInv, CallsFitPhases
  <2>2. doc[q].roles = Without(users[u].roles, r)
    BY <1>6 DEF ReadIsCurrent
  <2>3. users'[u].roles = doc[q].roles
    <3>1. /\ users[u] \in User /\ doc[q].roles \in Roles
          /\ users'[u] = Saved(users[u], doc[q].roles)
      BY <1>6, SavesType
    <3> QED BY <3>1, SavedType
  <2>4. Granted'[u] = Granted[u] \ {r}
    BY <1>2, <2>2, <2>3, WithoutType
  <2>5. Granted' = [Granted EXCEPT ![u] = @ \ {r}]
    BY <1>2, <1>3, <1>4, <2>4
  <2>6. Register!TakeEffect(q)
    BY <1>1, <1>2, <2>1, <2>5 DEF Register!TakeEffect, Register!Revoke
  <2> QED BY <2>6 DEF Register!Next
<1> QED BY <1>5, <1>6 DEF Saves

LEMMA ServeImplements ==
  ASSUME TypeInv, ReadIsCurrent, NEW q \in Calls, Serve(q)
  PROVE  [Register!Next]_(Register!vars)
<1> USE DEF Goto
<1>1. CASE (Stores(q) \/ Saves(q)) /\ Ends(q)
  BY <1>1, StoreTakesEffect, SaveTakesEffect
<1>2. CASE pc[q] # "idle" /\ UNCHANGED <<users, call>> /\ pc' = [pc EXCEPT ![q] = "idle"]
  BY <1>2, QuietEnd
<1>3. ASSUME NEW p \in Phases, p # "idle", pc[q] # "idle", UNCHANGED <<users, call>>,
             pc' = [pc EXCEPT ![q] = p]
      PROVE  UNCHANGED <<Granted, Pending>>
  BY <1>3, PendingStays, GrantedStays
<1>4. CASE FindEmail(q)
  BY <1>2, <1>3, <1>4 DEF FindEmail, Phases, Register!vars
<1>5. CASE FindForAdd(q)
  BY <1>2, <1>3, <1>5 DEF FindForAdd, Phases, Register!vars
<1>6. CASE FindForRemove(q)
  BY <1>2, <1>3, <1>6 DEF FindForRemove, Phases, Register!vars
<1>7. CASE Insert(q) \/ SaveAdd(q) \/ SaveRemove(q)
  BY <1>1, <1>2, <1>7 DEF Insert, SaveAdd, SaveRemove, Stores, Saves, Ends
<1> QED BY <1>4, <1>5, <1>6, <1>7 DEF Serve

LEMMA RegisterStep ==
  ASSUME TypeInv, ReadIsCurrent, [Next]_vars
  PROVE  [Register!Next]_(Register!vars)
<1>1. ASSUME NEW q \in Calls, Fail(q) PROVE Register!Next
  BY <1>1, QuietEnd DEF Fail
<1>2. CASE UNCHANGED vars
  BY <1>2 DEF vars, Register!vars, Granted, Pending
<1> QED BY <1>1, <1>2, ArriveBegins, ServeImplements DEF Next

\* Overlapping calls implement the register: each takes effect at most once,
\* between its arrival and its end, on the one role it names.
THEOREM RegisterImplemented == Spec => ImplementsRegister
<1>1. Init => Register!Init
  BY DEF Init, Register!Init, Granted, Pending
<1>2. TypeInv /\ ReadIsCurrent /\ [Next]_vars => [Register!Next]_(Register!vars)
  BY RegisterStep
<1> QED
  BY <1>1, <1>2, TypeInvariant, ReadInvariant, PTL
     DEF Spec, ImplementsRegister, Register!Spec
=============================================================================
