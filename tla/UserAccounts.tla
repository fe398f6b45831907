---------------------------- MODULE UserAccounts ----------------------------
(***************************************************************************)
(* UsersService of auth-server: registration of accounts, and the calls    *)
(* by which an administrator adds and removes roles.  The calls of several *)
(* server processes overlap; each action is the code between two awaits.   *)
(*                                                                         *)
(* A document is read, changed in memory and saved.  What save sends       *)
(* depends on the change: a push is sent as a push, which takes the array  *)
(* as the database has it, and an assignment of the whole array is sent as *)
(* one, refused when the version read is no longer current.                *)
(***************************************************************************)
EXTENDS Integers, Sequences

CONSTANTS
  Emails,       \* e-mail addresses
  Role,         \* roles
  DefaultRole,  \* the role a registration gives
  Calls,        \* slots for calls being served: bounds how many overlap
  MaxCalls,     \* bound on the calls that arrive
  MaxAccounts,  \* bound on the accounts that are stored
  MaxErrors,    \* bound on MongoDB calls that fail
  NoCall        \* a slot that has had no call

ASSUME AccountBounds == MaxCalls \in Nat /\ MaxAccounts \in Nat /\ MaxErrors \in Nat
ASSUME RoleAssumption == DefaultRole \in Role

\* Account ids are positions in the collection; an id nobody has may be named.
Accounts == 1 .. MaxAccounts

Create == [op : {"create"}, email : Emails]
RoleCall == [op : {"add", "remove"}, user : Accounts, role : Role]
Call == Create \cup RoleCall

ASSUME NoCallAssumption == NoCall \notin Call

VARIABLES
  users,   \* the users collection: documents [email, roles, version]
  pc,      \* phase of each call
  call,    \* the call in each slot
  doc,     \* the document a role call has read and changed: [roles, version]
  calls,   \* calls so far
  errors   \* failed database calls so far

vars == <<users, pc, call, doc, calls, errors>>

\* The array of roles as a bag: how often each role is in it.  No code looks at
\* the order, but entries can be duplicates.
Roles == [Role -> Nat]
User == [email : Emails, roles : Roles, version : Nat]
Phases == {"idle", "findEmail", "insert", "findUser", "saveAdd", "saveRemove"}

TypeOK ==
  /\ users \in Seq(User)
  /\ Len(users) <= MaxAccounts
  /\ pc \in [Calls -> Phases]
  /\ call \in [Calls -> Call \cup {NoCall}]
  /\ doc \in [Calls -> [roles : Roles, version : Nat]]
  /\ calls \in 0 .. MaxCalls
  /\ errors \in 0 .. MaxErrors

NoRoles == [r \in Role |-> 0]

Init ==
  /\ users = <<>>
  /\ pc = [q \in Calls |-> "idle"]
  /\ call = [q \in Calls |-> NoCall]
  /\ doc = [q \in Calls |-> [roles |-> NoRoles, version |-> 0]]
  /\ calls = 0
  /\ errors = 0

-----------------------------------------------------------------------------
Goto(q, from, to) == pc[q] = from /\ pc' = [pc EXCEPT ![q] = to]

\* The roles that are in an array.
RolesOf(b) == {r \in Role : b[r] > 0}

Push(b, r) == [b EXCEPT ![r] = @ + 1]

\* The array has one entry.
Single(b) == \E r \in Role : b = Push(NoRoles, r)

Without(b, r) == [b EXCEPT ![r] = 0]

\* A call arrives.
Arrive(q, c) ==
  /\ calls < MaxCalls
  /\ Goto(q, "idle", IF c \in Create THEN "findEmail" ELSE "findUser")
  /\ call' = [call EXCEPT ![q] = c]
  /\ calls' = calls + 1
  /\ UNCHANGED <<users, doc, errors>>

EmailTaken(e) == \E a \in DOMAIN users : users[a].email = e

\* Mutant of DuplicateEmail: the index is not unique.
NoUniqueEmail(e) == FALSE

\* The unique index on email: the insert is refused.
DuplicateEmail(e) == EmailTaken(e)

\* create: the address is looked up; a known one is a conflict.
FindEmail(q) ==
  /\ Goto(q, "findEmail", IF EmailTaken(call[q].email) THEN "idle" ELSE "insert")
  /\ UNCHANGED <<users, call, doc, calls, errors>>

\* Mutant of NewUser: the default role is left out, and the field with it.
NoDefaultRole(e) == [email |-> e, roles |-> <<>>, version |-> 0]

NewUser(e) == [email |-> e, roles |-> Push(NoRoles, DefaultRole), version |-> 0]

\* create, after the password is hashed: the document is inserted.
Insert(q) ==
  /\ Goto(q, "insert", "idle")
  /\ \/ /\ DuplicateEmail(call[q].email)
        /\ UNCHANGED users
     \/ /\ ~ DuplicateEmail(call[q].email) /\ Len(users) < MaxAccounts
        /\ users' = Append(users, NewUser(call[q].email))
  /\ UNCHANGED <<call, doc, calls, errors>>

\* Mutant of LastRole: the number of roles is not looked at.
NeverLast(b) == FALSE

\* The guard of removeRole (users.service.ts:139).
LastRole(b) == Single(b)

Known(q) == call[q].user \in DOMAIN users
RolesRead(q) == users[call[q].user].roles

\* addRole: findById.  An unknown id, or a role already there, ends the call.
FindForAdd(q) ==
  /\ pc[q] = "findUser" /\ call[q].op = "add"
  /\ Goto(q, "findUser", IF Known(q) /\ call[q].role \notin RolesOf(RolesRead(q))
                         THEN "saveAdd" ELSE "idle")
  /\ UNCHANGED <<users, call, doc, calls, errors>>

\* There is a role to remove: the filter that leaves the array as it was gives
\* save nothing to send.
Removable(q) ==
  /\ Known(q)
  /\ ~ LastRole(RolesRead(q))
  /\ call[q].role \in RolesOf(RolesRead(q))

\* removeRole: findById, the guard and the filter, on the document in memory.
FindForRemove(q) ==
  /\ pc[q] = "findUser" /\ call[q].op = "remove"
  /\ \/ /\ Removable(q)
        /\ Goto(q, "findUser", "saveRemove")
        /\ doc' = [doc EXCEPT ![q] = [roles |-> Without(RolesRead(q), call[q].role),
                                     version |-> users[call[q].user].version]]
     \/ /\ ~ Removable(q)
        /\ Goto(q, "findUser", "idle")
        /\ UNCHANGED doc
  /\ UNCHANGED <<users, call, calls, errors>>

\* What a successful save of the array leaves of a document.
Saved(d, b) == [email |-> d.email, roles |-> b, version |-> d.version + 1]

\* save after push: $push on the stored array, version increased, not checked.
SaveAdd(q) ==
  /\ Goto(q, "saveAdd", "idle")
  /\ users' = [users EXCEPT ![call[q].user] = Saved(@, Push(@.roles, call[q].role))]
  /\ UNCHANGED <<call, doc, calls, errors>>

\* Mutant of VersionMatches: the version is not part of the filter.
AnyVersion(q) == TRUE

VersionMatches(q) == users[call[q].user].version = doc[q].version

\* save after an assignment of the array: $set with the version in the filter; a
\* version that changed meanwhile is a VersionError.
SaveRemove(q) ==
  /\ Goto(q, "saveRemove", "idle")
  /\ users' = IF VersionMatches(q)
              THEN [users EXCEPT ![call[q].user] = Saved(@, doc[q].roles)]
              ELSE users
  /\ UNCHANGED <<call, doc, calls, errors>>

\* A database call fails before it takes effect; the call ends with status 500.
Fail(q) ==
  /\ errors < MaxErrors
  /\ pc[q] # "idle"
  /\ pc' = [pc EXCEPT ![q] = "idle"]
  /\ errors' = errors + 1
  /\ UNCHANGED <<users, call, doc, calls>>

Serve(q) ==
  \/ FindEmail(q) \/ Insert(q)
  \/ FindForAdd(q) \/ SaveAdd(q)
  \/ FindForRemove(q) \/ SaveRemove(q)

Next == \E q \in Calls : (\E c \in Call : Arrive(q, c)) \/ Serve(q) \/ Fail(q)

Spec == Init /\ [][Next]_vars

-----------------------------------------------------------------------------
(* Properties.                                                             *)

\* An address has at most one account, however many registrations overlap: the
\* look-up is a password hash older than the insert.
OneAccountPerEmail ==
  \A a, b \in DOMAIN users : users[a].email = users[b].email => a = b

\* The last role cannot be removed (users.service.ts:138).
LastRoleStays == \A a \in DOMAIN users : RolesOf(users[a].roles) # {}

\* The guard of removeRole is not stale when the array is written: an array of a
\* single entry is never emptied, whatever was saved since it was read.
LastEntryKept ==
  [][\A a \in DOMAIN users : Single(users[a].roles) => RolesOf(users'[a].roles) # {}]_vars

\* Arrays of roles as sets, and the calls being served.
Granted ==
  [a \in Accounts |-> IF a \in DOMAIN users THEN RolesOf(users[a].roles) ELSE {}]
Pending == [q \in Calls |-> IF pc[q] = "idle" THEN NoCall ELSE call[q]]

Register == INSTANCE RoleRegister WITH granted <- Granted, pending <- Pending

\* Every role call takes effect at most once and changes the one role it names: a
\* removal never wipes out a role added, or revives one removed, since it read.
ImplementsRegister == Register!Spec
=============================================================================
