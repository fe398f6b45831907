---------------------------- MODULE RoleRegister ----------------------------
(***************************************************************************)
(* What the administration of roles promises when calls overlap: every     *)
(* call takes effect at most once, at one moment between its arrival and   *)
(* its answer, and changes the one role of the one account it names.  An   *)
(* account nobody created holds no role.                                   *)
(***************************************************************************)
CONSTANTS
  Accounts,     \* account ids
  Role,         \* roles
  DefaultRole,  \* the role of a new account
  Calls,        \* slots for calls being served
  Create,       \* calls that register an account
  RoleCall,     \* calls [op, user, role] that add or remove a role
  NoCall        \* an empty slot

VARIABLES
  granted,  \* granted[a]: the roles of account a
  pending   \* pending[q]: the call being served in slot q, or NoCall

vars == <<granted, pending>>

Init ==
  /\ granted = [a \in Accounts |-> {}]
  /\ pending = [q \in Calls |-> NoCall]

Begin(q, c) ==
  /\ pending[q] = NoCall
  /\ pending' = [pending EXCEPT ![q] = c]
  /\ UNCHANGED granted

\* The call is refused, or there is nothing to change.
End(q) ==
  /\ pending[q] # NoCall
  /\ pending' = [pending EXCEPT ![q] = NoCall]
  /\ UNCHANGED granted

Grant(a, r) == granted' = [granted EXCEPT ![a] = @ \cup {r}]

Revoke(a, r) == granted' = [granted EXCEPT ![a] = @ \ {r}]

TakeEffect(q) ==
  /\ pending[q] # NoCall
  /\ \/ /\ pending[q] \in Create
        /\ \E a \in Accounts : granted[a] = {} /\ Grant(a, DefaultRole)
     \/ /\ pending[q] \in RoleCall
        /\ \/ pending[q].op = "add" /\ Grant(pending[q].user, pending[q].role)
           \/ pending[q].op = "remove" /\ Revoke(pending[q].user, pending[q].role)
  /\ pending' = [pending EXCEPT ![q] = NoCall]

Next ==
  \E q \in Calls :
    \/ \E c \in Create \cup RoleCall : Begin(q, c)
    \/ TakeEffect(q)
    \/ End(q)

Spec == Init /\ [][Next]_vars
=============================================================================
