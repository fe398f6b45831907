---------------------------- MODULE MCEventViews ----------------------------
(***************************************************************************)
(* Model checking of EventStore and EventViews: values for their constants.*)
(***************************************************************************)
EXTENDS EventViews, TLC

CONSTANTS k1, k2

TwoCalls == {k1, k2}

Days == 0 .. 2

\* A type whose condition every user meets, and one whose condition none meets.
TwoTypes == {"FRIEND_INVITATION", "LOGIN"}

Lasting(start, end, status, type, moment) ==
  [start |-> start, end |-> end, status |-> status, type |-> type,
   createdAt |-> moment, version |-> 0, deleted |-> FALSE]

\* Events that last the whole time, created at each moment, and others that begin later,
\* end earlier, are switched off, or are of the type LOGIN.
SomeDrafts ==
  {Lasting(0, 2, "ACTIVE", "FRIEND_INVITATION", m) : m \in Moments}
    \cup {Lasting(1, 2, "ACTIVE", "FRIEND_INVITATION", 1),
          Lasting(0, 1, "ACTIVE", "FRIEND_INVITATION", 1),
          Lasting(0, 2, "INACTIVE", "FRIEND_INVITATION", 1),
          Lasting(0, 2, "ACTIVE", "LOGIN", 1)}

\* Begin a day later, end a day earlier, or switch the event off and
\* give it the other type.
SomeChanges ==
  {[start |-> 1, end |-> Keep, status |-> Keep, type |-> Keep],
   [start |-> Keep, end |-> 1, status |-> Keep, type |-> Keep],
   [start |-> Keep, end |-> Keep, status |-> "INACTIVE", type |-> "LOGIN"]}

TwoVersions == {0, 1}

Busy == {k \in Calls : pc[k] # "idle"}

\* Bound: calls are made on one event.  While a list is read, the active one, there is
\* at most one, an update.
CallsOnOneEvent ==
  \/ Busy = {}
  \/ created <= 1 /\ view = "none"
  \/ /\ created <= 1 /\ view = "active"
     /\ Cardinality(Busy) = 1 /\ \A k \in Busy : call[k].op = "update"

\* Bound: an update whose body carries the version, and which therefore fails however it
\* is made, is always the same.
OneCarriedVersion ==
  \A k \in Busy : call[k].op = "update" /\ call[k].carries =>
    call[k].version = 0 /\ call[k].change.start = 1

Long(e) == e.start = 0 /\ e.end = 2 /\ e.type = "FRIEND_INVITATION"

\* Bound: the first event is created at time 1, and calls meet one that lasts the whole
\* time and is not of the type LOGIN yet.
FirstEvent ==
  created = 1 => \A i \in Ids : Stored(i) =>
    /\ store[i].createdAt = 1
    /\ Busy # {} /\ store[i].version = 0 => Long(store[i])

\* Bound: several events are of one type and last the whole time, all but the first are
\* ACTIVE, and two removals or restorations are made of those that are left.
SeveralEvents ==
  created > 1 =>
    /\ \A i \in Ids : Stored(i) =>
         Long(store[i]) /\ (i > 1 => store[i].status = "ACTIVE")
    /\ Cardinality({<<i, v>> \in Ids \X (1 .. MaxVersion) :
                      Stored(i) /\ v <= store[i].version}) <= 2

Symmetry == Permutations(Calls)
=============================================================================
