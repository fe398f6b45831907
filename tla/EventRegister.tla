--------------------------- MODULE EventRegister ---------------------------
(***************************************************************************)
(* What the event collection promises to operators whose calls overlap: an *)
(* update takes effect at one moment, on a live event that has the very    *)
(* version the update names, and changes what it asks for and nothing      *)
(* else.  So of the updates made from one version at most one gets through.*)
(* Removals, restorations and purges are single changes too.               *)
(***************************************************************************)
EXTENDS Integers

CONSTANTS
  Ids,      \* ids of events, in the order of creation
  Times,    \* start and end dates
  Status,   \* "ACTIVE" and "INACTIVE"
  Types,    \* types of events
  Moments,  \* times of creation
  Keep,     \* stands for a field an update leaves as it is
  NoEvent   \* no document has this id

VARIABLES
  store,    \* store[i]: the event with id i, or NoEvent
  created,  \* how many events were ever created
  asked     \* the updates asked for so far: [id, version, change]

vars == <<store, created, asked>>

Live(i) == store[i] # NoEvent /\ ~ store[i].deleted

Init ==
  /\ store = [i \in Ids |-> NoEvent]
  /\ created = 0
  /\ asked = {}

\* Operators ask for more updates.
Ask == asked \subseteq asked' /\ UNCHANGED <<store, created>>

Put(i, event) == store' = [store EXCEPT ![i] = event]

\* An event begins with version 0, not deleted, and ends after it starts.
Create(i) ==
  /\ i = created + 1
  /\ created' = i
  /\ store'[i] \in [start : Times, end : Times, status : Status, type : Types,
                    createdAt : Moments, version : {0}, deleted : {FALSE}]
  /\ store'[i].start < store'[i].end
  /\ Put(i, store'[i])
  /\ UNCHANGED asked

New(value, old) == IF value = Keep THEN old ELSE value

Update(r) ==
  /\ r \in asked
  /\ Live(r.id) /\ store[r.id].version = r.version
  /\ Put(r.id, [start |-> New(r.change.start, store[r.id].start),
                end |-> New(r.change.end, store[r.id].end),
                status |-> New(r.change.status, store[r.id].status),
                type |-> New(r.change.type, store[r.id].type),
                createdAt |-> store[r.id].createdAt,
                version |-> r.version + 1, deleted |-> FALSE])
  /\ UNCHANGED <<created, asked>>

Remove(i) ==
  /\ Live(i)
  /\ Put(i, [store[i] EXCEPT !.deleted = TRUE, !.version = @ + 1])
  /\ UNCHANGED <<created, asked>>

Restore(i) ==
  /\ store[i] # NoEvent /\ store[i].deleted
  /\ Put(i, [store[i] EXCEPT !.deleted = FALSE, !.version = @ + 1])
  /\ UNCHANGED <<created, asked>>

Purge(i) ==
  /\ store[i] # NoEvent
  /\ Put(i, NoEvent)
  /\ UNCHANGED <<created, asked>>

Next ==
  \/ Ask
  \/ \E r \in asked : Update(r)
  \/ \E i \in Ids : Create(i) \/ Remove(i) \/ Restore(i) \/ Purge(i)

Spec == Init /\ [][Next]_vars
=============================================================================
