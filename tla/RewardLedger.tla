---------------------------- MODULE RewardLedger ----------------------------
(***************************************************************************)
(* What the reward service promises, with no queue, no handler and no      *)
(* retry: a user submits reward requests for events, and every submitted   *)
(* (user, event) pair receives at most one decision, which is never        *)
(* changed or withdrawn and is the one the event's condition calls for.    *)
(* The unique index on {userId, eventId} and the append-only use of the    *)
(* rewardrequests collection are what the code offers for it.              *)
(***************************************************************************)
CONSTANTS
  Users,      \* user ids
  Events,     \* event ids
  Verdict     \* Verdict[e]: the status the condition of event e leads to

Pairs == Users \X Events

VARIABLES
  submitted,  \* pairs for which a request was accepted by the gateway
  decision    \* decision[p]: "none", or the status recorded for pair p

vars == <<submitted, decision>>

Init ==
  /\ submitted = {}
  /\ decision = [p \in Pairs |-> "none"]

Submit(p) ==
  /\ submitted' = submitted \cup {p}
  /\ UNCHANGED decision

Decide(p) ==
  /\ p \in submitted
  /\ decision[p] = "none"
  /\ decision' = [decision EXCEPT ![p] = Verdict[p[2]]]
  /\ UNCHANGED submitted

Next == \E p \in Pairs : Submit(p) \/ Decide(p)

Spec == Init /\ [][Next]_vars
=============================================================================
