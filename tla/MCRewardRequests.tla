-------------------------- MODULE MCRewardRequests --------------------------
(***************************************************************************)
(* Model checking of RewardRequests: values for its constants.             *)
(***************************************************************************)
EXTENDS RewardRequests, TLC

CONSTANTS c1, c2, s1, s2, u1, u2, e1, e2

OneConsumer == {c1}
TwoConsumers == {c1, c2}
TwoSlots == {s1, s2}
OneUser == {u1}
TwoUsers == {u1, u2}
OneEvent == {e1}

\* One event whose condition is met.
InvitationType == [e \in {e1} |-> "FRIEND_INVITATION"]

\* As the code binds the interceptor, acknowledgements on.
TwoBindings == {[noAck |-> "unset", layers |-> 2]}

\* With RABBIT_MQ_NO_ACK=false, as .env.example has it.
FalseText == {[noAck |-> "false", layers |-> 2]}

\* With acknowledgements turned off on purpose.
TrueText == {[noAck |-> "true", layers |-> 2]}

\* Acknowledgements on and off, and the interceptor bound once.
EveryConfig == TwoBindings \cup TrueText \cup {[noAck |-> "unset", layers |-> 1]}

\* Bound: crashes are explored for the interceptor as the code binds it only.
CrashesAsBuilt == config.layers = 1 => crashes = 0

\* Consumers are interchangeable, and so are slots; used where only safety is
\* checked.
Symmetry == Permutations(TwoConsumers) \cup Permutations(TwoSlots)
=============================================================================
