---------------------------- MODULE AuthSession ----------------------------
(***************************************************************************)
(* Sessions of auth-server: registration, login, refresh and logout, as    *)
(* AuthService, TokensService and JwtStrategy carry them out over Redis.   *)
(* Several server processes may serve one user's calls, so calls overlap;  *)
(* each action is the code between two awaits.                             *)
(*                                                                         *)
(* Time passes in ticks, Second of them to a second: JSON web tokens carry *)
(* their expiry in whole seconds, Redis keeps a key for a number of whole  *)
(* seconds from the moment it was set.                                     *)
(***************************************************************************)
EXTENDS Integers

CONSTANTS
  Users,        \* user ids
  Calls,        \* slots for calls being served: bounds how many overlap
  Second,       \* ticks in a second
  AccessLife,   \* JWT_EXPIRATION, in seconds
  RefreshLife,  \* JWT_REFRESH_EXPIRATION, in seconds
  MaxTime,      \* bound on time, in ticks
  MaxPairs,     \* bound on the token pairs that are signed
  MaxCalls,     \* bound on the calls that arrive
  MaxErrors,    \* bound on Redis and MongoDB calls that fail
  None          \* no pair

ASSUME LifeAssumption ==
  /\ Second \in Nat \ {0}
  /\ AccessLife \in Nat \ {0}
  /\ RefreshLife \in Nat \ {0}
ASSUME SessionBounds ==
  MaxTime \in Nat /\ MaxPairs \in Nat /\ MaxCalls \in Nat /\ MaxErrors \in Nat

\* An access token and a refresh token signed together at second born.  No two
\* pairs are alike: every token has an id of its own (jti).
Pair == [id : 1 .. MaxPairs, user : Users, born : Nat]

\* A key in Redis, with its expiry.
Entry == [pair : Pair, until : Nat]

ASSUME NoneAssumption == None \notin Entry

VARIABLES
  now,         \* the time
  registered,  \* users with an account
  signed,      \* how many pairs were signed
  known,       \* pairs that were answered to a client
  stored,      \* stored[u]: the value of refresh_token:u, with its expiry in Redis
  blacklist,   \* the blacklist:* keys, with their expiry in Redis
  pc,          \* phase of each call
  call,        \* the call in each slot
  fresh,       \* the pair a call has signed, and the lifetime it will store
  calls,       \* calls so far
  errors,      \* failed calls to MongoDB or Redis so far
  loggedOut,   \* access tokens a logout has got past the blacklist with (history)
  ended,       \* users whose last logout was answered, and who have not logged in
               \* since (history)
  replaced     \* pairs whose refresh token was stored and is not any more (history)

vars == <<now, registered, signed, known, stored, blacklist, pc, call, fresh, calls,
          errors, loggedOut, ended, replaced>>

Phases == {"idle", "create", "verify", "guard", "compare", "load", "store", "blacklist",
           "remove"}

\* late: the refresh token presented was replaced or removed before the call
\* arrived (history).
Call ==
  [op : {"register", "login"}, user : Users]
    \cup [op : {"refresh"}, bearer : Pair, token : Pair, late : BOOLEAN]
    \cup [op : {"logout"}, bearer : Pair]

TypeOK ==
  /\ now \in 0 .. MaxTime
  /\ registered \in SUBSET Users
  /\ signed \in 0 .. MaxPairs
  /\ known \in SUBSET Pair
  /\ stored \in [Users -> Entry \cup {None}]
  /\ blacklist \in SUBSET Entry
  /\ pc \in [Calls -> Phases]
  /\ call \in [Calls -> Call \cup {None}]
  /\ fresh \in [Calls -> [pair : Pair, ttl : Nat] \cup {None}]
  /\ calls \in 0 .. MaxCalls
  /\ errors \in 0 .. MaxErrors
  /\ loggedOut \in SUBSET Pair
  /\ ended \in SUBSET Users
  /\ replaced \in SUBSET Pair

Init ==
  /\ now = 0
  /\ registered = {}
  /\ signed = 0
  /\ known = {}
  /\ stored = [u \in Users |-> None]
  /\ blacklist = {}
  /\ pc = [q \in Calls |-> "idle"]
  /\ call = [q \in Calls |-> None]
  /\ fresh = [q \in Calls |-> None]
  /\ calls = 0
  /\ errors = 0
  /\ loggedOut = {}
  /\ ended = {}
  /\ replaced = {}

-----------------------------------------------------------------------------
(* Time, tokens and keys.                                                  *)

NowSeconds == now \div Second

\* Mutant of WholeSeconds: the lifetime is rounded down.
RoundedDown(ticks) == ticks \div Second

\* Math.ceil, from ticks to seconds.
WholeSeconds(ticks) == (ticks + Second - 1) \div Second

AccessExpiry(p) == p.born + AccessLife
RefreshExpiry(p) == p.born + RefreshLife

\* jsonwebtoken compares whole seconds.
AccessValid(p) == NowSeconds < AccessExpiry(p)
RefreshValid(p) == NowSeconds < RefreshExpiry(p)

\* A key set with EX ttl.
SetFor(p, ttl) == [pair |-> p, until |-> now + ttl * Second]
Alive(entry) == entry # None /\ now < entry.until

Blacklisted(p) == \E b \in blacklist : b.pair = p /\ Alive(b)

\* Mutant of IsStored: the stored token is not compared.
AnyStored(u, p) == Alive(stored[u])

IsStored(u, p) == Alive(stored[u]) /\ stored[u].pair = p

\* Mutant of StoredLife: the lifetime ends with the access token's.
AccessLifetime(p) == AccessExpiry(p) - NowSeconds

\* Mutant of StoredLife: the subtraction is the wrong way round.
TimeSinceExpiry(p) == NowSeconds - RefreshExpiry(p)

\* The lifetime saveRefreshToken reads off the token it was given.
StoredLife(p) == RefreshExpiry(p) - NowSeconds

-----------------------------------------------------------------------------
sessionVars == <<registered, signed, known, stored, blacklist>>
historyVars == <<loggedOut, ended, replaced>>

Goto(q, from, to) == pc[q] = from /\ pc' = [pc EXCEPT ![q] = to]

Tick ==
  /\ now < MaxTime
  /\ now' = now + 1
  /\ UNCHANGED <<sessionVars, pc, call, fresh, calls, errors, historyVars>>

Arrive(q, c, phase) ==
  /\ calls < MaxCalls
  /\ Goto(q, "idle", phase)
  /\ call' = [call EXCEPT ![q] = c]
  /\ calls' = calls + 1
  /\ UNCHANGED <<now, sessionVars, fresh, errors, historyVars>>

Register(q, u) == Arrive(q, [op |-> "register", user |-> u], "create")

Login(q, u) == Arrive(q, [op |-> "login", user |-> u], "verify")

\* A client refreshes with an access token and a refresh token it has received.
Refresh(q, b, t) ==
  Arrive(q, [op |-> "refresh", bearer |-> b, token |-> t, late |-> t \in replaced], "guard")

Logout(q, b) == Arrive(q, [op |-> "logout", bearer |-> b], "guard")

\* generateTokens, up to the write to Redis: a pair is signed for user u.
Sign(q, u) ==
  LET p == [id |-> signed + 1, user |-> u, born |-> NowSeconds]
  IN  /\ signed < MaxPairs
      /\ signed' = signed + 1
      /\ fresh' = [fresh EXCEPT ![q] = [pair |-> p, ttl |-> StoredLife(p)]]

\* register: the account is stored, unless the address has one, and a pair signed.
CreateAccount(q) ==
  /\ \/ /\ Goto(q, "create", "idle")
        /\ call[q].user \in registered
        /\ UNCHANGED <<registered, signed, fresh>>
     \/ /\ Goto(q, "create", "store")
        /\ call[q].user \notin registered
        /\ registered' = registered \cup {call[q].user}
        /\ Sign(q, call[q].user)
  /\ UNCHANGED <<now, known, stored, blacklist, call, calls, errors, historyVars>>

\* login: validateUser finds the account and the password matches.
VerifyPassword(q) ==
  /\ \/ /\ Goto(q, "verify", "idle")
        /\ call[q].user \notin registered
        /\ UNCHANGED <<signed, fresh>>
     \/ /\ Goto(q, "verify", "store")
        /\ call[q].user \in registered
        /\ Sign(q, call[q].user)
  /\ UNCHANGED <<now, registered, known, stored, blacklist, call, calls, errors, historyVars>>

\* JwtStrategy: the signature, the expiry and the blacklist.
Authenticates(p) == AccessValid(p) /\ ~ Blacklisted(p)

Guard(q) ==
  /\ \/ Goto(q, "guard", "idle") /\ ~ Authenticates(call[q].bearer)
     \/ Goto(q, "guard", "compare") /\ Authenticates(call[q].bearer) /\ call[q].op = "refresh"
     \/ Goto(q, "guard", "blacklist") /\ Authenticates(call[q].bearer) /\ call[q].op = "logout"
  /\ UNCHANGED <<now, sessionVars, call, fresh, calls, errors, historyVars>>

\* validateRefreshToken: the token is the stored one, not expired, and the user's own.
Accepts(q) ==
  /\ IsStored(call[q].bearer.user, call[q].token)
  /\ RefreshValid(call[q].token)
  /\ call[q].token.user = call[q].bearer.user

CompareToken(q) ==
  /\ Goto(q, "compare", IF Accepts(q) THEN "load" ELSE "idle")
  /\ UNCHANGED <<now, sessionVars, call, fresh, calls, errors, historyVars>>

\* refreshToken: the account is read and a pair signed.
LoadUser(q) ==
  /\ Goto(q, "load", "store")
  /\ Sign(q, call[q].bearer.user)
  /\ UNCHANGED <<now, registered, known, stored, blacklist, call, calls, errors, historyVars>>

\* The refresh token takes the place of the user's last one.
Write(q) ==
  LET p == fresh[q].pair
  IN  /\ stored' = [stored EXCEPT ![p.user] = SetFor(p, fresh[q].ttl)]
      /\ replaced' = replaced \cup (IF stored[p.user] = None THEN {}
                                    ELSE {stored[p.user].pair})
      /\ ended' = IF call[q].op = "refresh" THEN ended ELSE ended \ {p.user}

\* saveRefreshToken: the pair is stored and answered to the client.
Store(q) ==
  /\ Goto(q, "store", "idle")
  /\ Write(q)
  /\ known' = known \cup {fresh[q].pair}
  /\ UNCHANGED <<now, registered, signed, blacklist, call, fresh, calls, errors, loggedOut>>

\* The write takes effect but its reply is lost: the client gets an error.
StoreReplyLost(q) ==
  /\ errors < MaxErrors
  /\ Goto(q, "store", "idle")
  /\ Write(q)
  /\ errors' = errors + 1
  /\ UNCHANGED <<now, registered, signed, known, blacklist, call, fresh, calls, loggedOut>>

\* The time left to an access token, in ticks.
TimeLeft(p) == AccessExpiry(p) * Second - now

\* logout: the access token is blacklisted for the whole seconds it has left.
BlacklistToken(q) ==
  /\ Goto(q, "blacklist", "remove")
  /\ blacklist' =
       IF TimeLeft(call[q].bearer) > 0
       THEN blacklist \cup {SetFor(call[q].bearer, WholeSeconds(TimeLeft(call[q].bearer)))}
       ELSE blacklist
  /\ loggedOut' = loggedOut \cup {call[q].bearer}
  /\ UNCHANGED <<now, registered, signed, known, stored, call, fresh, calls, errors,
                 ended, replaced>>

\* logout: the user's refresh token is removed, whichever session it is of.
RemoveToken(q) ==
  LET u == call[q].bearer.user
  IN  /\ Goto(q, "remove", "idle")
      /\ stored' = [stored EXCEPT ![u] = None]
      /\ replaced' = replaced \cup (IF stored[u] = None THEN {} ELSE {stored[u].pair})
      /\ ended' = ended \cup {u}
      /\ UNCHANGED <<now, registered, signed, known, blacklist, call, fresh, calls, errors,
                     loggedOut>>

\* A call to MongoDB or Redis fails before it takes effect, and the request with it.
Fail(q) ==
  /\ errors < MaxErrors
  /\ pc[q] # "idle"
  /\ pc' = [pc EXCEPT ![q] = "idle"]
  /\ errors' = errors + 1
  /\ UNCHANGED <<now, sessionVars, call, fresh, calls, historyVars>>

-----------------------------------------------------------------------------
Requests(q) ==
  \/ \E u \in Users : Register(q, u) \/ Login(q, u)
  \/ \E b \in known : Logout(q, b) \/ (\E t \in known : Refresh(q, b, t))

Serve(q) ==
  \/ CreateAccount(q) \/ VerifyPassword(q)
  \/ Guard(q) \/ CompareToken(q) \/ LoadUser(q) \/ Store(q)
  \/ BlacklistToken(q) \/ RemoveToken(q)

Next == Tick \/ \E q \in Calls : Requests(q) \/ Serve(q) \/ StoreReplyLost(q) \/ Fail(q)

Spec == Init /\ [][Next]_vars

-----------------------------------------------------------------------------
(* Properties.                                                             *)

\* An access token that a logout has blacklisted authenticates no later call to this
\* server, even if the logout then fails to remove the refresh token: the key outlives
\* the token, although one is counted in whole seconds from the logout and the other
\* in whole seconds of the clock.
LoggedOutTokensAreRefused == \A p \in loggedOut : ~ Authenticates(p)

\* A refresh token that was replaced by a newer one or removed by a logout before a
\* refresh arrived is never accepted in it: it cannot come back, whatever calls
\* that were under way still write.
ReplacedTokensStayDead ==
  \A q \in Calls :
    pc[q] = "load" => ~ call[q].late

\* Redis never drops the stored refresh token before the token itself expires.
StoredWhileValid ==
  \A u \in Users :
    stored[u] # None /\ RefreshValid(stored[u].pair) => Alive(stored[u])

\* A user who has logged out, and has not logged in since, has no refresh token
\* ("the user's refresh token is removed", auth.service.ts:141).
LogoutEndsSession == \A u \in ended : stored[u] = None
=============================================================================
