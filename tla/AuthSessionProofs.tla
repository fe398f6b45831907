------------------------- MODULE AuthSessionProofs -------------------------
(***************************************************************************)
(* Proofs about AuthSession, for every number of users and of calls that   *)
(* overlap, every lifetime and every resolution of time.                   *)
(***************************************************************************)
EXTENDS AuthSession, TLAPS

USE LifeAssumption, SessionBounds

-----------------------------------------------------------------------------
(* Arithmetic.                                                             *)

LEMMA Division ==
  ASSUME NEW t \in Int, NEW d \in Nat \ {0}
  PROVE  t \div d \in Int /\ (t \div d) * d <= t /\ t < (t \div d) * d + d
OBVIOUS

LEMMA DivisionOfNat ==
  ASSUME NEW t \in Nat, NEW d \in Nat \ {0}
  PROVE  t \div d \in Nat
OBVIOUS

LEMMA TimesMonotone ==
  ASSUME NEW a \in Int, NEW b \in Int, NEW d \in Nat, a <= b
  PROVE  a * d <= b * d
OBVIOUS

LEMMA TimesSum ==
  ASSUME NEW a \in Int, NEW b \in Int, NEW d \in Int
  PROVE  (a + b) * d = a * d + b * d /\ a * d \in Int
OBVIOUS

LEMMA TimesNat ==
  ASSUME NEW a \in Nat, NEW d \in Nat
  PROVE  a * d \in Nat
OBVIOUS

-----------------------------------------------------------------------------
(* The inductive invariant.                                                *)

\* The ticks at which a token's life ends.
AccessEnd(p) == AccessExpiry(p) * Second
RefreshEnd(p) == RefreshExpiry(p) * Second

\* The stored token is the user's own, was never replaced, and its key lasts as long as
\* the token.
StoredInv ==
  \A u \in Users : stored[u] # None =>
    /\ stored[u].pair.user = u /\ stored[u].pair.id <= signed
    /\ stored[u].pair \notin replaced
    /\ stored[u].until >= RefreshEnd(stored[u].pair)

ReplacedInv == \A p \in replaced : p.id <= signed

\* A blacklisted token has ended or has a key that lasts as long.
BlacklistInv ==
  \A p \in loggedOut :
    \/ now >= AccessEnd(p)
    \/ \E b \in blacklist : b.pair = p /\ b.until >= AccessEnd(p)

\* A pair that is signed and not stored yet is unlike any other.
FreshInv(q) ==
  pc[q] = "store" =>
    /\ fresh[q] \in [pair : Pair, ttl : Nat] /\ fresh[q].ttl = RefreshLife
    /\ fresh[q].pair.born * Second <= now
    /\ fresh[q].pair.id <= signed
    /\ fresh[q].pair \notin replaced
    /\ \A u \in Users : stored[u] # None => stored[u].pair # fresh[q].pair
    /\ \A r \in Calls \ {q} : pc[r] = "store" => fresh[r].pair # fresh[q].pair

AccountCall == [op : {"register", "login"}, user : Users]
RefreshCall == [op : {"refresh"}, bearer : Pair, token : Pair, late : BOOLEAN]
LogoutCall == [op : {"logout"}, bearer : Pair]

\* What a call asks for fits its phase, and a late one that is still under way has a
\* token that was replaced.
CallInv(q) ==
  /\ pc[q] \in {"create", "verify"} => call[q] \in AccountCall
  /\ pc[q] = "guard" => call[q] \in RefreshCall \cup LogoutCall
  /\ pc[q] \in {"compare", "load"} => call[q] \in RefreshCall
  /\ pc[q] \in {"blacklist", "remove"} => call[q] \in LogoutCall
  /\ pc[q] \in {"guard", "compare"} /\ call[q] \in RefreshCall /\ call[q].late =>
       call[q].token \in replaced
  /\ pc[q] = "load" => ~ call[q].late

Inv ==
  /\ TypeOK
  /\ StoredInv /\ ReplacedInv /\ BlacklistInv
  /\ \A q \in Calls : FreshInv(q) /\ CallInv(q)

LEMMA InitInv == Init => Inv
<1> SUFFICES ASSUME Init PROVE Inv
  OBVIOUS
<1>1. TypeOK
  BY DEF Init, TypeOK, Phases
<1>2. StoredInv /\ ReplacedInv /\ BlacklistInv
  BY DEF Init, StoredInv, ReplacedInv, BlacklistInv
<1>3. \A q \in Calls : FreshInv(q) /\ CallInv(q)
  BY DEF Init, FreshInv, CallInv
<1> QED BY <1>1, <1>2, <1>3 DEF Inv

-----------------------------------------------------------------------------
(* Time.                                                                   *)

LEMMA Ends ==
  ASSUME NEW p \in Pair
  PROVE  AccessEnd(p) \in Nat /\ RefreshEnd(p) \in Nat
<1>1. AccessExpiry(p) \in Nat /\ RefreshExpiry(p) \in Nat
  BY DEF Pair, AccessExpiry, RefreshExpiry
<1> QED BY <1>1, TimesNat DEF AccessEnd, RefreshEnd

LEMMA Clock ==
  ASSUME now \in Nat
  PROVE  NowSeconds \in Nat /\ NowSeconds * Second <= now
         /\ now < NowSeconds * Second + Second
BY Division, DivisionOfNat DEF NowSeconds

\* A second that lies in the future begins after now.
LEMMA Earlier ==
  ASSUME now \in Nat, NEW e \in Nat, NowSeconds < e
  PROVE  now < e * Second
<1>1. NowSeconds \in Nat /\ now < NowSeconds * Second + Second
  BY Clock
<1>2. (NowSeconds + 1) * Second <= e * Second
  BY <1>1, TimesMonotone
<1>3. (NowSeconds + 1) * Second = NowSeconds * Second + 1 * Second
  BY <1>1, TimesSum
<1>4. NowSeconds * Second \in Nat /\ e * Second \in Nat
  BY <1>1, TimesNat
<1> HIDE DEF NowSeconds
<1> QED BY <1>1, <1>2, <1>3, <1>4

\* A blacklist key set now lasts as long as its token: rounding up covers the rest of
\* the second.
LEMMA KeyCoversAccess ==
  ASSUME now \in Nat, NEW p \in Pair, TimeLeft(p) > 0
  PROVE  LET b == SetFor(p, WholeSeconds(TimeLeft(p))) IN
         b \in Entry /\ b.pair = p /\ b.until >= AccessEnd(p)
<1> DEFINE t == TimeLeft(p)
           w == WholeSeconds(t)
<1>1. AccessEnd(p) \in Nat /\ t = AccessEnd(p) - now /\ t \in Int
  BY Ends DEF TimeLeft, AccessEnd
<1> HIDE DEF t
<1>2. w \in Nat /\ t + Second - 1 < w * Second + Second
  BY <1>1, Division, DivisionOfNat DEF WholeSeconds, t
<1> HIDE DEF w
<1>3. w * Second \in Nat
  BY <1>2, TimesNat
<1> DEFINE x == w * Second
<1>4. now + x \in Nat /\ now + x >= AccessEnd(p)
  <2>1. x \in Nat /\ t + Second - 1 < x + Second
    BY <1>2, <1>3
  <2> HIDE DEF x
  <2> QED BY <1>1, <2>1
<1>5. SetFor(p, w) = [pair |-> p, until |-> now + x]
  BY DEF SetFor
<1> HIDE DEF x
<1> QED BY <1>4, <1>5 DEF Entry, w, t

\* The key of a refresh token set now lasts as long as the token.
LEMMA KeyCoversRefresh ==
  ASSUME now \in Nat, NEW p \in Pair, p.born * Second <= now
  PROVE  LET e == SetFor(p, RefreshLife) IN
         e \in Entry /\ e.pair = p /\ e.until >= RefreshEnd(p)
<1> DEFINE x == RefreshLife * Second
           y == p.born * Second
<1>1. x \in Nat /\ y \in Nat
  BY TimesNat DEF Pair
<1>2. RefreshEnd(p) = y + x
  BY TimesSum DEF RefreshEnd, RefreshExpiry, Pair
<1>3. SetFor(p, RefreshLife) = [pair |-> p, until |-> now + x]
  BY DEF SetFor
<1>4. y <= now
  OBVIOUS
<1> HIDE DEF x, y
<1>5. now + x \in Nat /\ now + x >= RefreshEnd(p)
  BY <1>1, <1>2, <1>4
<1> QED BY <1>3, <1>5 DEF Entry

-----------------------------------------------------------------------------
(* Parts of the invariant that a step leaves alone.                        *)

Typed == /\ pc \in [Calls -> Phases]
         /\ call \in [Calls -> Call \cup {None}]
         /\ fresh \in [Calls -> [pair : Pair, ttl : Nat] \cup {None}]

LEMMA Types ==
  ASSUME Inv
  PROVE  /\ now \in Nat /\ signed \in Nat
         /\ registered \in SUBSET Users /\ known \in SUBSET Pair
         /\ stored \in [Users -> Entry \cup {None}] /\ blacklist \in SUBSET Entry
         /\ Typed
         /\ calls \in 0 .. MaxCalls /\ errors \in 0 .. MaxErrors
         /\ loggedOut \in SUBSET Pair /\ ended \in SUBSET Users /\ replaced \in SUBSET Pair
BY DEF Inv, TypeOK, Typed

LEMMA BlacklistOn ==
  ASSUME Inv, now' \in Nat, now <= now', UNCHANGED <<blacklist, loggedOut>>
  PROVE  BlacklistInv'
<1> SUFFICES ASSUME NEW p \in loggedOut
             PROVE  \/ now' >= AccessEnd(p)
                    \/ \E b \in blacklist : b.pair = p /\ b.until >= AccessEnd(p)
  BY DEF BlacklistInv, AccessEnd, AccessExpiry
<1>1. AccessEnd(p) \in Nat /\ now \in Nat
  BY Ends, Types
<1>2. \/ now >= AccessEnd(p)
      \/ \E b \in blacklist : b.pair = p /\ b.until >= AccessEnd(p)
  BY DEF Inv, BlacklistInv
<1> QED BY <1>1, <1>2

LEMMA StoredOn ==
  ASSUME Inv, UNCHANGED <<stored, replaced>>, signed' \in Nat, signed <= signed'
  PROVE  StoredInv' /\ ReplacedInv'
<1>1. signed \in Nat /\ replaced \in SUBSET Pair /\ stored \in [Users -> Entry \cup {None}]
  BY Types
<1>2. \A p \in Pair : p.id \in Nat
  BY DEF Pair
<1>3. ReplacedInv'
  BY <1>1, <1>2 DEF Inv, ReplacedInv
<1>4. StoredInv'
  <2> SUFFICES ASSUME NEW u \in Users, stored[u] # None
               PROVE  /\ stored[u].pair.user = u /\ stored[u].pair.id <= signed'
                      /\ stored[u].pair \notin replaced
                      /\ stored[u].until >= RefreshEnd(stored[u].pair)
    BY DEF StoredInv, RefreshEnd, RefreshExpiry
  <2>1. stored[u].pair \in Pair
    BY <1>1 DEF Entry
  <2> QED BY <1>1, <1>2, <2>1 DEF Inv, StoredInv
<1> QED BY <1>3, <1>4

\* No call signs or stores a pair.
LEMMA FreshOn ==
  ASSUME Inv, UNCHANGED <<signed, stored, replaced, fresh>>,
         now' \in Nat, now <= now',
         \A r \in Calls : pc'[r] = "store" => pc[r] = "store"
  PROVE  \A q \in Calls : FreshInv(q)'
<1> SUFFICES ASSUME NEW q \in Calls PROVE FreshInv(q)'
  OBVIOUS
<1>1. pc'[q] = "store" => fresh[q].pair.born * Second <= now'
  <2> SUFFICES ASSUME pc'[q] = "store" PROVE fresh[q].pair.born * Second <= now'
    OBVIOUS
  <2> DEFINE x == fresh[q].pair.born * Second
  <2>1. fresh[q].pair \in Pair /\ x <= now
    BY DEF Inv, FreshInv
  <2>2. x \in Nat /\ now \in Nat
    BY <2>1, TimesNat, Types DEF Pair
  <2> HIDE DEF x
  <2>3. x <= now'
    BY <2>1, <2>2
  <2> QED BY <2>3 DEF x
<1> QED BY <1>1 DEF Inv, FreshInv

\* Other calls than the one that takes a step.
LEMMA CallsOn ==
  ASSUME Inv, NEW q \in Calls, replaced \subseteq replaced', CallInv(q)',
         \A r \in Calls \ {q} : pc'[r] = pc[r] /\ call'[r] = call[r]
  PROVE  \A r \in Calls : CallInv(r)'
BY DEF Inv, CallInv

\* A call moves on and nothing changes but the blacklist and what is known of users.
LEMMA MovesOn ==
  ASSUME Inv, NEW q \in Calls, NEW to \in Phases \ {"store"},
         pc' = [pc EXCEPT ![q] = to],
         UNCHANGED <<now, signed, stored, fresh, replaced>>,
         \A r \in Calls \ {q} : call'[r] = call[r],
         CallInv(q)'
  PROVE  /\ StoredInv' /\ ReplacedInv'
         /\ \A r \in Calls : FreshInv(r)' /\ CallInv(r)'
         /\ pc' \in [Calls -> Phases]
<1>1. Typed /\ now \in Nat /\ signed \in Nat
  BY Types
<1>2. /\ \A r \in Calls \ {q} : pc'[r] = pc[r] /\ call'[r] = call[r]
      /\ \A r \in Calls : pc'[r] = "store" => pc[r] = "store"
      /\ pc' \in [Calls -> Phases]
  BY <1>1 DEF Typed
<1>3. StoredInv' /\ ReplacedInv'
  BY <1>1, StoredOn
<1>4. \A r \in Calls : FreshInv(r)'
  BY <1>1, <1>2, FreshOn
<1>5. \A r \in Calls : CallInv(r)'
  BY <1>2, CallsOn
<1> QED BY <1>2, <1>3, <1>4, <1>5

-----------------------------------------------------------------------------
(* Steps.                                                                  *)

LEMMA TickStep == ASSUME Inv, Tick PROVE Inv'
<1>1. now' \in 0 .. MaxTime /\ now <= now'
      /\ UNCHANGED <<sessionVars, pc, call, fresh, calls, errors, historyVars>>
  BY DEF Tick, Inv, TypeOK
<1>2. TypeOK'
  BY <1>1 DEF Inv, TypeOK, sessionVars, historyVars
<1>3. BlacklistInv' /\ StoredInv' /\ ReplacedInv'
  BY <1>1, BlacklistOn, StoredOn, Types DEF sessionVars, historyVars
<1>4. \A q \in Calls : FreshInv(q)'
  BY <1>1, FreshOn DEF sessionVars, historyVars
<1>5. \A q \in Calls : CallInv(q)'
  BY <1>1 DEF Inv, CallInv, sessionVars, historyVars
<1> QED BY <1>2, <1>3, <1>4, <1>5 DEF Inv

LEMMA ArriveStep ==
  ASSUME Inv, NEW q \in Calls, NEW c \in Call, NEW phase \in {"create", "verify", "guard"},
         Arrive(q, c, phase),
         phase # "guard" => c \in AccountCall,
         phase = "guard" => c \in RefreshCall \cup LogoutCall,
         c \in RefreshCall /\ c.late => c.token \in replaced
  PROVE  Inv'
<1>1. Typed
  BY Types
<1>2. /\ pc' = [pc EXCEPT ![q] = phase] /\ call' = [call EXCEPT ![q] = c]
      /\ calls' \in 0 .. MaxCalls
      /\ UNCHANGED <<now, sessionVars, fresh, errors, historyVars>>
  BY DEF Arrive, Goto, Inv, TypeOK
<1>3. CallInv(q)'
  BY <1>1, <1>2 DEF CallInv, Typed, historyVars
<1>4. phase \in Phases \ {"store"} /\ \A r \in Calls \ {q} : call'[r] = call[r]
  BY <1>1, <1>2 DEF Phases, Typed
<1>5. /\ StoredInv' /\ ReplacedInv'
      /\ \A r \in Calls : FreshInv(r)' /\ CallInv(r)'
      /\ pc' \in [Calls -> Phases]
  BY <1>2, <1>3, <1>4, MovesOn DEF sessionVars, historyVars
<1>6. call' \in [Calls -> Call \cup {None}]
  BY <1>1, <1>2 DEF Typed
<1>7. TypeOK'
  BY <1>2, <1>5, <1>6 DEF Inv, TypeOK, sessionVars, historyVars
<1>8. BlacklistInv'
  BY <1>2, BlacklistOn, Types DEF sessionVars, historyVars
<1> QED BY <1>5, <1>7, <1>8 DEF Inv

LEMMA RequestsStep == ASSUME Inv, NEW q \in Calls, Requests(q) PROVE Inv'
<1>1. known \in SUBSET Pair
  BY Types
<1>2. ASSUME NEW u \in Users, Register(q, u) \/ Login(q, u) PROVE Inv'
  <2> DEFINE c(o) == [op |-> o, user |-> u]
  <2>1. \A o \in {"register", "login"} : c(o) \in AccountCall /\ c(o) \in Call
                                         /\ c(o) \notin RefreshCall
    BY DEF AccountCall, Call, RefreshCall
  <2> HIDE DEF c
  <2>2. Arrive(q, c("register"), "create") \/ Arrive(q, c("login"), "verify")
    BY <1>2 DEF Register, Login, c
  <2> QED BY <2>1, <2>2, ArriveStep
<1>3. ASSUME NEW b \in known, Logout(q, b) PROVE Inv'
  <2> DEFINE c == [op |-> "logout", bearer |-> b]
  <2>1. c \in LogoutCall /\ c \in Call /\ c \notin RefreshCall
    BY <1>1 DEF LogoutCall, Call, RefreshCall
  <2> HIDE DEF c
  <2>2. Arrive(q, c, "guard")
    BY <1>3 DEF Logout, c
  <2> QED BY <2>1, <2>2, ArriveStep
<1>4. ASSUME NEW b \in known, NEW t \in known, Refresh(q, b, t) PROVE Inv'
  <2> DEFINE l == t \in replaced
             c == [op |-> "refresh", bearer |-> b, token |-> t, late |-> l]
  <2>1. c \in RefreshCall /\ c \in Call
    BY <1>1 DEF RefreshCall, Call
  <2>2. c.late => c.token \in replaced
    OBVIOUS
  <2>3. Arrive(q, c, "guard")
    BY <1>4 DEF Refresh
  <2> HIDE DEF c
  <2> QED BY <2>1, <2>2, <2>3, ArriveStep
<1> QED BY <1>2, <1>3, <1>4 DEF Requests

\* Signing: the new pair differs from all that are stored, were replaced or wait.
LEMMA SignStep ==
  ASSUME Inv, NEW q \in Calls, NEW u \in Users, Sign(q, u),
         pc' = [pc EXCEPT ![q] = "store"], pc[q] # "store",
         UNCHANGED <<now, stored, replaced, call>>
  PROVE  /\ signed' \in 0 .. MaxPairs
         /\ Typed'
         /\ StoredInv' /\ ReplacedInv'
         /\ \A r \in Calls : FreshInv(r)' /\ CallInv(r)'
<1> DEFINE p == [id |-> signed + 1, user |-> u, born |-> NowSeconds]
           f == [pair |-> p, ttl |-> StoredLife(p)]
<1>1. /\ now \in Nat /\ signed \in Nat /\ Typed
      /\ replaced \in SUBSET Pair /\ stored \in [Users -> Entry \cup {None}]
  BY Types
<1>2. /\ signed' = signed + 1 /\ signed' \in 0 .. MaxPairs
      /\ fresh' = [fresh EXCEPT ![q] = f]
  BY <1>1 DEF Sign
<1>3. NowSeconds \in Nat /\ NowSeconds * Second <= now
  BY <1>1, Clock
<1>4. /\ p \in Pair /\ p.id = signed + 1 /\ p.born * Second <= now
      /\ f \in [pair : Pair, ttl : Nat] /\ f.pair = p /\ f.ttl = RefreshLife
  <2>1. p \in Pair /\ p.id = signed + 1 /\ p.born = NowSeconds
    BY <1>1, <1>2, <1>3 DEF Pair
  <2>2. StoredLife(p) = RefreshLife
    BY <1>3, <2>1 DEF StoredLife, RefreshExpiry
  <2> HIDE DEF p
  <2>3. p.born * Second <= now
    BY <1>3, <2>1
  <2> QED BY <2>1, <2>2, <2>3
<1> HIDE DEF p, f
<1>5. Typed'
  BY <1>1, <1>2, <1>4 DEF Typed, Phases
<1>6. /\ pc'[q] = "store" /\ fresh'[q] = f
      /\ \A r \in Calls \ {q} : pc'[r] = pc[r] /\ fresh'[r] = fresh[r]
  BY <1>1, <1>2 DEF Typed
<1>7. StoredInv' /\ ReplacedInv'
  BY <1>1, <1>2, StoredOn
<1>8. /\ p \notin replaced
      /\ \A v \in Users : stored[v] # None => stored[v].pair # p
      /\ \A r \in Calls : pc[r] = "store" => fresh[r].pair # p
  <2>1. \A x \in replaced : x.id <= signed
    BY DEF Inv, ReplacedInv
  <2>2. \A v \in Users : stored[v] # None => stored[v].pair.id <= signed
    BY DEF Inv, StoredInv
  <2>3. \A r \in Calls : pc[r] = "store" => fresh[r].pair.id <= signed
    BY DEF Inv, FreshInv
  <2> QED BY <1>1, <1>4, <2>1, <2>2, <2>3
<1>9. FreshInv(q)'
  BY <1>1, <1>2, <1>4, <1>6, <1>8 DEF FreshInv
<1>10. ASSUME NEW r \in Calls \ {q} PROVE FreshInv(r)'
  <2> SUFFICES ASSUME pc[r] = "store" PROVE FreshInv(r)'
    BY <1>6 DEF FreshInv
  <2>1. /\ fresh[r] \in [pair : Pair, ttl : Nat] /\ fresh[r].ttl = RefreshLife
        /\ fresh[r].pair.born * Second <= now
        /\ fresh[r].pair.id \in Nat /\ fresh[r].pair.id <= signed
        /\ fresh[r].pair \notin replaced
        /\ \A v \in Users : stored[v] # None => stored[v].pair # fresh[r].pair
        /\ \A j \in Calls \ {r} : pc[j] = "store" => fresh[j].pair # fresh[r].pair
    BY DEF Inv, FreshInv, Pair
  <2>2. \A j \in Calls \ {r} : pc'[j] = "store" => fresh'[j].pair # fresh'[r].pair
    BY <1>4, <1>6, <1>8, <2>1
  <2>3. fresh[r].pair.id <= signed'
    BY <1>1, <1>2, <2>1
  <2> QED BY <1>6, <2>1, <2>2, <2>3 DEF FreshInv
<1>11. CallInv(q)'
  BY <1>6 DEF CallInv
<1>12. \A r \in Calls : CallInv(r)'
  BY <1>6, <1>11, CallsOn
<1> QED BY <1>2, <1>5, <1>7, <1>9, <1>10, <1>12

LEMMA SigningSteps ==
  ASSUME Inv, NEW q \in Calls, CreateAccount(q) \/ VerifyPassword(q) \/ LoadUser(q)
  PROVE  Inv'
<1>1. /\ registered' \in SUBSET Users
      /\ UNCHANGED <<now, known, stored, blacklist, call, calls, errors, historyVars>>
  <2>1. pc[q] = "create" => call[q].user \in Users
    BY DEF Inv, CallInv, AccountCall
  <2>2. registered' = registered \/ registered' = registered \cup {call[q].user}
    BY DEF CreateAccount, VerifyPassword, LoadUser
  <2>3. registered' # registered => pc[q] = "create"
    BY DEF CreateAccount, VerifyPassword, LoadUser, Goto
  <2> QED BY <2>1, <2>2, <2>3, Types DEF CreateAccount, VerifyPassword, LoadUser
<1>2. BlacklistInv'
  BY <1>1, BlacklistOn, Types DEF historyVars
<1>3. CASE /\ pc' = [pc EXCEPT ![q] = "idle"]
           /\ UNCHANGED <<signed, fresh>>
  <2>1. CallInv(q)'
    BY <1>3, Types DEF CallInv, Typed
  <2>2. /\ StoredInv' /\ ReplacedInv'
        /\ \A r \in Calls : FreshInv(r)' /\ CallInv(r)'
        /\ pc' \in [Calls -> Phases]
    BY <1>1, <1>3, <2>1, MovesOn DEF historyVars, Phases
  <2>3. TypeOK'
    BY <1>1, <1>3, <2>2 DEF Inv, TypeOK, historyVars
  <2> QED BY <1>2, <2>2, <2>3 DEF Inv
<1>4. ASSUME NEW u \in Users, Sign(q, u), pc' = [pc EXCEPT ![q] = "store"],
             pc[q] # "store"
      PROVE  Inv'
  <2>1. /\ signed' \in 0 .. MaxPairs
        /\ Typed'
        /\ StoredInv' /\ ReplacedInv'
        /\ \A r \in Calls : FreshInv(r)' /\ CallInv(r)'
    BY <1>1, <1>4, SignStep DEF historyVars
  <2>2. TypeOK'
    BY <1>1, <2>1 DEF Inv, TypeOK, Typed, historyVars
  <2> QED BY <1>2, <2>1, <2>2 DEF Inv
<1>5. ASSUME pc[q] \in {"create", "verify"} PROVE call[q].user \in Users
  BY <1>5 DEF Inv, CallInv, AccountCall
<1>6. ASSUME pc[q] = "load" PROVE call[q].bearer.user \in Users
  BY <1>6 DEF Inv, CallInv, RefreshCall, Pair
<1>7. CASE CreateAccount(q)
  BY <1>3, <1>4, <1>5, <1>7 DEF CreateAccount, Goto
<1>8. CASE VerifyPassword(q)
  BY <1>3, <1>4, <1>5, <1>8 DEF VerifyPassword, Goto
<1>9. CASE LoadUser(q)
  BY <1>4, <1>6, <1>9 DEF LoadUser, Goto
<1> QED BY <1>7, <1>8, <1>9

\* The guard passes a call on to the phase that fits it; a token that was replaced before
\* its refresh arrived is not the stored one.
LEMMA CheckingSteps ==
  ASSUME Inv, NEW q \in Calls, Guard(q) \/ CompareToken(q) \/ Fail(q)
  PROVE  Inv'
<1>1. /\ errors' \in 0 .. MaxErrors
      /\ UNCHANGED <<now, sessionVars, call, fresh, calls, historyVars>>
  BY DEF Guard, CompareToken, Fail, Inv, TypeOK
<1>2. Typed /\ CallInv(q) /\ StoredInv
  BY Types DEF Inv
<1>3. ASSUME NEW to \in Phases \ {"store"}, pc' = [pc EXCEPT ![q] = to], CallInv(q)'
      PROVE  Inv'
  <2>1. /\ StoredInv' /\ ReplacedInv'
        /\ \A r \in Calls : FreshInv(r)' /\ CallInv(r)'
        /\ pc' \in [Calls -> Phases]
    BY <1>1, <1>3, MovesOn DEF sessionVars, historyVars
  <2>2. TypeOK'
    BY <1>1, <2>1 DEF Inv, TypeOK, sessionVars, historyVars
  <2>3. BlacklistInv'
    BY <1>1, BlacklistOn, Types DEF sessionVars, historyVars
  <2> QED BY <2>1, <2>2, <2>3 DEF Inv
<1>4. ASSUME pc' = [pc EXCEPT ![q] = "idle"] PROVE Inv'
  BY <1>2, <1>3, <1>4 DEF CallInv, Typed, Phases
<1>5. CASE Guard(q)
  <2>1. pc[q] = "guard" /\ call[q] \in RefreshCall \cup LogoutCall
    BY <1>2, <1>5 DEF Guard, Goto, CallInv
  <2>2. /\ call[q].op = "refresh" => call[q] \in RefreshCall
        /\ call[q].op = "logout" => call[q] \in LogoutCall
    BY <2>1 DEF RefreshCall, LogoutCall
  <2>3. CASE pc' = [pc EXCEPT ![q] = "compare"] /\ call[q].op = "refresh"
    BY <1>1, <1>2, <1>3, <2>1, <2>2, <2>3
    DEF CallInv, Typed, Phases, historyVars
  <2>4. CASE pc' = [pc EXCEPT ![q] = "blacklist"] /\ call[q].op = "logout"
    BY <1>1, <1>2, <1>3, <2>1, <2>2, <2>4 DEF CallInv, Typed, Phases
  <2> QED BY <1>4, <1>5, <2>3, <2>4 DEF Guard, Goto
<1>6. CASE CompareToken(q) /\ Accepts(q)
  <2>1. pc[q] = "compare" /\ pc' = [pc EXCEPT ![q] = "load"]
        /\ call[q] \in RefreshCall
    BY <1>2, <1>6 DEF CompareToken, Goto, CallInv
  <2>2. call[q].bearer.user \in Users
    BY <2>1 DEF RefreshCall, Pair
  <2>3. call[q].token \notin replaced
    BY <1>2, <1>6, <2>2 DEF Accepts, IsStored, Alive, StoredInv
  <2>4. CallInv(q)'
    BY <1>1, <1>2, <2>1, <2>3 DEF CallInv, Typed
  <2> QED BY <1>3, <2>1, <2>4 DEF Phases
<1>7. CASE (CompareToken(q) /\ ~ Accepts(q)) \/ Fail(q)
  BY <1>4, <1>7 DEF CompareToken, Fail, Goto
<1> QED BY <1>5, <1>6, <1>7

\* Writing a pair: what it replaces never comes back, and its key lasts as long as it.
LEMMA WriteStep ==
  ASSUME Inv, NEW q \in Calls, Write(q), Goto(q, "store", "idle"),
         UNCHANGED <<now, signed, fresh, call>>
  PROVE  /\ stored' \in [Users -> Entry \cup {None}] /\ replaced' \in SUBSET Pair
         /\ ended' \in SUBSET Users
         /\ Typed'
         /\ StoredInv' /\ ReplacedInv'
         /\ \A r \in Calls : FreshInv(r)' /\ CallInv(r)'
<1> DEFINE p == fresh[q].pair
           u == p.user
           e == SetFor(p, fresh[q].ttl)
           old == IF stored[u] = None THEN {} ELSE {stored[u].pair}
<1>1. /\ now \in Nat /\ signed \in Nat /\ Typed /\ ended \in SUBSET Users
      /\ replaced \in SUBSET Pair /\ stored \in [Users -> Entry \cup {None}]
  BY Types
<1>2. pc[q] = "store" /\ pc' = [pc EXCEPT ![q] = "idle"]
  BY DEF Goto
<1>3. /\ p \in Pair /\ fresh[q].ttl = RefreshLife /\ p.born * Second <= now
      /\ p.id <= signed /\ p \notin replaced
      /\ \A v \in Users : stored[v] # None => stored[v].pair # p
      /\ \A r \in Calls \ {q} : pc[r] = "store" => fresh[r].pair # p
  BY <1>2 DEF Inv, FreshInv
<1>4. u \in Users /\ p.id \in Nat
  BY <1>3 DEF Pair
<1>5. e \in Entry /\ e.pair = p /\ e.until >= RefreshEnd(p)
  BY <1>1, <1>3, KeyCoversRefresh
<1>6. /\ stored' = [stored EXCEPT ![u] = e] /\ replaced' = replaced \cup old
      /\ ended' = ended \/ ended' = ended \ {u}
  BY DEF Write
<1> HIDE DEF e
<1>7. old \in SUBSET Pair /\ \A x \in old : stored[u] # None /\ x = stored[u].pair
  BY <1>1, <1>4 DEF Entry
<1>8. \A v \in Users : stored[v] # None =>
        /\ stored[v].pair.user = v /\ stored[v].pair.id <= signed
        /\ stored[v].pair \notin replaced
        /\ stored[v].until >= RefreshEnd(stored[v].pair)
  BY DEF Inv, StoredInv
<1> HIDE DEF old, u, p
<1>9. ReplacedInv'
  BY <1>4, <1>6, <1>7, <1>8 DEF Inv, ReplacedInv
<1>10. p \notin replaced'
  BY <1>3, <1>4, <1>6, <1>7
<1>11. StoredInv'
  <2> SUFFICES ASSUME NEW v \in Users, stored'[v] # None
               PROVE  /\ stored'[v].pair.user = v /\ stored'[v].pair.id <= signed
                      /\ stored'[v].pair \notin replaced'
                      /\ stored'[v].until >= RefreshEnd(stored'[v].pair)
    BY DEF StoredInv, RefreshEnd, RefreshExpiry
  <2>1. CASE v = u
    <3>1. stored'[v] = e
      BY <1>1, <1>4, <1>6, <2>1
    <3> QED BY <1>3, <1>5, <1>10, <2>1, <3>1 DEF u
  <2>2. CASE v # u
    <3>1. stored'[v] = stored[v]
      BY <1>1, <1>4, <1>6, <2>2
    <3>2. stored[v].pair \notin old
      BY <1>4, <1>7, <1>8, <2>2, <3>1
    <3> QED BY <1>6, <1>8, <3>1, <3>2
  <2> QED BY <2>1, <2>2
<1>12. pc'[q] = "idle" /\ \A r \in Calls \ {q} : pc'[r] = pc[r]
  BY <1>1, <1>2 DEF Typed
<1>13. ASSUME NEW r \in Calls PROVE FreshInv(r)'
  <2> SUFFICES ASSUME pc[r] = "store", r # q PROVE FreshInv(r)'
    BY <1>12 DEF FreshInv
  <2>1. /\ FreshInv(r) /\ fresh[r].pair # p
        /\ fresh[r].pair \notin replaced
        /\ \A v \in Users : stored[v] # None => stored[v].pair # fresh[r].pair
    BY <1>3 DEF Inv, FreshInv
  <2>2. fresh[r].pair \notin replaced'
    BY <1>4, <1>6, <1>7, <2>1
  <2>3. \A v \in Users : stored'[v] # None => stored'[v].pair # fresh[r].pair
    BY <1>1, <1>4, <1>5, <1>6, <2>1
  <2> QED BY <1>12, <2>1, <2>2, <2>3 DEF FreshInv
<1>14. \A r \in Calls : CallInv(r)'
  <2>1. CallInv(q)'
    BY <1>12 DEF CallInv
  <2> QED BY <1>6, <1>12, <2>1, CallsOn
<1>15. Typed'
  BY <1>1, <1>2 DEF Typed, Phases
<1>16. stored' \in [Users -> Entry \cup {None}]
  BY <1>1, <1>5, <1>6
<1> QED BY <1>1, <1>6, <1>7, <1>9, <1>11, <1>13, <1>14, <1>15, <1>16

LEMMA StoringSteps ==
  ASSUME Inv, NEW q \in Calls, Store(q) \/ StoreReplyLost(q)
  PROVE  Inv'
<1>1. /\ Write(q) /\ Goto(q, "store", "idle")
      /\ UNCHANGED <<now, registered, signed, blacklist, call, fresh, calls, loggedOut>>
      /\ errors' \in 0 .. MaxErrors
  BY DEF Store, StoreReplyLost, Inv, TypeOK
<1>2. known' \in SUBSET Pair
  <2>1. fresh[q].pair \in Pair
    BY <1>1 DEF Goto, Inv, FreshInv
  <2> QED BY <2>1, Types DEF Store, StoreReplyLost
<1>3. /\ stored' \in [Users -> Entry \cup {None}] /\ replaced' \in SUBSET Pair
      /\ ended' \in SUBSET Users
      /\ Typed'
      /\ StoredInv' /\ ReplacedInv'
      /\ \A r \in Calls : FreshInv(r)' /\ CallInv(r)'
  BY <1>1, WriteStep
<1>4. TypeOK'
  BY <1>1, <1>2, <1>3 DEF Inv, TypeOK, Typed
<1>5. BlacklistInv'
  BY <1>1, BlacklistOn, Types
<1> QED BY <1>3, <1>4, <1>5 DEF Inv

\* A logout blacklists its token with a key that lasts as long, unless it has ended.
LEMMA BlacklistTokenStep == ASSUME Inv, NEW q \in Calls, BlacklistToken(q) PROVE Inv'
<1> DEFINE p == call[q].bearer
           b == SetFor(p, WholeSeconds(TimeLeft(p)))
<1>1. /\ pc[q] = "blacklist" /\ pc' = [pc EXCEPT ![q] = "remove"]
      /\ loggedOut' = loggedOut \cup {p}
      /\ UNCHANGED <<now, registered, signed, known, stored, call, fresh, calls, errors,
                     ended, replaced>>
  BY DEF BlacklistToken, Goto
<1>2. call[q] \in LogoutCall /\ p \in Pair /\ now \in Nat /\ Typed
  BY <1>1, Types DEF Inv, CallInv, LogoutCall
<1>3. CallInv(q)'
  BY <1>1, <1>2 DEF CallInv, Typed
<1>4. /\ StoredInv' /\ ReplacedInv'
      /\ \A r \in Calls : FreshInv(r)' /\ CallInv(r)'
      /\ pc' \in [Calls -> Phases]
  BY <1>1, <1>3, MovesOn DEF Phases
<1>5. AccessEnd(p) \in Nat /\ TimeLeft(p) = AccessEnd(p) - now
  BY <1>2, Ends DEF TimeLeft, AccessEnd
<1>6. /\ blacklist' \in SUBSET Entry /\ blacklist \subseteq blacklist'
      /\ now >= AccessEnd(p) \/ \E x \in blacklist' : x.pair = p /\ x.until >= AccessEnd(p)
  <2>1. CASE TimeLeft(p) > 0
    <3>1. b \in Entry /\ b.pair = p /\ b.until >= AccessEnd(p)
      BY <1>2, <2>1, KeyCoversAccess
    <3>2. blacklist' = blacklist \cup {b}
      BY <2>1 DEF BlacklistToken
    <3> HIDE DEF b
    <3> QED BY <3>1, <3>2, Types
  <2>2. CASE ~ TimeLeft(p) > 0
    <3>1. blacklist' = blacklist
      BY <2>2 DEF BlacklistToken
    <3>2. now >= AccessEnd(p)
      BY <1>2, <1>5, <2>2
    <3> QED BY <3>1, <3>2, Types
  <2> QED BY <2>1, <2>2
<1> HIDE DEF p
<1>7. BlacklistInv'
  BY <1>1, <1>6 DEF Inv, BlacklistInv, AccessEnd, AccessExpiry
<1>8. TypeOK'
  BY <1>1, <1>2, <1>4, <1>6 DEF Inv, TypeOK
<1> QED BY <1>4, <1>7, <1>8 DEF Inv

LEMMA RemoveTokenStep == ASSUME Inv, NEW q \in Calls, RemoveToken(q) PROVE Inv'
<1> DEFINE u == call[q].bearer.user
           old == IF stored[u] = None THEN {} ELSE {stored[u].pair}
<1>1. /\ pc[q] = "remove" /\ pc' = [pc EXCEPT ![q] = "idle"]
      /\ stored' = [stored EXCEPT ![u] = None] /\ replaced' = replaced \cup old
      /\ ended' = ended \cup {u}
      /\ UNCHANGED <<now, registered, signed, known, blacklist, call, fresh, calls, errors,
                     loggedOut>>
  BY DEF RemoveToken, Goto
<1>2. /\ u \in Users /\ Typed
      /\ replaced \in SUBSET Pair /\ stored \in [Users -> Entry \cup {None}]
  BY <1>1, Types DEF Inv, CallInv, LogoutCall, Pair
<1>3. old \in SUBSET Pair /\ \A x \in old : stored[u] # None /\ x = stored[u].pair
  BY <1>2 DEF Entry
<1> HIDE DEF u, old
<1>4. \A v \in Users : stored[v] # None =>
        /\ stored[v].pair.user = v /\ stored[v].pair.id <= signed
        /\ stored[v].pair \notin replaced
        /\ stored[v].until >= RefreshEnd(stored[v].pair)
  BY DEF Inv, StoredInv
<1>5. \A v \in Users : stored'[v] # None => stored'[v] = stored[v] /\ v # u
  BY <1>1, <1>2
<1>6. ReplacedInv'
  BY <1>1, <1>2, <1>3, <1>4 DEF Inv, ReplacedInv
<1>7. StoredInv'
  <2> SUFFICES ASSUME NEW v \in Users, stored'[v] # None
               PROVE  /\ stored'[v].pair.user = v /\ stored'[v].pair.id <= signed
                      /\ stored'[v].pair \notin replaced'
                      /\ stored'[v].until >= RefreshEnd(stored'[v].pair)
    BY <1>1 DEF StoredInv, RefreshEnd, RefreshExpiry
  <2>1. stored'[v] = stored[v] /\ v # u
    BY <1>5
  <2>2. stored[v].pair \notin old
    BY <1>2, <1>3, <1>4, <2>1
  <2> QED BY <1>1, <1>4, <2>1, <2>2
<1>8. pc'[q] = "idle" /\ \A r \in Calls \ {q} : pc'[r] = pc[r]
  BY <1>1, <1>2 DEF Typed
<1>9. ASSUME NEW r \in Calls PROVE FreshInv(r)'
  <2> SUFFICES ASSUME pc[r] = "store", r # q PROVE FreshInv(r)'
    BY <1>8 DEF FreshInv
  <2>1. /\ FreshInv(r)
        /\ fresh[r].pair \notin replaced
        /\ \A v \in Users : stored[v] # None => stored[v].pair # fresh[r].pair
    BY DEF Inv, FreshInv
  <2>2. fresh[r].pair \notin replaced'
    BY <1>1, <1>2, <1>3, <2>1
  <2> QED BY <1>1, <1>5, <1>8, <2>1, <2>2 DEF FreshInv
<1>10. \A r \in Calls : CallInv(r)'
  <2>1. CallInv(q)'
    BY <1>8 DEF CallInv
  <2> QED BY <1>1, <1>8, <2>1, CallsOn
<1>11. stored' \in [Users -> Entry \cup {None}] /\ replaced' \in SUBSET Pair
       /\ ended' \in SUBSET Users
  BY <1>1, <1>2, <1>3, Types
<1>12. TypeOK'
  BY <1>1, <1>11 DEF Inv, TypeOK, Phases
<1>13. BlacklistInv'
  BY <1>1, BlacklistOn, Types
<1> QED BY <1>6, <1>7, <1>9, <1>10, <1>12, <1>13 DEF Inv

LEMMA InvStep == Inv /\ [Next]_vars => Inv'
<1> SUFFICES ASSUME Inv, [Next]_vars PROVE Inv'
  OBVIOUS
<1>1. CASE UNCHANGED vars
  BY <1>1 DEF vars, Inv, TypeOK, StoredInv, ReplacedInv, BlacklistInv, FreshInv, CallInv,
              AccessEnd, AccessExpiry, RefreshEnd, RefreshExpiry
<1>2. CASE Tick
  BY <1>2, TickStep
<1>3. ASSUME NEW q \in Calls, Requests(q) PROVE Inv'
  BY <1>3, RequestsStep
<1>4. ASSUME NEW q \in Calls, Serve(q) PROVE Inv'
  BY <1>4, SigningSteps, CheckingSteps, StoringSteps, BlacklistTokenStep, RemoveTokenStep
  DEF Serve
<1>5. ASSUME NEW q \in Calls, StoreReplyLost(q) PROVE Inv'
  BY <1>5, StoringSteps
<1>6. ASSUME NEW q \in Calls, Fail(q) PROVE Inv'
  BY <1>6, CheckingSteps
<1> QED BY <1>1, <1>2, <1>3, <1>4, <1>5, <1>6 DEF Next

LEMMA InvHolds == Spec => []Inv
BY InitInv, InvStep, PTL DEF Spec

-----------------------------------------------------------------------------
(* Theorems.                                                               *)

\* Every variable keeps its type: among others, the lifetimes given to Redis are whole
\* numbers of seconds.
THEOREM SessionTypes == Spec => []TypeOK
<1>1. Inv => TypeOK
  BY DEF Inv
<1> QED BY <1>1, InvHolds, PTL

\* A blacklisted access token is refused until it expires, for every lifetime and every
\* moment within a second at which a logout comes.
THEOREM LoggedOutTokensAreRefusedHolds == Spec => []LoggedOutTokensAreRefused
<1>1. Inv => LoggedOutTokensAreRefused
  <2> SUFFICES ASSUME Inv, NEW p \in loggedOut, AccessValid(p) PROVE Blacklisted(p)
    BY DEF LoggedOutTokensAreRefused, Authenticates
  <2>1. p \in Pair /\ now \in Nat /\ blacklist \in SUBSET Entry
    BY Types
  <2>2. AccessExpiry(p) \in Nat /\ AccessEnd(p) \in Nat
    BY <2>1, Ends DEF AccessExpiry, Pair
  <2>3. now < AccessEnd(p)
    BY <2>1, <2>2, Earlier DEF AccessValid, AccessEnd
  <2>4. PICK b \in blacklist : b.pair = p /\ b.until >= AccessEnd(p)
    BY <2>1, <2>2, <2>3 DEF Inv, BlacklistInv
  <2>5. b.until \in Nat /\ b # None
    BY <2>1, NoneAssumption DEF Entry
  <2> QED BY <2>1, <2>2, <2>3, <2>4, <2>5 DEF Blacklisted, Alive
<1> QED BY <1>1, InvHolds, PTL

\* A refresh token that was replaced or removed before its refresh arrived is not
\* accepted, whatever overlapping calls write after it was.
THEOREM ReplacedTokensStayDeadHolds == Spec => []ReplacedTokensStayDead
<1>1. Inv => ReplacedTokensStayDead
  BY DEF Inv, CallInv, ReplacedTokensStayDead
<1> QED BY <1>1, InvHolds, PTL

\* Redis keeps the stored refresh token for as long as the token is valid.
THEOREM StoredWhileValidHolds == Spec => []StoredWhileValid
<1>1. Inv => StoredWhileValid
  <2> SUFFICES ASSUME Inv, NEW u \in Users, stored[u] # None, RefreshValid(stored[u].pair)
               PROVE  now < stored[u].until
    BY DEF StoredWhileValid, Alive
  <2> DEFINE p == stored[u].pair
  <2>1. p \in Pair /\ stored[u].until \in Nat /\ now \in Nat
    BY Types DEF Entry
  <2>2. stored[u].until >= RefreshEnd(p)
    BY DEF Inv, StoredInv
  <2> HIDE DEF p
  <2>3. RefreshExpiry(p) \in Nat /\ RefreshEnd(p) \in Nat
    BY <2>1, Ends DEF RefreshExpiry, Pair
  <2>4. now < RefreshEnd(p)
    BY <2>1, <2>3, Earlier DEF RefreshValid, RefreshEnd, p
  <2> QED BY <2>1, <2>2, <2>3, <2>4
<1> QED BY <1>1, InvHolds, PTL
=============================================================================
