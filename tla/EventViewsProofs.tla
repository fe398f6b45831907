-------------------------- MODULE EventViewsProofs --------------------------
(***************************************************************************)
(* Proofs about EventViews: what a list shows agrees with the processing of*)
(* requests, and who reads a list to its end misses nothing that stays in  *)
(* it, for every number of events and of changes, and every size of a page.*)
(***************************************************************************)
EXTENDS EventViews, EventStoreProofs, FiniteSetTheorems

-----------------------------------------------------------------------------
(* Places in a list.                                                       *)

\* The members of S stand at places 0, 1, ..., each at one of its own.
Ordered(S, place) ==
  /\ place \in [S -> 0 .. Cardinality(S) - 1]
  /\ \A i, j \in S : place[i] = place[j] => i = j

\* Who stands at the places from a up to b.
Span(S, place, a, b) == {j \in S : place[j] \in a .. b - 1}

\* No place is left empty: there are as many as members.
LEMMA EveryPlace ==
  ASSUME NEW S, IsFiniteSet(S), NEW place, Ordered(S, place),
         NEW m \in 0 .. Cardinality(S) - 1
  PROVE  \E i \in S : place[i] = m
<1> DEFINE n == Cardinality(S)
           places == 0 .. n - 1
           others == places \ {m}
<1>1. SUFFICES ASSUME \A i \in S : place[i] # m PROVE FALSE
  OBVIOUS
<1>2. n \in Nat
  BY FS_CardinalityType
<1>3. place \in [S -> others]
  BY <1>1 DEF Ordered
<1>4. IsFiniteSet(places) /\ Cardinality(places) = n
  <2> HIDE DEF n
  <2> QED BY <1>2, FS_Interval
<1>5. IsFiniteSet(others) /\ Cardinality(others) = n - 1
  <2>1. m \in places
    OBVIOUS
  <2> HIDE DEF n, places
  <2> QED BY <2>1, <1>4, FS_RemoveElement
<1>6. PICK x, y \in S : x # y /\ place[x] = place[y]
  <2>1. Cardinality(others) < Cardinality(S)
    BY <1>2, <1>5
  <2> HIDE DEF others
  <2> QED BY <2>1, <1>3, <1>5, FS_PigeonHole
<1> QED BY <1>6 DEF Ordered

\* They are so many.
LEMMA Between ==
  ASSUME NEW S, IsFiniteSet(S), NEW place, Ordered(S, place),
         NEW a \in Nat, NEW b \in Nat, a <= b, b <= Cardinality(S)
  PROVE  Cardinality(Span(S, place, a, b)) = b - a
<1> DEFINE places == a .. b - 1
           there == {j \in S : place[j] \in places}
           at == [j \in there |-> place[j]]
           has == [m \in places |-> CHOOSE j \in S : place[j] = m]
<1>1. Cardinality(S) \in Nat
  BY FS_CardinalityType
<1>2. IsFiniteSet(places) /\ Cardinality(places) = b - a
  <2>1. a \in Int /\ b - 1 \in Int
    OBVIOUS
  <2>2. IsFiniteSet(places)
        /\ Cardinality(places) = IF a > b - 1 THEN 0 ELSE (b - 1) - a + 1
    BY <2>1, FS_Interval
  <2> QED BY <2>2
<1>3. \A m \in places : has[m] \in S /\ place[has[m]] = m
  <2> SUFFICES ASSUME NEW m \in places PROVE has[m] \in S /\ place[has[m]] = m
    OBVIOUS
  <2>1. m \in 0 .. Cardinality(S) - 1
    BY <1>1
  <2>2. \E j \in S : place[j] = m
    BY <2>1, EveryPlace
  <2> QED BY <2>2
<1>4. has \in [places -> there] /\ at \in [there -> places]
  BY <1>3
<1>5. IsFiniteSet(there) /\ Cardinality(there) \in Nat
  BY FS_Subset, FS_CardinalityType
<1>6. \A x, y \in there : at[x] = at[y] => x = y
  BY DEF Ordered
<1>7. \A m \in places : place[has[m]] = m
  BY <1>3
<1> HIDE DEF has, at, places, there
<1>8. ASSUME Cardinality(there) < Cardinality(places) PROVE FALSE
  <2>1. PICK x, y \in places : x # y /\ has[x] = has[y]
    BY <1>2, <1>4, <1>5, <1>8, FS_PigeonHole
  <2> QED BY <2>1, <1>7
<1>9. ASSUME Cardinality(places) < Cardinality(there) PROVE FALSE
  <2>1. PICK x, y \in there : x # y /\ at[x] = at[y]
    BY <1>2, <1>4, <1>5, <1>9, FS_PigeonHole
  <2> QED BY <2>1, <1>6
<1>10. Cardinality(there) = b - a
  BY <1>2, <1>5, <1>8, <1>9
<1> QED BY <1>10 DEF Span, there, places

-----------------------------------------------------------------------------
(* The pages of a list.                                                    *)

\* The ids in list v.
Members(v) == {j \in Ids : InView(v, j)}

\* Those created after event i.
Newer(v, i) == {j \in Members(v) : store[j].createdAt > store[i].createdAt}

\* Event i shares its time of creation with no other of the list.
Alone(v, i) == \A j \in Members(v) \ {i} : store[j].createdAt # store[i].createdAt

LEMMA MembersAreFinite ==
  ASSUME NEW v
  PROVE  Members(v) \in SUBSET Ids /\ IsFiniteSet(Members(v))
<1>1. IsFiniteSet(Ids)
  BY EventBounds, FS_Interval DEF Ids
<1>2. Members(v) \in SUBSET Ids
  BY DEF Members
<1> QED BY <1>1, <1>2, FS_Subset

LEMMA NewerAreFinite ==
  ASSUME NEW v, NEW i
  PROVE  IsFiniteSet(Newer(v, i)) /\ Cardinality(Newer(v, i)) \in Nat
<1>1. Newer(v, i) \in SUBSET Members(v)
  BY DEF Newer
<1> QED BY <1>1, MembersAreFinite, FS_Subset, FS_CardinalityType

LEMMA OrdersAreOrdered ==
  ASSUME NEW v, NEW place \in Orders(v)
  PROVE  /\ Ordered(Members(v), place)
         /\ \A i, j \in Members(v) :
              store[i].createdAt > store[j].createdAt => place[i] < place[j]
BY DEF Orders, Ordered, Members

\* In every order that a query may return, an event without a twin has the same place:
\* the newer ones come before it, and nothing else.
LEMMA PlaceOfAlone ==
  ASSUME Inv, NEW v, NEW place \in Orders(v), NEW i \in Members(v), Alone(v, i)
  PROVE  place[i] = Cardinality(Newer(v, i))
<1> DEFINE S == Members(v)
           before_i == Span(S, place, 0, place[i])
<1>1. /\ IsFiniteSet(S) /\ Ordered(S, place) /\ Cardinality(S) \in Nat
      /\ \A j \in S : place[j] \in 0 .. Cardinality(S) - 1
  BY MembersAreFinite, OrdersAreOrdered, FS_CardinalityType DEF Ordered
<1>2. \A j \in S : store[j].createdAt \in Int
  <2>1. \A j \in S : j \in Ids /\ store[j] # NoEvent
    BY DEF Members, InView, Live, Stored
  <2>2. \A j \in S : store[j] \in Event
    BY <2>1 DEF Inv, TypeOK
  <2> QED BY <2>2, TimesAssumption DEF Event
<1>3. ASSUME NEW j \in S
      PROVE  place[j] \in 0 .. place[i] - 1 <=> store[j].createdAt > store[i].createdAt
  <2>1. CASE j = i
    BY <1>1, <1>2, <2>1
  <2>2. CASE j # i /\ store[j].createdAt > store[i].createdAt
    <3>1. place[j] < place[i]
      BY <2>2, OrdersAreOrdered
    <3> QED BY <1>1, <2>2, <3>1
  <2>3. CASE j # i /\ ~ (store[j].createdAt > store[i].createdAt)
    <3>1. store[i].createdAt > store[j].createdAt
      BY <1>2, <2>3 DEF Alone
    <3>2. place[i] < place[j]
      BY <3>1, OrdersAreOrdered
    <3> QED BY <1>1, <2>3, <3>2
  <2> QED BY <2>1, <2>2, <2>3
<1>4. before_i = Newer(v, i)
  BY <1>3 DEF Newer, Span
<1>5. Cardinality(before_i) = place[i] - 0
  <2>1. place[i] \in Nat /\ 0 <= place[i] /\ place[i] <= Cardinality(S)
    BY <1>1
  <2> HIDE DEF S
  <2> QED BY <1>1, <2>1, Between
<1>6. place[i] \in Nat
  BY <1>1
<1> HIDE DEF before_i
<1> QED BY <1>4, <1>5, <1>6

LEMMA Pages ==
  ASSUME NEW p \in Nat \ {0}
  PROVE  Skip(p) \in Nat /\ Skip(p + 1) = Skip(p) + Limit
<1>1. p - 1 \in Nat /\ Limit \in Nat
  BY LimitAssumption
<1>2. (p - 1) * Limit \in Nat /\ (p + 1 - 1) * Limit = (p - 1) * Limit + Limit
  BY <1>1
<1> QED BY <1>2 DEF Skip

\* After a page that is not full there is nothing more.
LEMMA LastPage ==
  ASSUME NEW v, NEW place \in Orders(v), NEW p \in Nat \ {0},
         Cardinality(OnPage(place, p)) < Limit, NEW i \in Members(v)
  PROVE  place[i] < Skip(p) + Limit
<1> DEFINE S == Members(v)
           a == Skip(p)
           b == a + Limit
<1>1. a \in Nat /\ Limit \in Nat /\ b \in Nat /\ a <= b /\ b - a = Limit
  BY LimitAssumption, Pages
<1>2. /\ IsFiniteSet(S) /\ Ordered(S, place) /\ Cardinality(S) \in Nat
      /\ place[i] \in 0 .. Cardinality(S) - 1 /\ DOMAIN place = S
  BY MembersAreFinite, OrdersAreOrdered, FS_CardinalityType DEF Ordered
<1>3. OnPage(place, p) = Span(S, place, a, b)
  <2>1. a + Limit - 1 = b - 1
    BY <1>1
  <2> HIDE DEF S
  <2> QED BY <1>2, <2>1 DEF OnPage, Span
<1> HIDE DEF S, a, b
<1>4. ASSUME place[i] >= b PROVE FALSE
  <2>1. b <= Cardinality(S)
    BY <1>1, <1>2, <1>4
  <2>2. Cardinality(Span(S, place, a, b)) = b - a
    BY <1>1, <1>2, <2>1, Between
  <2> QED BY <1>1, <1>3, <2>2
<1>5. place[i] < b
  BY <1>1, <1>2, <1>4
<1> QED BY <1>5 DEF a, b

-----------------------------------------------------------------------------
(* The inductive invariant of a reader.                                    *)

\* What is shown was live when it was read, and is what is stored as long as the version
\* is the same.
ItemsInv ==
  \A t \in items :
    /\ t.id \in Ids /\ t.id <= created
    /\ t.event \in Event /\ ~ t.event.deleted
    /\ Follows(t.id, t.event)

ReaderTypes ==
  /\ view \in {"none", "all", "active"}
  /\ page \in Nat
  /\ left \in BOOLEAN

Unread == view = "none" => page = 1 /\ began = {}

\* While nothing has left the list, what was in it first and comes before the next page
\* was read, if it shares its time with no other.  As the list grows, such an event only
\* gets more newer ones, and may lose this distinction but never gain it.
ReadSoFar ==
  view # "none" /\ ~ left =>
    /\ began \subseteq List
    /\ \A i \in began :
         Alone(view, i) /\ (page = 0 \/ Cardinality(Newer(view, i)) < Skip(page)) => i \in got

ReaderInv == ReaderTypes /\ Unread /\ ReadSoFar /\ ItemsInv

ViewsInv == Inv /\ ReaderInv

LEMMA InitViewsInv == InitViews => ViewsInv
<1> SUFFICES ASSUME InitViews PROVE ViewsInv
  OBVIOUS
<1>1. Inv
  BY InitInv DEF InitViews
<1>2. ReaderTypes /\ Unread /\ ReadSoFar /\ ItemsInv
  BY DEF InitViews, ReaderTypes, Unread, ReadSoFar, ItemsInv
<1> QED BY <1>1, <1>2 DEF ViewsInv, ReaderInv

\* The reader's own steps leave the store alone.
LEMMA StoreInvStep == ViewsInv /\ [NextViews]_allVars => Inv'
<1> SUFFICES ASSUME ViewsInv, [NextViews]_allVars PROVE Inv'
  OBVIOUS
<1>1. Inv /\ [Next]_vars
  BY DEF ViewsInv, NextViews, BeginReading, ReadPage, ChangeStore, allVars
<1> QED BY <1>1, InvStep

LEMMA BeginStep ==
  ASSUME ViewsInv, NEW v \in {"all", "active"}, BeginReading(v)
  PROVE  ReaderInv'
<1>1. /\ view = "none" /\ view' = v /\ page = 1 /\ page' = 1
      /\ began' = Members(v)
      /\ UNCHANGED <<store, created, items, got, left>>
  BY DEF ViewsInv, ReaderInv, Unread, BeginReading, Members, vars
<1>2. ReaderTypes' /\ Unread' /\ ItemsInv'
  BY <1>1 DEF ViewsInv, ReaderInv, ReaderTypes, Unread, ItemsInv, Follows, Stored
<1>3. List' = Members(v)
  BY <1>1 DEF List, Members, InView, Live, Stored
<1>4. \A i \in Members(v) : ~ (Cardinality(Newer(v, i)) < Skip(1))
  <2>1. Skip(1) = 0
    BY LimitAssumption DEF Skip
  <2> QED BY <2>1, NewerAreFinite
<1>5. \A i : Newer(view, i)' = Newer(v, i) /\ Skip(page)' = Skip(1)
  BY <1>1 DEF Newer, Members, InView, Live, Stored, Skip
<1>6. ReadSoFar'
  BY <1>1, <1>3, <1>4, <1>5 DEF ReadSoFar
<1> QED BY <1>2, <1>6 DEF ReaderInv

LEMMA ReadPageStep ==
  ASSUME ViewsInv, ReadPage
  PROVE  ReaderInv'
<1>1. PICK place \in Orders(view) :
        /\ items' = {[id |-> i, event |-> store[i]] : i \in OnPage(place, page)}
        /\ got' = got \cup OnPage(place, page)
        /\ page' = IF Cardinality(OnPage(place, page)) < Limit THEN 0 ELSE page + 1
  BY DEF ReadPage
<1> DEFINE ids == OnPage(place, page)
<1>2. /\ view \in {"all", "active"} /\ page \in Nat \ {0}
      /\ UNCHANGED <<store, created, view, began, left>>
  BY DEF ViewsInv, ReaderInv, ReaderTypes, ReadPage, vars
<1>3. ReaderTypes' /\ Unread'
  BY <1>1, <1>2 DEF ViewsInv, ReaderInv, ReaderTypes, Unread
<1>4. DOMAIN place = Members(view) /\ \A i \in DOMAIN place : place[i] \in Nat
  BY OrdersAreOrdered DEF Ordered
<1>5. ItemsInv'
  <2>1. ASSUME NEW i \in ids
        PROVE  /\ i \in Ids /\ i <= created
               /\ store[i] \in Event /\ ~ store[i].deleted /\ Follows(i, store[i])'
    <3>1. i \in Ids /\ Live(i)
      BY <1>4 DEF OnPage, Members, InView
    <3>2. store[i] \in Event /\ i <= created /\ store[i].version \in Nat
      BY <3>1, StoredTypes DEF ViewsInv, Inv, StoreInv, Live
    <3> QED BY <1>2, <3>1, <3>2 DEF Follows, Live, Stored
  <2> HIDE DEF ids
  <2>2. \A t \in items' : \E i \in ids : t = [id |-> i, event |-> store[i]]
    BY <1>1 DEF ids
  <2> QED BY <1>2, <2>1, <2>2 DEF ItemsInv, Follows, Stored
<1>6. ASSUME ~ left PROVE ReadSoFar'
  <2>1. /\ List' = Members(view) /\ List = Members(view)
    BY <1>2 DEF List, Members, InView, Live, Stored
  <2>2. \A i : Newer(view, i)' = Newer(view, i) /\ (Alone(view, i)' <=> Alone(view, i))
    BY <1>2 DEF Members, Newer, Alone, InView, Live, Stored
  <2>3. /\ began \subseteq Members(view)
        /\ \A i \in began :
             Alone(view, i) /\ Cardinality(Newer(view, i)) < Skip(page) => i \in got
    BY <1>2, <1>6, <2>1 DEF ViewsInv, ReaderInv, ReadSoFar
  <2>4. Skip(page) \in Nat /\ Skip(page + 1) = Skip(page) + Limit /\ Limit \in Nat
    BY <1>2, Pages, LimitAssumption
  <2>5. ASSUME NEW i \in began, Alone(view, i),
               page' = 0 \/ Cardinality(Newer(view, i)) < Skip(page + 1)
        PROVE  i \in got'
    <3>1. i \in Members(view) /\ place[i] = Cardinality(Newer(view, i)) /\ place[i] \in Nat
      BY <1>4, <2>3, <2>5, PlaceOfAlone DEF ViewsInv
    <3>2. place[i] < Skip(page) + Limit
      <4>1. CASE Cardinality(ids) < Limit
        BY <1>2, <3>1, <4>1, LastPage
      <4>2. CASE ~ (Cardinality(ids) < Limit)
        BY <1>1, <1>2, <2>4, <2>5, <3>1, <4>2
      <4> QED BY <4>1, <4>2
    <3>3. CASE place[i] < Skip(page)
      BY <1>1, <2>3, <2>5, <3>1, <3>3
    <3>4. CASE ~ (place[i] < Skip(page))
      <4>1. place[i] \in Skip(page) .. Skip(page) + Limit - 1
        BY <2>4, <3>1, <3>2, <3>4
      <4>2. i \in ids
        BY <1>4, <3>1, <4>1 DEF OnPage
      <4> QED BY <1>1, <4>2
    <3> QED BY <3>3, <3>4
  <2>6. page' = 0 \/ Skip(page)' = Skip(page + 1)
    BY <1>1 DEF Skip
  <2>7. ASSUME NEW i \in began', Alone(view, i)',
               page' = 0 \/ Cardinality(Newer(view, i))' < Skip(page)'
        PROVE  i \in got'
    <3>1. i \in began /\ Alone(view, i) /\ Newer(view, i)' = Newer(view, i)
      BY <1>2, <2>2, <2>7
    <3> QED BY <2>5, <2>6, <2>7, <3>1
  <2> QED BY <1>2, <2>1, <2>3, <2>7 DEF ReadSoFar
<1>7. ReadSoFar'
  BY <1>2, <1>6 DEF ReadSoFar
<1> QED BY <1>3, <1>5, <1>7 DEF ReaderInv

\* A list that nothing leaves only puts more newer events before the others.
LEMMA ChangeStep ==
  ASSUME ViewsInv, ChangeStore
  PROVE  ReaderInv'
<1>1. /\ UNCHANGED <<view, page, items, got, began>>
      /\ left' \in BOOLEAN
      /\ ~ left' => ~ left /\ List \subseteq List'
  BY DEF ChangeStore, ViewsInv, ReaderInv, ReaderTypes
<1>2. Inv /\ StoreSteps
  BY StoreStep DEF ChangeStore, ViewsInv
<1>3. Grows /\ created \in Nat /\ created' \in Nat
  BY <1>2, StoreGrows DEF Inv, TypeOK
<1>4. ReaderTypes' /\ Unread'
  BY <1>1 DEF ViewsInv, ReaderInv, ReaderTypes, Unread
<1>5. ItemsInv'
  <2> SUFFICES ASSUME NEW t \in items
               PROVE  /\ t.id \in Ids /\ t.id <= created'
                      /\ t.event \in Event /\ ~ t.event.deleted
                      /\ Follows(t.id, t.event)'
    BY <1>1 DEF ItemsInv
  <2>1. /\ t.id \in Ids /\ t.id <= created
        /\ t.event \in Event /\ ~ t.event.deleted /\ Follows(t.id, t.event)
    BY DEF ViewsInv, ReaderInv, ItemsInv
  <2>2. t.id <= created'
    BY <1>3, <2>1 DEF Grows, Ids
  <2>3. Follows(t.id, t.event)'
    BY <1>2, <2>1, FollowsOn DEF Follows
  <2> QED BY <2>1, <2>2, <2>3
<1>6. ASSUME view # "none", ~ left' PROVE ReadSoFar'
  <2>1. /\ List = Members(view) /\ List' = Members(view)'
        /\ Members(view) \subseteq Members(view)'
    BY <1>1, <1>6 DEF List, Members
  <2>2. ASSUME NEW j \in Members(view) PROVE store'[j].createdAt = store[j].createdAt
    <3>1. j \in Ids /\ j <= created
      BY <1>2 DEF Members, InView, Live, Inv, StoreInv
    <3>2. store'[j] # NoEvent
      BY <2>1 DEF Members, InView, Live, Stored
    <3> QED BY <1>3, <3>1, <3>2 DEF Grows
  <2>3. ASSUME NEW i \in Members(view)
        PROVE  /\ Alone(view, i)' => Alone(view, i)
               /\ Cardinality(Newer(view, i)) \in Nat
               /\ Cardinality(Newer(view, i))' \in Nat
               /\ Cardinality(Newer(view, i)) <= Cardinality(Newer(view, i))'
    <3> DEFINE N == Newer(view, i)
               M == Newer(view, i)'
    <3>1. N \in SUBSET M /\ (Alone(view, i)' => Alone(view, i))
      BY <2>1, <2>2 DEF Newer, Alone
    <3>2. IsFiniteSet(N) /\ Cardinality(N) \in Nat
      BY NewerAreFinite
    <3>3. IsFiniteSet(M)
      <4>1. M \in SUBSET Ids
        BY DEF Newer, Members
      <4>2. IsFiniteSet(Ids)
        BY EventBounds, FS_Interval DEF Ids
      <4> QED BY <4>1, <4>2, FS_Subset
    <3> HIDE DEF N, M
    <3>4. Cardinality(M) \in Nat /\ Cardinality(N) <= Cardinality(M)
      BY <3>1, <3>3, FS_Subset, FS_CardinalityType
    <3>5. Cardinality(Newer(view, i))' = Cardinality(M)
      BY DEF M
    <3> QED BY <3>1, <3>2, <3>4, <3>5 DEF N
  <2>4. /\ began \subseteq Members(view)
        /\ \A i \in began :
             Alone(view, i) /\ (page = 0 \/ Cardinality(Newer(view, i)) < Skip(page))
               => i \in got
    BY <1>1, <1>6, <2>1 DEF ViewsInv, ReaderInv, ReadSoFar
  <2>5. page = 0 \/ (Skip(page) \in Nat /\ Skip(page)' = Skip(page))
    BY <1>1, Pages DEF ViewsInv, ReaderInv, ReaderTypes, Skip
  <2>6. ASSUME NEW i \in began, Alone(view, i)',
               page = 0 \/ Cardinality(Newer(view, i))' < Skip(page)'
        PROVE  i \in got
    BY <2>3, <2>4, <2>5, <2>6
  <2> QED BY <1>1, <2>1, <2>4, <2>6 DEF ReadSoFar
<1>7. ReadSoFar'
  BY <1>1, <1>6 DEF ReadSoFar
<1> QED BY <1>4, <1>5, <1>7 DEF ReaderInv

LEMMA ViewsInvStep == ViewsInv /\ [NextViews]_allVars => ViewsInv'
<1> SUFFICES ASSUME ViewsInv, [NextViews]_allVars PROVE ViewsInv'
  OBVIOUS
<1>1. Inv'
  BY StoreInvStep
<1>2. ReaderInv'
  <2>1. CASE UNCHANGED allVars
    <3>1. /\ UNCHANGED <<store, created, view, page, items, got, began, left>>
          /\ List' = List
      BY <2>1 DEF allVars, vars, readerVars, List, InView, Live, Stored
    <3>2. \A i : Newer(view, i)' = Newer(view, i) /\ (Alone(view, i)' <=> Alone(view, i))
                 /\ Skip(page)' = Skip(page)
      BY <3>1 DEF Newer, Alone, Members, Skip, InView, Live, Stored
    <3> QED BY <3>1, <3>2
        DEF ViewsInv, ReaderInv, ReaderTypes, Unread, ReadSoFar, ItemsInv, Follows, Stored
  <2>2. CASE NextViews
    BY <2>2, BeginStep, ReadPageStep, ChangeStep DEF NextViews
  <2> QED BY <2>1, <2>2
<1> QED BY <1>1, <1>2 DEF ViewsInv

LEMMA ViewsInvHolds == SpecViews => []ViewsInv
BY InitViewsInv, ViewsInvStep, PTL DEF SpecViews

-----------------------------------------------------------------------------
\* Who reads a list page by page to its end has seen every event that was in it when
\* the reading began, unless some event has left it, or the event shares its time of
\* creation with another: events that are created or restored meanwhile shift others to
\* later pages only.
THEOREM ReaderMissesNothingHolds == SpecViews => []ReaderMissesNothing
<1>1. ViewsInv => ReaderMissesNothing
  <2> SUFFICES ASSUME ViewsInv, page = 0, ~ left, NEW i \in began, OnlyOneThen(i)
               PROVE  i \in got
    BY DEF ReaderMissesNothing
  <2>1. view # "none"
    BY DEF ViewsInv, ReaderInv, Unread
  <2>2. Alone(view, i)
    BY <2>1 DEF OnlyOneThen, Alone, List, Members
  <2> QED BY <2>1, <2>2 DEF ViewsInv, ReaderInv, ReadSoFar
<1> QED BY <1>1, ViewsInvHolds, PTL

\* As long as an event that a list shows has the version it was shown with, it is eligible
\* at a time just when a request of a user who has none is approved at that time.
THEOREM EligibleIsApprovedHolds == SpecViews => []EligibleIsApproved
<1>1. ViewsInv => EligibleIsApproved
  <2> SUFFICES ASSUME ViewsInv, NEW t \in items, NEW now \in Times,
                      Stored(t.id), store[t.id].version = t.event.version
               PROVE  Eligible(t.event, now) <=> Verdict(t.id, now) = "APPROVED"
    BY DEF EligibleIsApproved
  <2>1. t.event \in Event /\ ~ t.event.deleted /\ store[t.id] = t.event
    BY NoneAssumption DEF ViewsInv, ReaderInv, ItemsInv, Follows
  <2>2. now \in Int /\ t.event.start \in Int /\ t.event.end \in Int
    BY <2>1, TimesAssumption DEF Event
  <2>3. Live(t.id)
    BY <2>1 DEF Live
  <2>4. Eligible(t.event, now) <=> Admitted(t.id, now) /\ ConditionMet(t.event.type)
    BY <2>1, <2>2, <2>3 DEF Eligible, InPeriod, Admitted
  <2>5. Verdict(t.id, now) = "APPROVED" <=>
          Admitted(t.id, now) /\ ConditionMet(t.event.type)
    BY <2>1 DEF Verdict
  <2> QED BY <2>4, <2>5
<1> QED BY <1>1, ViewsInvHolds, PTL

\* What is proved of the store holds while lists are read: the reader's steps leave it
\* alone.
THEOREM StoreWhileRead ==
  SpecViews =>
    /\ [](/\ TypeOK /\ DatesAreOrdered /\ VersionIdentifiesContent
         /\ ConflictShowsNewer /\ RewardsFollowRemovals)
    /\ ImplementsRegister
<1>1. InitViews => Init
  BY DEF InitViews
<1>2. [NextViews]_allVars => [Next]_vars
  BY DEF NextViews, BeginReading, ReadPage, ChangeStore, allVars
<1> QED BY <1>1, <1>2, EventTypes, DatesAreOrderedHolds, VersionIdentifiesContentHolds,
           ConflictShowsNewerHolds, RewardsFollowRemovalsHolds, RegisterImplemented,
           PTL DEF SpecViews, Spec
=============================================================================
