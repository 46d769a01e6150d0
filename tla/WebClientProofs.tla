-------------------------- MODULE WebClientProofs --------------------------
(***************************************************************************)
(* Invariance proofs for WebClient, for every number of tabs, users, names,  *)
(* tables, stocks and clicks. Each of the three parts is taken alone: a step  *)
(* of the browser is a step of the part, the load or the end of its page, or *)
(* none.                                                                    *)
(***************************************************************************)
EXTENDS WebClient, Integers, SequenceTheorems, TLAPS

USE DEF Ids, Nobody, Pages, Missing

SessionStep   == (\E v \in Tabs : Visiting(v)) \/ Expire \/ UNCHANGED session
DashboardStep == LoadMain(cookies'.userid) \/ CloseMain \/ Dashing(cookies.userid) \/ UNCHANGED dashboard
TradeStep     == LoadTrade \/ CloseTrade \/ Trading \/ UNCHANGED tradePage

LEMMA Steps == [Next]_vars => SessionStep /\ DashboardStep /\ TradeStep
<1> SUFFICES ASSUME [Next]_vars PROVE SessionStep /\ DashboardStep /\ TradeStep
  OBVIOUS
<1>1. CASE Navigate
  BY <1>1, HereAssumption DEF Navigate, Arrive, SessionStep, DashboardStep, TradeStep
<1>2. CASE Elsewhere
  BY <1>2 DEF Elsewhere, SessionStep, DashboardStep, TradeStep
<1>3. CASE OnMain
  BY <1>3 DEF OnMain, SessionStep, DashboardStep, TradeStep
<1>4. CASE OnTrade
  BY <1>4 DEF OnTrade, SessionStep, DashboardStep, TradeStep
<1>5. CASE UNCHANGED vars
  BY <1>5 DEF vars, SessionStep, DashboardStep, TradeStep
<1> QED
  BY <1>1, <1>2, <1>3, <1>4, <1>5 DEF Next

\* A sequence without its i-th element: one shorter, and all the others are in it.
LEMMA Removed ==
  ASSUME NEW S, NEW s \in Seq(S), NEW i \in 1..Len(s)
  PROVE  /\ RemoveAt(s, i) \in Seq(S) /\ Len(RemoveAt(s, i)) = Len(s) - 1
         /\ \A j \in 1..Len(s) : j # i => \E k \in 1..Len(RemoveAt(s, i)) : RemoveAt(s, i)[k] = s[j]
<1> DEFINE a == SubSeq(s, 1, i - 1)
           b == SubSeq(s, i + 1, Len(s))
<1>1. a \in Seq(S) /\ b \in Seq(S)
  OBVIOUS
<1>2. Len(a) = i - 1 /\ Len(b) = Len(s) - i
  OBVIOUS
<1>3. /\ \A k \in 1..(i - 1) : a[k] = s[k]
      /\ \A k \in 1..(Len(s) - i) : b[k] = s[i + k]
  OBVIOUS
<1>4. RemoveAt(s, i) = a \o b
  BY DEF RemoveAt
<1> HIDE DEF a, b
<1>5. /\ a \o b \in Seq(S) /\ Len(a \o b) = Len(a) + Len(b)
      /\ \A k \in 1..(Len(a) + Len(b)) : (a \o b)[k] = IF k <= Len(a) THEN a[k] ELSE b[k - Len(a)]
  BY <1>1, ConcatProperties
<1>6. Len(s) \in Nat
  OBVIOUS
<1>7. ASSUME NEW j \in 1..Len(s), j # i PROVE \E k \in 1..Len(a \o b) : (a \o b)[k] = s[j]
  <2>1. CASE j < i
    <3>1. j \in 1..Len(a \o b) /\ (a \o b)[j] = a[j] /\ a[j] = s[j]
      BY <1>2, <1>3, <1>5, <1>6, <1>7, <2>1
    <3> QED
      BY <3>1
  <2>2. CASE j > i
    <3>1. /\ j - 1 \in 1..Len(a \o b) /\ j - i \in 1..(Len(s) - i)
          /\ (a \o b)[j - 1] = b[j - i] /\ b[j - i] = s[i + (j - i)]
      <4>1. j - 1 \in 1..(Len(a) + Len(b)) /\ j - i \in 1..(Len(s) - i)
            /\ ~(j - 1 <= Len(a)) /\ (j - 1) - Len(a) = j - i
        BY <1>2, <1>6, <1>7, <2>2
      <4> QED
        BY <1>3, <1>5, <4>1
    <3>2. i + (j - i) = j
      BY <1>7
    <3> QED
      BY <3>1, <3>2
  <2> QED
    BY <1>7, <2>1, <2>2
<1>8. Len(a \o b) = Len(s) - 1
  BY <1>2, <1>5, <1>6
<1> QED
  BY <1>4, <1>5, <1>7, <1>8

-----------------------------------------------------------------------------
(* Session                                                                  *)

Accounts == [uname : Names, passwd : Passwords, by : Tabs]

\* What a tab has with it while its form is dealt with.
FormOK ==
  \A v \in Tabs :
    /\ visit[v].at \in {"checked", "inserted", "auth"} => visit[v].name \in Names
    /\ visit[v].at = "checked" => visit[v].passwd \in Passwords

SessionInv == SessionTypeOK /\ FormOK

\* Rows of ct_users are inserted and neither changed nor deleted.
Grows == /\ DOMAIN users \subseteq DOMAIN users'
         /\ \A i \in DOMAIN users : users'[i] = users[i]

\* The new row and where it is.
LEMMA Inserted ==
  ASSUME SessionInv, NEW v \in Tabs, InsertUser(v)
  PROVE  /\ users' \in Seq(Accounts) /\ Len(users') = Len(users) + 1 /\ Grows
         /\ Len(users') \in DOMAIN users'
         /\ users'[Len(users')].uname = visit[v].name /\ users'[Len(users')].by = v
<1> DEFINE new == [uname |-> visit[v].name, passwd |-> visit[v].passwd, by |-> v]
<1>1. users \in Seq(Accounts)
  BY DEF SessionInv, SessionTypeOK, Accounts
<1>2. new \in Accounts
  <2>1. visit[v].at = "checked"
    BY DEF InsertUser
  <2>2. visit[v].name \in Names /\ visit[v].passwd \in Passwords
    BY <2>1 DEF SessionInv, FormOK
  <2> QED
    BY <2>2 DEF Accounts
<1>3. users' = Append(users, new)
  BY DEF InsertUser
<1>4. new.uname = visit[v].name /\ new.by = v
  OBVIOUS
<1> HIDE DEF new
<1>5. /\ users' \in Seq(Accounts) /\ Len(users') = Len(users) + 1
      /\ \A i \in 1..Len(users) : users'[i] = users[i]
      /\ users'[Len(users) + 1] = new
  BY <1>1, <1>2, <1>3, AppendProperties
<1>6. Len(users) \in Nat /\ DOMAIN users = 1..Len(users) /\ DOMAIN users' = 1..Len(users')
  BY <1>1, <1>5
<1> QED
  BY <1>4, <1>5, <1>6 DEF Grows

LEMMA UsersKept == ASSUME NEW v \in Tabs, Visiting(v), ~InsertUser(v) PROVE users' = users
<1>1. CASE CheckName(v) \/ FailToInsert(v)
  BY <1>1 DEF CheckName, FailToInsert
<1>2. CASE Registered(v)
  BY <1>2 DEF Registered
<1>3. CASE Login(v)
  BY <1>3 DEF Login
<1>4. CASE Authenticate(v) \/ Open(v) \/ Logout(v)
  BY <1>4 DEF Authenticate, Open, Logout
<1> QED
  BY <1>1, <1>2, <1>3, <1>4 DEF Visiting

LEMMA UsersGrow == ASSUME SessionInv, SessionStep PROVE Grows
<1>1. CASE UNCHANGED users
  BY <1>1 DEF Grows
<1> QED
  BY <1>1, Inserted, UsersKept DEF SessionStep, Expire, session

\* A row found is a row of the table.
LEMMA Found ==
  ASSUME SessionInv, NEW n \in Names, NEW rows_ \in SUBSET Named(n), Single(rows_)
  PROVE  /\ Row(rows_) \in rows_ /\ Row(rows_) \in DOMAIN users /\ Row(rows_) \in Ids
         /\ users[Row(rows_)].uname = n /\ \A i \in rows_ : i = Row(rows_)
<1>1. PICK i \in rows_ : rows_ = {i}
  BY DEF Single
<1>2. Row(rows_) = i
  BY <1>1 DEF Row
<1>3. i \in DOMAIN users /\ users[i].uname = n
  BY <1>1 DEF Named
<1>4. DOMAIN users \subseteq Ids
  <2>0. users \in Seq(Accounts) /\ Len(users) <= MaxUsers
    BY DEF SessionInv, SessionTypeOK, Accounts
  <2>1. DOMAIN users = 1..Len(users) /\ Len(users) \in Nat /\ Len(users) <= MaxUsers
    BY <2>0
  <2> QED
    BY <2>1, UsersAssumption
<1> QED
  BY <1>1, <1>2, <1>3, <1>4

Visits == [at : Pages \union {"checked", "inserted", "auth", "failed"},
           name : Names \union {NoName}, passwd : Passwords \union {"none"}, id : Ids \union {Nobody}]

LEMMA Form ==
  ASSUME NEW a \in {"checked", "auth"}, NEW n \in Names, NEW p \in Passwords \union {"none"},
         NEW i \in Ids \union {Nobody}
  PROVE  /\ [at |-> a, name |-> n, passwd |-> p, id |-> i] \in Visits
         /\ [at |-> a, name |-> n, passwd |-> p, id |-> i].at = a
         /\ [at |-> a, name |-> n, passwd |-> p, id |-> i].name = n
         /\ [at |-> a, name |-> n, passwd |-> p, id |-> i].id = i
<1> DEFINE P == Passwords \union {"none"}
           I == Ids \union {Nobody}
           N == Names \union {NoName}
           A == Pages \union {"checked", "inserted", "auth", "failed"}
<1>1. a \in A /\ n \in N /\ p \in P /\ i \in I
  OBVIOUS
<1>2. Visits = [at : A, name : N, passwd : P, id : I]
  BY DEF Visits
<1> HIDE DEF A, N, P, I
<1> QED
  BY ONLY <1>1, <1>2

\* A step of a tab changes that tab alone.
LEMMA OtherTabs ==
  ASSUME SessionInv, NEW v \in Tabs, Visiting(v)
  PROVE  visit' = [visit EXCEPT ![v] = visit'[v]] /\ \A o \in Tabs \ {v} : visit'[o] = visit[o]
<1>0. visit \in [Tabs -> Visits]
  BY DEF SessionInv, SessionTypeOK, Visits
<1>1. CASE CheckName(v)
  BY <1>0, <1>1 DEF CheckName, GoTo
<1>2. CASE InsertUser(v)
  BY <1>0, <1>2 DEF InsertUser
<1>3. CASE FailToInsert(v) \/ Authenticate(v) \/ Logout(v)
  BY <1>0, <1>3 DEF FailToInsert, Authenticate, Logout, GoTo
<1>4. CASE Registered(v)
  BY <1>0, <1>4 DEF Registered
<1>5. CASE Login(v)
  BY <1>0, <1>5 DEF Login
<1>6. CASE Open(v)
  BY <1>0, <1>6 DEF Open, GoTo
<1> QED
  BY <1>1, <1>2, <1>3, <1>4, <1>5, <1>6 DEF Visiting

\* What a step leaves in its tab: [at, name, passwd, id], and the two cookies.
LEMMA SessionNext == ASSUME SessionInv, SessionStep PROVE SessionInv'
<1>0. /\ visit \in [Tabs -> Visits] /\ users \in Seq(Accounts) /\ Len(users) <= MaxUsers
      /\ cookies \in [username : Names \union {NoName}, userid : Ids \union {Nobody}]
  BY DEF SessionInv, SessionTypeOK, Visits, Accounts
<1> DEFINE Sound(x) == /\ x \in Visits
                       /\ x.at \in {"checked", "inserted", "auth"} => x.name \in Names
                       /\ x.at = "checked" => x.passwd \in Passwords
           CookiesOK == cookies' \in [username : Names \union {NoName}, userid : Ids \union {Nobody}]
           UsersOK == users' \in Seq(Accounts) /\ Len(users') <= MaxUsers
<1>1. \A v \in Tabs : Sound(visit[v])
  BY <1>0 DEF SessionInv, FormOK
<1>2. \A p \in Pages \union {"failed"} : Sound(On(p))
  BY DEF On, Visits
<1>3. \A p \in Pages : Shown(p, cookies.username) \in Pages
  BY DEF Shown
<1>4. ASSUME NEW v \in Tabs, Visiting(v) PROVE Sound(visit'[v]) /\ CookiesOK /\ UsersOK
  <2>0. visit[v] \in Visits /\ Sound(visit[v])
    BY <1>0, <1>1
  <2>1. CASE CheckName(v)
    <3>1. UNCHANGED <<users, cookies>>
      BY <2>1 DEF CheckName
    <3>2. PICK n \in Names, p \in Passwords :
            IF Named(n) # {} THEN GoTo(v, Shown("index", cookies.username))
            ELSE visit' = [visit EXCEPT ![v] = [at |-> "checked", name |-> n, passwd |-> p, id |-> Nobody]]
      BY <2>1 DEF CheckName
    <3>3. CASE Named(n) # {}
      <4>1. visit'[v] = On(Shown("index", cookies.username))
        BY <1>0, <3>2, <3>3 DEF GoTo
      <4> QED
        BY <1>0, <1>2, <1>3, <3>1, <4>1
    <3>4. CASE Named(n) = {}
      <4>1. visit'[v] = [at |-> "checked", name |-> n, passwd |-> p, id |-> Nobody]
        BY <1>0, <3>2, <3>4
      <4>2. visit'[v].at = "checked" /\ visit'[v].name = n /\ visit'[v].passwd = p
        BY ONLY <4>1
      <4>3. [at |-> "checked", name |-> n, passwd |-> p, id |-> Nobody] \in Visits
        BY Form
      <4>4. visit'[v] \in Visits
        BY <4>1, <4>3
      <4> QED
        BY <1>0, <3>1, <3>2, <4>2, <4>4
    <3> QED
      BY <3>3, <3>4
  <2>2. CASE InsertUser(v)
    <3>1. /\ visit'[v].at = "inserted" /\ visit'[v].name = visit[v].name
          /\ visit'[v].passwd = "none" /\ visit'[v].id = visit[v].id /\ visit'[v] \in Visits
          /\ visit[v].at = "checked"
      BY <1>0, <2>0, <2>2 DEF InsertUser, Visits
    <3>2. Sound(visit'[v])
      BY <2>0, <3>1
    <3>3. cookies' = cookies /\ Len(users) < MaxUsers
      BY <2>2 DEF InsertUser
    <3>4. users' \in Seq(Accounts) /\ Len(users') = Len(users) + 1
      BY <2>2, Inserted
    <3>5. Len(users) \in Nat
      BY <1>0
    <3> QED
      BY <1>0, <3>2, <3>3, <3>4, <3>5, UsersAssumption
  <2>3. CASE FailToInsert(v)
    <3>1. visit'[v] = On(Shown("index", cookies.username)) /\ UNCHANGED <<users, cookies>>
      BY <1>0, <2>3 DEF FailToInsert, GoTo
    <3> QED
      BY <1>0, <1>2, <1>3, <3>1
  <2>4. CASE Registered(v)
    <3>1. UNCHANGED <<users, cookies>> /\ visit[v].at = "inserted" /\ visit[v].name \in Names
      BY <2>0, <2>4 DEF Registered
    <3>2. CASE Single(UserByUsername(visit[v].name))
      <4>1. Row(UserByUsername(visit[v].name)) \in Ids
        BY <3>1, <3>2, Found DEF UserByUsername
      <4>2. visit' = [visit EXCEPT ![v].at = "auth", ![v].id = Row(UserByUsername(visit[v].name))]
        BY <2>4, <3>2 DEF Registered
      <4>3. /\ visit'[v].at = "auth" /\ visit'[v].name = visit[v].name /\ visit'[v] \in Visits
        BY <1>0, <2>0, <4>1, <4>2 DEF Visits
      <4> QED
        BY <1>0, <3>1, <4>3
    <3>3. CASE ~Single(UserByUsername(visit[v].name))
      <4>1. visit'[v] = On("failed")
        BY <1>0, <2>4, <3>3 DEF Registered
      <4> QED
        BY <1>0, <1>2, <3>1, <4>1
    <3> QED
      BY <3>2, <3>3
  <2>5. CASE Login(v)
    <3>1. UNCHANGED <<users, cookies>>
      BY <2>5 DEF Login
    <3>2. PICK n \in Names, p \in Passwords :
            visit' = [visit EXCEPT ![v] =
              IF Single(Matching(n, p)) THEN [at |-> "auth", name |-> n, passwd |-> "none", id |-> Row(Matching(n, p))]
              ELSE On("failed")]
      BY <2>5 DEF Login
    <3>3. CASE Single(Matching(n, p))
      <4>1. Row(Matching(n, p)) \in Ids
        BY <3>3, Found DEF Matching
      <4>2. visit'[v] = [at |-> "auth", name |-> n, passwd |-> "none", id |-> Row(Matching(n, p))]
        BY <1>0, <3>2, <3>3
      <4>3. visit'[v].at = "auth" /\ visit'[v].name = n
        BY <4>1, <4>2, Form
      <4>4. [at |-> "auth", name |-> n, passwd |-> "none", id |-> Row(Matching(n, p))] \in Visits
        BY <4>1, Form
      <4>5. visit'[v] \in Visits
        BY <4>2, <4>4
      <4> QED
        BY <1>0, <3>1, <3>2, <4>3, <4>5
    <3>4. CASE ~Single(Matching(n, p))
      <4>1. visit'[v] = On("failed")
        BY <1>0, <3>2, <3>4
      <4> QED
        BY <1>0, <1>2, <3>1, <4>1
    <3> QED
      BY <3>3, <3>4
  <2>6. CASE Authenticate(v)
    <3>1. visit'[v] = On("main") /\ users' = users /\ visit[v].at = "auth"
      BY <1>0, <2>6 DEF Authenticate, GoTo
    <3>2. visit[v].name \in Names \union {NoName} /\ visit[v].id \in Ids \union {Nobody}
      BY <2>0 DEF Visits
    <3>3. CookiesOK
      BY <2>6, <3>2 DEF Authenticate, RedirectId
    <3>4. Sound(visit'[v])
      BY <1>2, <3>1
    <3> QED
      BY <1>0, <3>1, <3>3, <3>4
  <2>7. CASE Open(v)
    <3>1. UNCHANGED <<users, cookies>> /\ \E p \in Pages : visit'[v] = On(Shown(p, cookies.username))
      BY <1>0, <2>7 DEF Open, GoTo
    <3> QED
      BY <1>0, <1>2, <1>3, <3>1
  <2>8. CASE Logout(v)
    <3>1. visit'[v] = On("index") /\ users' = users
      BY <1>0, <2>8 DEF Logout, GoTo
    <3>2. CookiesOK
      BY <1>0, <2>8 DEF Logout
    <3>3. Sound(visit'[v])
      BY <1>2, <3>1
    <3> QED
      BY <1>0, <3>1, <3>2, <3>3
  <2> QED
    BY <1>4, <2>1, <2>2, <2>3, <2>4, <2>5, <2>6, <2>7, <2>8 DEF Visiting
<1>5. ASSUME NEW v \in Tabs, Visiting(v) PROVE SessionInv'
  <2>1. visit' = [visit EXCEPT ![v] = visit'[v]] /\ \A o \in Tabs \ {v} : visit'[o] = visit[o]
    BY <1>5, OtherTabs
  <2>2. Sound(visit'[v]) /\ CookiesOK /\ UsersOK
    BY <1>4, <1>5
  <2>3. visit' \in [Tabs -> Visits]
    BY <1>0, <2>1, <2>2
  <2>4. SessionTypeOK'
    BY <2>2, <2>3 DEF SessionTypeOK, Visits, Accounts
  <2>5. FormOK'
    BY <1>1, <2>1, <2>2 DEF FormOK
  <2> QED
    BY <2>4, <2>5 DEF SessionInv
<1>6. CASE Expire
  <2>1. UNCHANGED <<users, visit>> /\ cookies' = NoCookies
    BY <1>6 DEF Expire
  <2> QED
    BY <2>1 DEF SessionInv, SessionTypeOK, FormOK, NoCookies
<1>7. CASE UNCHANGED session
  BY <1>7 DEF session, SessionInv, SessionTypeOK, FormOK
<1> QED
  BY <1>5, <1>6, <1>7 DEF SessionStep

-----------------------------------------------------------------------------
(* CookiesAgree and OwnRow. What a redirect or the cookies say of a user is    *)
(* the id and name of one row; rows stay what they are, so it remains so.      *)

Known(id, name) == id \in DOMAIN users /\ users[id].uname = name

RedirectsKnown == \A v \in Tabs : visit[v].at = "auth" => Known(visit[v].id, visit[v].name)

\* A tab whose row is in: it is one of those with the name.
RowIsIn ==
  \A v \in Tabs : visit[v].at = "inserted" =>
    \E i \in DOMAIN users : users[i].uname = visit[v].name /\ users[i].by = v

CookiesInv == CookiesAgree /\ RedirectsKnown /\ RowIsIn

LEMMA CookiesNext == ASSUME SessionInv, CookiesInv, SessionStep PROVE CookiesInv'
<1>0. /\ visit \in [Tabs -> Visits] /\ Grows
      /\ CookiesAgree /\ RedirectsKnown /\ RowIsIn
  BY UsersGrow DEF CookiesInv, SessionInv, SessionTypeOK, Visits
<1>1. \A id, name : Known(id, name) => Known(id, name)'
  BY <1>0 DEF Known, Grows
<1>2. \A v \in Tabs : (\E i \in DOMAIN users : users[i].uname = visit[v].name /\ users[i].by = v)
                      => \E i \in DOMAIN users' : users'[i].uname = visit[v].name /\ users'[i].by = v
  BY <1>0 DEF Grows
<1>3. CookiesAgree <=> (cookies.username # NoName => Known(cookies.userid, cookies.username))
  BY DEF CookiesAgree, Known
<1>4. CookiesAgree' <=> (cookies'.username # NoName => Known(cookies.userid, cookies.username)')
  BY DEF CookiesAgree, Known
<1> DEFINE Sound(v) == /\ visit'[v].at = "auth" => Known(visit[v].id, visit[v].name)'
                       /\ visit'[v].at = "inserted" =>
                            \E i \in DOMAIN users' : users'[i].uname = visit'[v].name /\ users'[i].by = v
<1>5. \A v \in Tabs : visit'[v] = visit[v] => Sound(v)
  BY <1>0, <1>1, <1>2 DEF RedirectsKnown, RowIsIn
<1>6. \A p : On(p).at = p
  BY DEF On
<1>7. \A p \in Pages : Shown(p, cookies.username) \in Pages
  BY DEF Shown
<1>8. cookies' = cookies => CookiesAgree'
  BY <1>0, <1>1, <1>3, <1>4
<1>9. ASSUME NEW v \in Tabs, Visiting(v) PROVE Sound(v) /\ CookiesAgree'
  <2>1. CASE CheckName(v)
    <3>1. cookies' = cookies
      BY <2>1 DEF CheckName
    <3>2. visit'[v].at \notin {"auth", "inserted"}
      <4>1. PICK n \in Names, p \in Passwords :
              IF Named(n) # {} THEN GoTo(v, Shown("index", cookies.username))
              ELSE visit' = [visit EXCEPT ![v] = [at |-> "checked", name |-> n, passwd |-> p, id |-> Nobody]]
        BY <2>1 DEF CheckName
      <4>2. CASE Named(n) # {}
        BY <1>0, <1>6, <1>7, <4>1, <4>2 DEF GoTo
      <4>3. CASE Named(n) = {}
        BY <1>0, <4>1, <4>3
      <4> QED
        BY <4>2, <4>3
    <3> QED
      BY <1>8, <3>1, <3>2
  <2>2. CASE InsertUser(v)
    <3>1. cookies' = cookies /\ visit'[v].at = "inserted" /\ visit'[v].name = visit[v].name
      BY <1>0, <2>2 DEF InsertUser, Visits
    <3>2. \E i \in DOMAIN users' : users'[i].uname = visit[v].name /\ users'[i].by = v
      BY <2>2, Inserted
    <3> QED
      BY <1>8, <3>1, <3>2
  <2>3. CASE FailToInsert(v)
    <3>1. cookies' = cookies /\ visit'[v].at \in Pages
      BY <1>0, <1>6, <1>7, <2>3 DEF FailToInsert, GoTo
    <3> QED
      BY <1>8, <3>1
  <2>4. CASE Registered(v)
    <3>1. cookies' = cookies /\ users' = users /\ visit[v].at = "inserted"
      BY <2>4 DEF Registered
    <3>2. CASE Single(UserByUsername(visit[v].name))
      <4> DEFINE row == Row(UserByUsername(visit[v].name))
      <4>1. visit[v].name \in Names
        BY <3>1 DEF SessionInv, FormOK
      <4>2. Known(row, visit[v].name)
        BY <3>2, <4>1, Found DEF UserByUsername, Known
      <4>3. visit' = [visit EXCEPT ![v].at = "auth", ![v].id = row]
        BY <2>4, <3>2 DEF Registered
      <4> HIDE DEF row
      <4>4. visit'[v].at = "auth" /\ visit'[v].id = row /\ visit'[v].name = visit[v].name
        BY <1>0, <4>3 DEF Visits
      <4>5. Known(visit[v].id, visit[v].name)'
        BY <3>1, <4>2, <4>4 DEF Known
      <4> QED
        BY <1>8, <3>1, <4>4, <4>5
    <3>3. CASE ~Single(UserByUsername(visit[v].name))
      <4>1. visit'[v] = On("failed")
        BY <1>0, <2>4, <3>3 DEF Registered
      <4> QED
        BY <1>6, <1>8, <3>1, <4>1
    <3> QED
      BY <3>2, <3>3
  <2>5. CASE Login(v)
    <3>1. cookies' = cookies /\ users' = users
      BY <2>5 DEF Login
    <3>2. PICK n \in Names, p \in Passwords :
            visit' = [visit EXCEPT ![v] =
              IF Single(Matching(n, p)) THEN [at |-> "auth", name |-> n, passwd |-> "none", id |-> Row(Matching(n, p))]
              ELSE On("failed")]
      BY <2>5 DEF Login
    <3>3. CASE Single(Matching(n, p))
      <4>1. Known(Row(Matching(n, p)), n)
        BY <3>3, Found DEF Matching, Known
      <4>2. visit'[v] = [at |-> "auth", name |-> n, passwd |-> "none", id |-> Row(Matching(n, p))]
        BY <1>0, <3>2, <3>3
      <4>3. visit'[v].at = "auth" /\ visit'[v].name = n /\ visit'[v].id = Row(Matching(n, p))
        BY <4>2
      <4>4. Known(visit[v].id, visit[v].name)'
        BY <3>1, <4>1, <4>3 DEF Known
      <4> QED
        BY <1>8, <3>1, <4>3, <4>4
    <3>4. CASE ~Single(Matching(n, p))
      <4>1. visit'[v] = On("failed")
        BY <1>0, <3>2, <3>4
      <4> QED
        BY <1>6, <1>8, <3>1, <4>1
    <3> QED
      BY <3>3, <3>4
  <2>6. CASE Authenticate(v)
    <3>1. visit'[v].at = "main" /\ visit[v].at = "auth"
      BY <1>0, <1>6, <2>6 DEF Authenticate, GoTo
    <3>2. cookies'.username = visit[v].name /\ cookies'.userid = visit[v].id
      BY <2>6 DEF Authenticate, RedirectId
    <3>3. Known(cookies.userid, cookies.username)'
      <4>1. Known(visit[v].id, visit[v].name) /\ users' = users
        BY <1>0, <2>6, <3>1 DEF RedirectsKnown, Authenticate
      <4> QED
        BY <3>2, <4>1 DEF Known
    <3> QED
      BY <1>4, <3>1, <3>3
  <2>7. CASE Open(v)
    <3>1. cookies' = cookies /\ visit'[v].at \in Pages
      BY <1>0, <1>6, <1>7, <2>7 DEF Open, GoTo
    <3> QED
      BY <1>8, <3>1
  <2>8. CASE Logout(v)
    <3>1. cookies'.username = NoName /\ visit'[v].at = "index"
      <4>1. cookies \in [username : Names \union {NoName}, userid : Ids \union {Nobody}]
        BY DEF SessionInv, SessionTypeOK
      <4> QED
        BY <1>0, <1>6, <2>8, <4>1 DEF Logout, GoTo
    <3> QED
      BY <1>4, <3>1
  <2> QED
    BY <1>9, <2>1, <2>2, <2>3, <2>4, <2>5, <2>6, <2>7, <2>8 DEF Visiting
<1>10. ASSUME \A v \in Tabs : Sound(v) PROVE RedirectsKnown' /\ RowIsIn'
  BY <1>10 DEF RedirectsKnown, RowIsIn, Known
<1>11. ASSUME NEW v \in Tabs, Visiting(v) PROVE CookiesInv'
  <2>1. \A o \in Tabs \ {v} : visit'[o] = visit[o]
    BY <1>11, OtherTabs
  <2>2. \A o \in Tabs : Sound(o)
    BY <1>5, <1>9, <1>11, <2>1
  <2> QED
    BY <1>9, <1>10, <1>11, <2>2 DEF CookiesInv
<1>12. CASE Expire
  <2>1. cookies'.username = NoName /\ visit' = visit
    BY <1>12 DEF Expire, NoCookies
  <2>2. \A o \in Tabs : Sound(o)
    BY <1>5, <2>1
  <2> QED
    BY <1>4, <1>10, <2>1, <2>2 DEF CookiesInv
<1>13. CASE UNCHANGED session
  <2>1. \A o \in Tabs : Sound(o)
    BY <1>5, <1>13 DEF session
  <2> QED
    BY <1>8, <1>10, <1>13, <2>1 DEF CookiesInv, session
<1> QED
  BY <1>11, <1>12, <1>13 DEF SessionStep

\* A tab that is sent to auth.html after a registration is sent there with the
\* row it has inserted: if any other tab's had the name as well, it is not sent.
LEMMA RegisteredOwnRow ==
  ASSUME SessionInv, RowIsIn, NEW v \in Tabs, Registered(v), visit'[v].at = "auth"
  PROVE  users[visit'[v].id].by = v
<1> DEFINE rows_ == UserByUsername(visit[v].name)
<1>0. visit \in [Tabs -> Visits]
  BY DEF SessionInv, SessionTypeOK, Visits
<1>1. visit[v].at = "inserted" /\ visit[v].name \in Names
  BY DEF Registered, SessionInv, FormOK
<1>2. PICK i \in DOMAIN users : users[i].uname = visit[v].name /\ users[i].by = v
  BY <1>1 DEF RowIsIn
<1>3. CASE Single(rows_)
  <2>1. i \in rows_
    BY <1>2 DEF UserByUsername, Named
  <2>2. i = Row(rows_)
    BY <1>1, <1>3, <2>1, Found DEF UserByUsername
  <2>3. visit' = [visit EXCEPT ![v].at = "auth", ![v].id = Row(rows_)]
    BY <1>3 DEF Registered
  <2> HIDE DEF rows_
  <2>4. visit'[v].id = Row(rows_)
    BY <1>0, <2>3 DEF Visits
  <2> QED
    BY <1>2, <2>2, <2>4
<1>4. CASE ~Single(rows_)
  <2>1. visit'[v] = On("failed")
    BY <1>0, <1>4 DEF Registered
  <2> QED
    BY <2>1 DEF On
<1> QED
  BY <1>3, <1>4

LEMMA InitSession == Init => SessionInv /\ CookiesInv
<1> SUFFICES ASSUME Init PROVE SessionInv /\ CookiesInv
  OBVIOUS
<1>1. /\ users = <<>> /\ cookies = NoCookies
      /\ visit = [v \in Tabs |-> [at |-> "index", name |-> NoName, passwd |-> "none", id |-> 0]]
  BY DEF Init, SessionInit, On
<1>2. SessionTypeOK
  BY <1>1, UsersAssumption DEF SessionTypeOK, NoCookies
<1>3. \A v \in Tabs : visit[v].at = "index"
  BY <1>1
<1>4. cookies.username = NoName
  BY <1>1 DEF NoCookies
<1> QED
  BY <1>2, <1>3, <1>4 DEF SessionInv, FormOK, CookiesInv, CookiesAgree, RedirectsKnown, RowIsIn

\* However the tabs' requests, logins, logouts and the expiry interleave: while
\* there is a username cookie, the userid cookie is the id of a row of that name.
THEOREM CookiesFit == Spec => []CookiesAgree
<1>1. Init => SessionInv /\ CookiesInv
  BY InitSession
<1>2. SessionInv /\ CookiesInv /\ [Next]_vars => SessionInv' /\ CookiesInv'
  BY Steps, SessionNext, CookiesNext
<1>3. CookiesInv => CookiesAgree
  BY DEF CookiesInv
<1> QED
  BY <1>1, <1>2, <1>3, PTL DEF Spec

\* A registration that logs its tab in does so as the user it has inserted,
\* however many tabs register the same name at once.
THEOREM RegisteredAsOneself == Spec => OwnRow
<1> DEFINE A == \A v \in Tabs : Registered(v) /\ visit'[v].at = "auth" => users[visit'[v].id].by = v
<1>1. Init => SessionInv /\ CookiesInv
  BY InitSession
<1>2. SessionInv /\ CookiesInv /\ [Next]_vars => SessionInv' /\ CookiesInv'
  BY Steps, SessionNext, CookiesNext
<1>3. SessionInv /\ CookiesInv /\ [Next]_vars => [A]_session
  BY RegisteredOwnRow DEF CookiesInv
<1> QED
  BY <1>1, <1>2, <1>3, PTL DEF Spec, OwnRow

-----------------------------------------------------------------------------
(* Dashboard: NeverReinitialised. A table in the page has a request under way  *)
(* or is a live DataTable, not both: the refresh that adds a second request    *)
(* destroys the table a second time, which takes it out of the page.          *)

TableStates == [inPage : BOOLEAN, live : BOOLEAN,
                handle : {"undefined", "table", "empty"}, missed : BOOLEAN]

\* x is the table and n the number of its requests under way.
TableOK(x, n) ==
  /\ x.inPage => n = 0 \/ (n = 1 /\ ~x.live)
  /\ x.live => x.inPage /\ x.handle = "table"
  /\ x.handle = "empty" => ~x.inPage

AskedOK ==
  /\ table \in [Tables -> TableStates] /\ asked \in [Tables -> Seq(Nat)]
  /\ \A t \in Tables : TableOK(table[t], Len(asked[t]))

DashboardInv == DashboardTypeOK /\ AskedOK /\ NeverReinitialised

\* What a refresh and an answer do to one table.
LEMMA DestroyedOK ==
  ASSUME NEW x \in TableStates, NEW n \in Nat, TableOK(x, n), x.handle # "undefined"
  PROVE  /\ [Destroyed(x) EXCEPT !.missed = FALSE] \in TableStates
         /\ TableOK([Destroyed(x) EXCEPT !.missed = FALSE], n + 1)
<1> DEFINE y == [Destroyed(x) EXCEPT !.missed = FALSE]
<1> SUFFICES y \in TableStates /\ TableOK(y, n + 1)
  OBVIOUS
<1>0. x.handle \in {"table", "empty"} /\ x.inPage \in BOOLEAN /\ x.live \in BOOLEAN
  BY DEF TableStates
<1>1. CASE x.handle = "empty"
  <2>1. Destroyed(x) = x
    BY <1>1 DEF Destroyed
  <2>2. y \in TableStates /\ y.inPage = x.inPage /\ y.live = x.live /\ y.handle = x.handle
    BY <2>1 DEF TableStates
  <2> HIDE DEF y
  <2> QED
    BY <1>1, <2>2 DEF TableOK
<1>2. CASE x.handle = "table" /\ x.live
  <2>1. Destroyed(x) = [x EXCEPT !.live = FALSE]
    BY <1>2 DEF Destroyed
  <2>2. y \in TableStates /\ y.inPage = x.inPage /\ y.live = FALSE /\ y.handle = x.handle
    BY <2>1 DEF TableStates
  <2>3. n = 0 /\ x.inPage
    BY <1>2 DEF TableOK
  <2>4. n + 1 = 1
    BY <2>3
  <2> HIDE DEF y
  <2> QED
    BY <1>2, <2>2, <2>3, <2>4 DEF TableOK
<1>3. CASE x.handle = "table" /\ ~x.live
  <2>1. Destroyed(x) = [x EXCEPT !.inPage = FALSE]
    BY <1>3 DEF Destroyed
  <2>2. y \in TableStates /\ y.inPage = FALSE /\ y.live = x.live /\ y.handle = x.handle
    BY <2>1 DEF TableStates
  <2> HIDE DEF y
  <2> QED
    BY <1>3, <2>2 DEF TableOK
<1> QED
  BY <1>0, <1>1, <1>2, <1>3

LEMMA MadeOK ==
  ASSUME NEW x \in TableStates, NEW n \in Nat, TableOK(x, n), n > 0
  PROVE  Made(x) \in TableStates /\ TableOK(Made(x), n - 1) /\ ~(x.inPage /\ x.live)
<1>0. ~(x.inPage /\ x.live)
  BY DEF TableOK
<1>1. CASE x.inPage
  <2>1. Made(x) = [x EXCEPT !.live = TRUE, !.handle = "table"]
    BY <1>1 DEF Made
  <2>2. Made(x) \in TableStates /\ Made(x).inPage = x.inPage /\ Made(x).live = TRUE /\ Made(x).handle = "table"
    BY <2>1 DEF TableStates
  <2>3. n - 1 = 0
    BY <1>1 DEF TableOK
  <2> QED
    BY <1>0, <1>1, <2>2, <2>3 DEF TableOK
<1>2. CASE ~x.inPage
  <2>1. Made(x) = [x EXCEPT !.handle = "empty"]
    BY <1>2 DEF Made
  <2>2. Made(x) \in TableStates /\ Made(x).inPage = x.inPage /\ Made(x).live = x.live /\ Made(x).handle = "empty"
    BY <2>1 DEF TableStates
  <2>3. ~x.live
    BY <1>2 DEF TableOK
  <2> QED
    BY <1>0, <1>2, <2>2, <2>3 DEF TableOK
<1> QED
  BY <1>1, <1>2

\* A page load, or the end of one: a table has one request under way, or none.
LEMMA FreshOK ==
  ASSUME NEW a \in Seq(Nat), Len(a) = 0 \/ Len(a) = 1, Closed, asked' = [t \in Tables |-> a]
  PROVE  AskedOK'
<1>1. /\ Fresh \in TableStates /\ Fresh.inPage = TRUE /\ Fresh.live = FALSE /\ Fresh.handle = "undefined"
  BY DEF Fresh, TableStates
<1>2. TableOK(Fresh, Len(a))
  BY <1>1 DEF TableOK
<1>3. table' = [t \in Tables |-> Fresh]
  BY DEF Closed
<1> HIDE DEF Fresh
<1>4. \A t \in Tables : table'[t] = Fresh /\ asked'[t] = a
  BY <1>3
<1> QED
  BY <1>1, <1>2, <1>3, <1>4 DEF AskedOK

LEMMA ClosedOK ==
  ASSUME AskedOK', Closed, timer' \in {"none", "message", "hover"}, due' \subseteq {"message", "hover"}
  PROVE  DashboardInv'
<1>1. rows' \in [Tables -> Seq(Nat)]
  BY DEF Closed
<1>2. clicks' \in 0..MaxClicks
  BY ClicksAssumption DEF Closed
<1>3. alerted' = FALSE /\ hovering' = FALSE /\ fetched' = FALSE
  BY DEF Closed
<1>4. table' \in [Tables -> TableStates] /\ asked' \in [Tables -> Seq(Nat)]
  BY DEF AskedOK
<1>5. DashboardTypeOK'
  BY <1>1, <1>2, <1>3, <1>4 DEF DashboardTypeOK, TableStates
<1> QED
  BY <1>3, <1>5 DEF DashboardInv, NeverReinitialised

LEMMA LoadedOK ==
  ASSUME cookies'.userid \in Nat, LoadMain(cookies'.userid) \/ CloseMain
  PROVE  DashboardInv'
<1>1. CASE LoadMain(cookies'.userid)
  <2>1. <<cookies'.userid>> \in Seq(Nat) /\ Len(<<cookies'.userid>>) = 1
    OBVIOUS
  <2>2. AskedOK'
    BY <1>1, <2>1, FreshOK DEF LoadMain
  <2> QED
    BY <1>1, <2>2, ClosedOK DEF LoadMain
<1>2. CASE CloseMain
  <2>1. <<>> \in Seq(Nat) /\ Len(<<>>) = 0
    OBVIOUS
  <2>2. AskedOK'
    BY <1>2, <2>1, FreshOK DEF CloseMain
  <2> QED
    BY <1>2, <2>2, ClosedOK DEF CloseMain
<1> QED
  BY <1>1, <1>2

\* A step on the page: a table and its requests, or the timeouts.
LEMMA TableStep ==
  ASSUME DashboardInv, cookies.userid \in Nat, NEW t \in Tables,
         Refresh(t, cookies.userid) \/ Rows(t) \/ NoRows(t)
  PROVE  DashboardInv'
<1>0. /\ table \in [Tables -> TableStates] /\ asked \in [Tables -> Seq(Nat)] /\ rows \in [Tables -> Seq(Nat)]
      /\ \A u \in Tables : TableOK(table[u], Len(asked[u]))
      /\ table[t] \in TableStates /\ asked[t] \in Seq(Nat) /\ rows[t] \in Seq(Nat)
      /\ Len(asked[t]) \in Nat /\ ~alerted /\ clicks \in 0..MaxClicks
  BY DEF DashboardInv, AskedOK, NeverReinitialised, DashboardTypeOK
<1> DEFINE T == table'[t]
           A == asked'[t]
<1>1. ASSUME table' = [table EXCEPT ![t] = T], asked' = [asked EXCEPT ![t] = A],
             T \in TableStates, A \in Seq(Nat), TableOK(T, Len(A))
      PROVE  AskedOK'
  <2>1. \A u \in Tables \ {t} : table'[u] = table[u] /\ asked'[u] = asked[u]
    BY <1>0, <1>1
  <2>2. table' \in [Tables -> TableStates] /\ asked' \in [Tables -> Seq(Nat)]
    BY <1>0, <1>1
  <2> QED
    BY <1>0, <1>1, <2>1, <2>2 DEF AskedOK
<1>2. CASE Refresh(t, cookies.userid)
  <2>1. T = [Destroyed(table[t]) EXCEPT !.missed = FALSE] /\ A = Append(asked[t], cookies.userid)
    BY <1>0, <1>2 DEF Refresh
  <2>2. T \in TableStates /\ TableOK(T, Len(asked[t]) + 1)
    BY <1>0, <1>2, <2>1, DestroyedOK DEF Refresh
  <2>3. A \in Seq(Nat) /\ Len(A) = Len(asked[t]) + 1
    BY <1>0, <2>1, AppendProperties
  <2>4. AskedOK'
    <3>1. table' = [table EXCEPT ![t] = T] /\ asked' = [asked EXCEPT ![t] = A]
      BY <1>0, <1>2 DEF Refresh
    <3> QED
      BY <1>1, <2>2, <2>3, <3>1
  <2>5. clicks' \in 0..MaxClicks
    BY <1>0, <1>2, ClicksAssumption DEF Refresh
  <2> QED
    BY <1>2, <2>4, <2>5 DEF Refresh, timeouts, DashboardInv, DashboardTypeOK, AskedOK, TableStates,
       NeverReinitialised
<1>3. CASE Rows(t)
  <2>1. PICK i \in DOMAIN asked[t] :
          /\ asked[t][i] # Missing
          /\ asked' = [asked EXCEPT ![t] = RemoveAt(@, i)]
          /\ rows' = IF table[t].inPage THEN [rows EXCEPT ![t] = Append(@, asked[t][i])] ELSE rows
    BY <1>3 DEF Rows
  <2>2. i \in 1..Len(asked[t]) /\ Len(asked[t]) > 0 /\ asked[t][i] \in Nat
    BY <1>0, <2>1
  <2>3. A = RemoveAt(asked[t], i) /\ asked' = [asked EXCEPT ![t] = A]
    BY <1>0, <2>1
  <2>4. A \in Seq(Nat) /\ Len(A) = Len(asked[t]) - 1
    BY <1>0, <2>2, <2>3, Removed
  <2>5. T = Made(table[t]) /\ table' = [table EXCEPT ![t] = T]
    BY <1>0, <1>3 DEF Rows
  <2>6. T \in TableStates /\ TableOK(T, Len(asked[t]) - 1) /\ ~(table[t].inPage /\ table[t].live)
    BY <1>0, <2>2, <2>5, MadeOK
  <2>7. AskedOK'
    BY <1>1, <2>3, <2>4, <2>5, <2>6
  <2>8. ~alerted' /\ alerted' \in BOOLEAN
    BY <1>0, <1>3, <2>6 DEF Rows
  <2>9. rows' \in [Tables -> Seq(Nat)]
    <3>1. Append(rows[t], asked[t][i]) \in Seq(Nat)
      BY <1>0, <2>2, AppendProperties
    <3> QED
      BY <1>0, <2>1, <3>1
  <2> QED
    BY <1>3, <2>7, <2>8, <2>9 DEF Rows, timeouts, DashboardInv, DashboardTypeOK, AskedOK, TableStates,
       NeverReinitialised
<1>4. CASE NoRows(t)
  <2>1. PICK i \in DOMAIN asked[t] : asked' = [asked EXCEPT ![t] = RemoveAt(@, i)]
    BY <1>4 DEF NoRows
  <2>2. i \in 1..Len(asked[t]) /\ Len(asked[t]) > 0
    BY <1>0, <2>1
  <2>3. A = RemoveAt(asked[t], i) /\ asked' = [asked EXCEPT ![t] = A]
    BY <1>0, <2>1
  <2>4. A \in Seq(Nat) /\ Len(A) = Len(asked[t]) - 1
    BY <1>0, <2>2, <2>3, Removed
  <2>5. T = [table[t] EXCEPT !.missed = TRUE] /\ table' = [table EXCEPT ![t] = T]
    BY <1>0, <1>4 DEF NoRows
  <2>6. /\ T \in TableStates /\ T.inPage = table[t].inPage /\ T.live = table[t].live
        /\ T.handle = table[t].handle
    BY <1>0, <2>5 DEF TableStates
  <2>7. TableOK(T, Len(A))
    <3>1. TableOK(table[t], Len(asked[t])) /\ Len(A) \in Nat
      BY <1>0, <2>4
    <3> HIDE DEF T, A
    <3> QED
      BY <1>0, <2>2, <2>4, <2>6, <3>1 DEF TableOK
  <2>8. AskedOK'
    BY <1>1, <2>3, <2>4, <2>5, <2>6, <2>7
  <2> QED
    BY <1>4, <2>8 DEF NoRows, timeouts, DashboardInv, DashboardTypeOK, AskedOK, TableStates,
       NeverReinitialised
<1> QED
  BY <1>2, <1>3, <1>4

LEMMA TimeoutStep ==
  ASSUME DashboardInv, EnterRow \/ LeaveRow \/ ShowGraph \/ GetMessage PROVE DashboardInv'
<1>1. UNCHANGED <<table, rows, asked, clicks, alerted>>
  BY DEF EnterRow, LeaveRow, ShowGraph, GetMessage, tables
<1>2. AskedOK' /\ NeverReinitialised'
  BY <1>1 DEF DashboardInv, AskedOK, NeverReinitialised
<1>3. /\ timer' \in {"none", "message", "hover"} /\ due' \subseteq {"message", "hover"}
      /\ hovering' \in BOOLEAN /\ fetched' \in BOOLEAN
  <2>1. /\ timer \in {"none", "message", "hover"} /\ due \subseteq {"message", "hover"}
        /\ hovering \in BOOLEAN /\ fetched \in BOOLEAN
    BY DEF DashboardInv, DashboardTypeOK
  <2>2. CASE EnterRow
    BY <2>1, <2>2 DEF EnterRow, Remembered
  <2>3. CASE LeaveRow
    BY <2>1, <2>3 DEF LeaveRow
  <2>4. CASE ShowGraph
    BY <2>1, <2>4 DEF ShowGraph
  <2>5. CASE GetMessage
    BY <2>1, <2>5 DEF GetMessage
  <2> QED
    BY <2>2, <2>3, <2>4, <2>5
<1> QED
  BY <1>1, <1>2, <1>3 DEF DashboardInv, DashboardTypeOK

LEMMA DashboardNext ==
  ASSUME DashboardInv, cookies.userid \in Nat, cookies'.userid \in Nat, DashboardStep
  PROVE  DashboardInv'
<1>1. CASE UNCHANGED dashboard
  BY <1>1 DEF dashboard, DashboardInv, DashboardTypeOK, AskedOK, NeverReinitialised
<1> QED
  BY <1>1, LoadedOK, TableStep, TimeoutStep DEF DashboardStep, Dashing

LEMMA InitDashboard == Init => DashboardInv
<1> SUFFICES ASSUME Init PROVE DashboardInv
  OBVIOUS
<1>1. /\ Fresh \in TableStates /\ Fresh.inPage = TRUE /\ Fresh.live = FALSE /\ Fresh.handle = "undefined"
  BY DEF Fresh, TableStates
<1>2. <<>> \in Seq(Nat) /\ Len(<<>>) = 0
  OBVIOUS
<1>3. TableOK(Fresh, Len(<<>>))
  BY <1>1, <1>2 DEF TableOK
<1> HIDE DEF Fresh
<1>4. \A t \in Tables : table[t] = Fresh /\ asked[t] = <<>>
  BY DEF Init, DashboardInit
<1>5. AskedOK
  BY <1>1, <1>2, <1>3, <1>4 DEF Init, DashboardInit, AskedOK
<1> QED
  <2>1. rows \in [Tables -> Seq(Nat)] /\ clicks \in 0..MaxClicks
    BY ClicksAssumption DEF Init, DashboardInit
  <2>2. /\ alerted = FALSE /\ hovering = FALSE /\ fetched = FALSE
        /\ timer = "none" /\ due = {}
    BY DEF Init, DashboardInit
  <2>3. DashboardTypeOK
    BY <1>5, <2>1, <2>2 DEF DashboardTypeOK, AskedOK, TableStates
  <2> QED
    BY <1>5, <2>2, <2>3 DEF DashboardInv, NeverReinitialised

LEMMA UserId == SessionInv => cookies.userid \in Nat
  BY UsersAssumption DEF SessionInv, SessionTypeOK

\* However early and often the refresh icon is clicked and in whatever order
\* the requests are answered, no DataTable is made of one that is live.
THEOREM NoReinitialisation == Spec => []NeverReinitialised
<1>1. Init => SessionInv /\ DashboardInv
  BY InitSession, InitDashboard
<1>2. SessionInv /\ DashboardInv /\ [Next]_vars => SessionInv' /\ DashboardInv'
  <2> SUFFICES ASSUME SessionInv, DashboardInv, [Next]_vars PROVE SessionInv' /\ DashboardInv'
    OBVIOUS
  <2>1. SessionInv'
    BY Steps, SessionNext
  <2>2. cookies.userid \in Nat
    BY UserId
  <2>3. cookies'.userid \in Nat
    BY <2>1, UsersAssumption DEF SessionInv, SessionTypeOK
  <2> QED
    BY <2>1, <2>2, <2>3, Steps, DashboardNext
<1>3. DashboardInv => NeverReinitialised
  BY DEF DashboardInv
<1> QED
  BY <1>1, <1>2, <1>3, PTL DEF Spec

-----------------------------------------------------------------------------
(* TradePage: ChartSettled. The prices of the page's stock are in the chart or *)
(* on their way, and whichever answer comes last puts the page's stock on top. *)

Charts == [title : Stocks \union {NoStock}, data : SUBSET Stocks]

OnItsWay ==
  ~failed /\ (graphs # <<>> \/ chart # NoChart) =>
    stockName \in chart.data \/ \E i \in 1..Len(graphs) : graphs[i] = stockName

TopIsRight == graphs = <<>> /\ chart # NoChart => failed \/ chart.title = stockName

TradeInv == TradeTypeOK /\ OnItsWay /\ TopIsRight

LEMMA TradeNext == ASSUME TradeInv, TradeStep PROVE TradeInv'
<1>0. /\ stockName \in Stocks /\ listed \in BOOLEAN
      /\ graphs \in Seq(Stocks) /\ quotes \in Seq(Stocks) /\ chart \in Charts
      /\ details \in Stocks \union {NoStock} /\ blurs \in 0..MaxBlurs /\ failed \in BOOLEAN
      /\ OnItsWay /\ TopIsRight
  BY DEF TradeInv, TradeTypeOK, Charts
<1>1. ASSUME Cleared, graphs' \in Seq(Stocks), quotes' \in Seq(Stocks),
             graphs' # <<>> => \E i \in 1..Len(graphs') : graphs'[i] = DefaultStock
      PROVE  TradeInv'
  <2>1. /\ stockName' = DefaultStock /\ listed' = FALSE /\ chart' = NoChart
        /\ details' = NoStock /\ blurs' = 0 /\ failed' = FALSE
    BY <1>1 DEF Cleared
  <2>2. TradeTypeOK'
    <3>1. NoChart \in Charts /\ 0 \in 0..MaxBlurs
      BY BlursAssumption DEF NoChart, Charts
    <3> QED
      BY <1>1, <2>1, <3>1, StocksAssumption DEF TradeTypeOK, Charts
  <2>3. OnItsWay' /\ TopIsRight'
    BY <1>1, <2>1 DEF OnItsWay, TopIsRight
  <2> QED
    BY <2>2, <2>3 DEF TradeInv
<1>2. CASE LoadTrade
  <2>1. <<DefaultStock>> \in Seq(Stocks) /\ <<DefaultStock>>[1] = DefaultStock /\ Len(<<DefaultStock>>) = 1
    BY StocksAssumption
  <2>2. graphs' # <<>> => \E i \in 1..Len(graphs') : graphs'[i] = DefaultStock
    BY <1>2, <2>1 DEF LoadTrade
  <2> QED
    BY <1>1, <1>2, <2>1, <2>2 DEF LoadTrade
<1>3. CASE CloseTrade
  <2>1. graphs' = <<>> /\ quotes' = graphs'
    BY <1>3 DEF CloseTrade
  <2>2. graphs' \in Seq(Stocks)
    BY <2>1
  <2>3. quotes' \in Seq(Stocks)
    BY <2>1, <2>2
  <2>4. graphs' # <<>> => \E i \in 1..Len(graphs') : graphs'[i] = DefaultStock
    BY <2>1
  <2>5. Cleared
    BY <1>3 DEF CloseTrade
  <2> QED
    BY <1>1, <2>2, <2>3, <2>4, <2>5, Zenon
<1>4. CASE ListStocks
  BY <1>0, <1>4 DEF ListStocks, TradeInv, TradeTypeOK, OnItsWay, TopIsRight, Charts
<1>5. ASSUME NEW s \in Stocks, Blur(s) PROVE TradeInv'
  <2>1. /\ stockName' = s /\ graphs' = Append(graphs, s) /\ quotes' = Append(quotes, s)
        /\ UNCHANGED <<listed, chart, details, failed>>
    BY <1>5 DEF Blur, Entered
  <2>2. /\ graphs' \in Seq(Stocks) /\ quotes' \in Seq(Stocks)
        /\ Len(graphs') = Len(graphs) + 1 /\ graphs'[Len(graphs) + 1] = s
    BY <1>0, <2>1, AppendProperties
  <2>3. Len(graphs) \in Nat /\ graphs' # <<>> /\ Len(graphs) + 1 \in 1..Len(graphs')
    <3>1. Len(graphs) \in Nat
      BY <1>0
    <3> QED
      BY <2>2, <3>1
  <2>4. blurs' \in 0..MaxBlurs
    BY <1>0, <1>5, BlursAssumption DEF Blur
  <2>5. TradeTypeOK'
    BY <1>0, <2>1, <2>2, <2>4 DEF TradeTypeOK, Charts
  <2>6. OnItsWay' /\ TopIsRight'
    BY <2>1, <2>2, <2>3 DEF OnItsWay, TopIsRight
  <2> QED
    BY <2>5, <2>6 DEF TradeInv
<1>6. CASE DrawChart
  <2>1. PICK i \in DOMAIN graphs :
          /\ graphs' = RemoveAt(graphs, i)
          /\ chart' = [title |-> stockName, data |-> chart.data \union {graphs[i]}]
    BY <1>6 DEF DrawChart, TitleOf
  <2>2. i \in 1..Len(graphs) /\ graphs[i] \in Stocks /\ chart.data \subseteq Stocks
    BY <1>0, <2>1 DEF Charts
  <2>3. chart' \in Charts /\ chart'.title = stockName /\ chart'.data = chart.data \union {graphs[i]}
    BY <1>0, <2>1, <2>2 DEF Charts
  <2>4. /\ graphs' \in Seq(Stocks)
        /\ \A j \in 1..Len(graphs) : j # i => \E k \in 1..Len(graphs') : graphs'[k] = graphs[j]
    BY <1>0, <2>1, <2>2, Removed
  <2>5. UNCHANGED <<stockName, listed, quotes, details, blurs, failed>>
    BY <1>6 DEF DrawChart
  <2>6. TradeTypeOK'
    BY <1>0, <2>3, <2>4, <2>5 DEF TradeTypeOK, Charts
  <2>7. TopIsRight'
    BY <2>3, <2>5 DEF TopIsRight
  <2>8. OnItsWay'
    <3> SUFFICES ASSUME ~failed
                 PROVE  stockName \in chart'.data \/ \E k \in 1..Len(graphs') : graphs'[k] = stockName
      BY <2>5 DEF OnItsWay
    <3>1. graphs # <<>>
      BY <1>0, <2>2
    <3>2. stockName \in chart.data \/ \E j \in 1..Len(graphs) : graphs[j] = stockName
      BY <1>0, <3>1 DEF OnItsWay
    <3>3. ASSUME NEW j \in 1..Len(graphs), graphs[j] = stockName
          PROVE  stockName \in chart'.data \/ \E k \in 1..Len(graphs') : graphs'[k] = stockName
      BY <2>3, <2>4, <3>3
    <3> QED
      BY <2>3, <3>2, <3>3
  <2> QED
    BY <2>6, <2>7, <2>8 DEF TradeInv
<1>7. CASE FailToDraw
  <2>1. PICK i \in DOMAIN graphs : graphs' = RemoveAt(graphs, i)
    BY <1>7 DEF FailToDraw
  <2>2. graphs' \in Seq(Stocks)
    BY <1>0, <2>1, Removed
  <2>3. failed' = TRUE /\ UNCHANGED <<stockName, listed, quotes, chart, details, blurs>>
    BY <1>7 DEF FailToDraw
  <2>4. TradeTypeOK'
    BY <1>0, <2>2, <2>3 DEF TradeTypeOK, Charts
  <2> QED
    BY <2>3, <2>4 DEF TradeInv, OnItsWay, TopIsRight
<1>8. CASE ShowDetails
  <2>1. PICK i \in DOMAIN quotes : quotes' = RemoveAt(quotes, i) /\ details' = quotes[i]
    BY <1>8 DEF ShowDetails
  <2>2. quotes' \in Seq(Stocks) /\ details' \in Stocks
    BY <1>0, <2>1, Removed
  <2>3. UNCHANGED <<stockName, listed, graphs, chart, blurs, failed>>
    BY <1>8 DEF ShowDetails
  <2>4. TradeTypeOK'
    BY <1>0, <2>2, <2>3 DEF TradeTypeOK, Charts
  <2>5. OnItsWay' /\ TopIsRight'
    BY <1>0, <2>3 DEF OnItsWay, TopIsRight
  <2> QED
    BY <2>4, <2>5 DEF TradeInv
<1>9. CASE UNCHANGED tradePage
  BY <1>0, <1>9 DEF tradePage, TradeInv, TradeTypeOK, OnItsWay, TopIsRight, Charts
<1> QED
  BY <1>2, <1>3, <1>4, <1>5, <1>6, <1>7, <1>8, <1>9 DEF TradeStep, Trading

LEMMA InitTrade == Init => TradeInv
<1> SUFFICES ASSUME Init PROVE TradeInv
  OBVIOUS
<1>1. NoChart \in Charts /\ 0 \in 0..MaxBlurs /\ <<>> \in Seq(Stocks)
  BY BlursAssumption DEF NoChart, Charts
<1>2. TradeTypeOK
  BY <1>1, StocksAssumption DEF Init, TradeInit, TradeTypeOK, Charts
<1>3. OnItsWay /\ TopIsRight
  BY DEF Init, TradeInit, OnItsWay, TopIsRight
<1> QED
  BY <1>2, <1>3 DEF TradeInv

\* Whatever order the answers come in: once all are there, the chart is headed
\* by the stock the page is about and has its prices.
THEOREM ChartRight == Spec => []ChartSettled
<1>1. Init => TradeInv
  BY InitTrade
<1>2. TradeInv /\ [Next]_vars => TradeInv'
  BY Steps, TradeNext
<1>3. TradeInv => ChartSettled
  <2> SUFFICES ASSUME TradeInv, graphs = <<>>, chart # NoChart, ~failed
               PROVE  chart.title = stockName /\ stockName \in chart.data
    BY DEF ChartSettled
  <2>1. Len(graphs) = 0
    OBVIOUS
  <2>2. stockName \in chart.data
    BY <2>1 DEF TradeInv, OnItsWay
  <2> QED
    BY <2>2 DEF TradeInv, TopIsRight
<1> QED
  BY <1>1, <1>2, <1>3, PTL DEF Spec

-----------------------------------------------------------------------------
\* The three parts' variables keep their types.
THEOREM TypeCorrect == Spec => []TypeOK
<1>1. Init => SessionInv /\ DashboardInv /\ TradeInv
  BY InitSession, InitDashboard, InitTrade
<1>2. SessionInv /\ DashboardInv /\ TradeInv /\ [Next]_vars => SessionInv' /\ DashboardInv' /\ TradeInv'
  <2> SUFFICES ASSUME SessionInv, DashboardInv, TradeInv, [Next]_vars
               PROVE  SessionInv' /\ DashboardInv' /\ TradeInv'
    OBVIOUS
  <2>1. SessionInv' /\ TradeInv'
    BY Steps, SessionNext, TradeNext
  <2>2. cookies.userid \in Nat /\ cookies'.userid \in Nat
    BY <2>1, UsersAssumption DEF SessionInv, SessionTypeOK
  <2> QED
    BY <2>1, <2>2, Steps, DashboardNext
<1>3. SessionInv /\ DashboardInv /\ TradeInv => TypeOK
  BY DEF SessionInv, DashboardInv, TradeInv, TypeOK
<1> QED
  BY <1>1, <1>2, <1>3, PTL DEF Spec
=============================================================================
