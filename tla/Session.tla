------------------------------ MODULE Session ------------------------------
(***************************************************************************)
(* Accounts and sessions: the rows of ct_users that UserController writes   *)
(* and reads, the two cookies of a browser, and the pages of its tabs.      *)
(* A tab posts a form (index.html), the REST front end answers with a       *)
(* redirect to auth.html, auth.html sets the cookies and goes to main.html, *)
(* and helper.js sends every page to where the username cookie says.        *)
(* Each of UserController's methods is a transaction of its own; the tabs'  *)
(* requests interleave between them. The two Cookies.set calls of           *)
(* auth.html are one step, as are a page load and helper.js's redirect.     *)
(***************************************************************************)
EXTENDS Naturals, Sequences, FiniteSets

CONSTANTS
  Names,      (* user names *)
  NoName,     (* no username cookie *)
  Passwords,  (* passwords, by their MD5 digest *)
  Tabs,       (* tabs of the browser *)
  MaxUsers    (* bound: rows of ct_users *)

ASSUME NoNameAssumption == NoName \notin Names
ASSUME UsersAssumption == MaxUsers \in Nat

Ids    == 1..MaxUsers  (* user_ID: an AUTO_INCREMENT column *)
Nobody == 0            (* no userid cookie *)
Pages  == {"index", "main", "trade"}

VARIABLES
  users,    (* ct_users: [uname, passwd, by]; by is history: the tab that registered *)
  cookies,  (* the browser's cookies: [username, userid] *)
  visit     (* each tab: [at, name, passwd, id], the form it posted *)

session == <<users, cookies, visit>>

NoCookies == [username |-> NoName, userid |-> Nobody]

Named(n)       == {i \in DOMAIN users : users[i].uname = n}
Matching(n, p) == {i \in Named(n) : users[i].passwd = p}

\* getSingleResult: the row, if there is exactly one.
Single(rows) == \E i \in rows : rows = {i}
Row(rows)    == CHOOSE i \in rows : TRUE

\* The page a tab ends up on when it loads p: index.html if there is no
\* username cookie, and never index.html if there is one.
Shown(p, name) == CASE name = NoName -> "index"
                    [] p = "index" /\ name # NoName -> "main"
                    [] OTHER -> p

On(p)    == [at |-> p, name |-> NoName, passwd |-> "none", id |-> Nobody]
GoTo(v, p) == visit' = [visit EXCEPT ![v] = On(p)]

SessionInit ==
  /\ users = <<>>
  /\ cookies = NoCookies
  /\ visit = [v \in Tabs |-> On("index")]

-----------------------------------------------------------------------------
(* register, and registerUser which it calls                                *)

\* The SELECT of registerUser: a name that is taken is refused.
CheckName(v) ==
  /\ visit[v].at = "index" /\ Len(users) < MaxUsers
  /\ \E n \in Names, p \in Passwords :
       IF Named(n) # {}
         THEN GoTo(v, Shown("index", cookies.username))
         ELSE visit' = [visit EXCEPT ![v] = [at |-> "checked", name |-> n, passwd |-> p, id |-> Nobody]]
  /\ UNCHANGED <<users, cookies>>

\* persist, and the commit. No constraint of ct_users makes uname unique.
InsertUser(v) ==
  /\ visit[v].at = "checked" /\ Len(users) < MaxUsers
  /\ users' = Append(users, [uname |-> visit[v].name, passwd |-> visit[v].passwd, by |-> v])
  /\ visit' = [visit EXCEPT ![v].at = "inserted", ![v].passwd = "none"]
  /\ UNCHANGED cookies

\* No row of ct_user_type, or any other exception: registerUser returns false.
FailToInsert(v) ==
  /\ visit[v].at = "checked"
  /\ GoTo(v, Shown("index", cookies.username))
  /\ UNCHANGED <<users, cookies>>

\* Faulty: the newest of several rows.
LastNamed(n) == {CHOOSE i \in Named(n) : \A j \in Named(n) : j <= i}

UserByUsername(n) == Named(n)

\* getUserByUsername: null, and an error page, when several rows have the name.
Registered(v) ==
  /\ visit[v].at = "inserted"
  /\ visit' = IF Single(UserByUsername(visit[v].name))
              THEN [visit EXCEPT ![v].at = "auth", ![v].id = Row(UserByUsername(visit[v].name))]
              ELSE [visit EXCEPT ![v] = On("failed")]
  /\ UNCHANGED <<users, cookies>>

-----------------------------------------------------------------------------
\* login. getSingleResult raises when there is no such user, and only
\* EntityNotFoundException is caught: a wrong password gets an error page too.
Login(v) ==
  /\ visit[v].at = "index"
  /\ \E n \in Names, p \in Passwords :
       visit' = [visit EXCEPT ![v] =
         IF Single(Matching(n, p))
         THEN [at |-> "auth", name |-> n, passwd |-> "none", id |-> Row(Matching(n, p))]
         ELSE On("failed")]
  /\ UNCHANGED <<users, cookies>>

\* Faulty: the two parameters of the redirect are confused.
NameAsId(v) == visit[v].name

\* Faulty: a user is known by the number of rows, not by the key.
NewestId(v) == Len(users)

RedirectId(v) == visit[v].id

\* auth.html: both cookies, with one time of expiry, then main.html.
Authenticate(v) ==
  /\ visit[v].at = "auth"
  /\ cookies' = [username |-> visit[v].name, userid |-> RedirectId(v)]
  /\ GoTo(v, "main")
  /\ UNCHANGED users

\* The user follows a link, types an address or reloads the page.
Open(v) ==
  /\ visit[v].at \in Pages \union {"failed"}
  /\ \E p \in Pages : GoTo(v, Shown(p, cookies.username))
  /\ UNCHANGED <<users, cookies>>

\* Only the username cookie is removed.
Logout(v) ==
  /\ visit[v].at \in {"main", "trade"}
  /\ cookies' = [cookies EXCEPT !.username = NoName]
  /\ GoTo(v, "index")
  /\ UNCHANGED users

\* Five minutes after the login.
Expire ==
  /\ cookies # NoCookies
  /\ cookies' = NoCookies
  /\ UNCHANGED <<users, visit>>

Visiting(v) ==
  CheckName(v) \/ InsertUser(v) \/ FailToInsert(v) \/ Registered(v)
  \/ Login(v) \/ Authenticate(v) \/ Open(v) \/ Logout(v)

-----------------------------------------------------------------------------
SessionTypeOK ==
  /\ users \in Seq([uname : Names, passwd : Passwords, by : Tabs]) /\ Len(users) <= MaxUsers
  /\ cookies \in [username : Names \union {NoName}, userid : Ids \union {Nobody}]
  /\ visit \in [Tabs -> [at : Pages \union {"checked", "inserted", "auth", "failed"},
                         name : Names \union {NoName}, passwd : Passwords \union {"none"},
                         id : Ids \union {Nobody}]]

\* A registration that succeeds logs its tab in as the user it has inserted,
\* although the name is looked up again in another transaction and other tabs
\* may have inserted the same name meanwhile: then it gets an error page.
OwnRow ==
  [][\A v \in Tabs : Registered(v) /\ visit'[v].at = "auth" => users[visit'[v].id].by = v]_session

\* What the two cookies say fits together: as long as there is a username,
\* userid is a row of that name, whichever tabs log in and out. The profile is
\* read by name and everything else by id.
CookiesAgree ==
  cookies.username # NoName =>
    /\ cookies.userid \in DOMAIN users
    /\ users[cookies.userid].uname = cookies.username
=============================================================================
