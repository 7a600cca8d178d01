----------------------------- MODULE KeysProofs -----------------------------
(* Accounts are whole and URLs differ, for any number of requests.  The    *)
(* invariant says for each request which rows it has inserted by the time  *)
(* it reaches a statement, and what it has seen that still holds.          *)
EXTENDS Keys, TLAPS

Writer == Request \cup {Nobody}
Wanted == Url \cup {EmptyUrl}

Logins ==
  [kind : {"login"}, g : Google, email : Email, user : UserId \cup {NoRow}]
Tokens ==
  [kind : {"token"}, g : Google, email : Email, user : UserId \cup {NoRow}]
BookmarkRequests == Creations \cup Updates \cup Deletions

BeforeRows == {"exchange", "findGoogle", "createUser"}
WithUser == {"createGoogle", "findToken", "createToken"}
Statements == BeforeRows \cup WithUser \cup {"findUrl", "write", "commit"}

\* A request and the control point it is at fit each other.
Fits(p) ==
  /\ pc[p] \in {"idle", "panicked"} \cup Statements
  /\ pc[p] = "idle" => req[p] = NoReq
  /\ pc[p] \in {"panicked"} \cup BeforeRows => req[p] \in Logins
  /\ pc[p] \in WithUser => req[p] \in Logins /\ req[p].user \in UserId
  /\ pc[p] \in {"findUrl", "write"} => req[p] \in BookmarkRequests
  /\ pc[p] = "commit" =>
       \/ req[p] \in BookmarkRequests
       \/ req[p] \in Logins /\ req[p].user \in UserId
  /\ reply[p] \in {NoReply, Failed, Ok} \cup Tokens
  /\ pc[p] # "idle" => reply[p] = NoReply

TypeInv ==
  /\ email \in [Google -> Email]
  /\ users \subseteq [id : UserId, email : Email, by : Writer]
  /\ google \subseteq [g : Google, user : UserId, by : Writer]
  /\ tokens \subseteq [user : UserId, descr : Google \X Email, by : Writer]
  /\ url \in [Bookmark -> Wanted \cup {NoRow, Deleted}]
  /\ newUrl \in [Bookmark -> Wanted \cup {NoRow, Deleted}]
  /\ lock \in [Bookmark -> Writer]
  /\ pc = [p \in Request |-> pc[p]]
  /\ req = [p \in Request |-> req[p]]
  /\ reply = [p \in Request |-> reply[p]]
  /\ \A p \in Request : Fits(p)

-----------------------------------------------------------------------------
(* Accounts                                                                *)

Own(T, p) == {r \in T : r.by = p}

\* The keys of the tables, over the rows of all transactions, and the reference of
\* google_auth to users within one transaction.
KeysHold ==
  /\ \A u, v \in users : u.id = v.id \/ u.email = v.email => u = v
  /\ \A a, c \in google : a.g = c.g \/ a.user = c.user => a = c
  /\ \A a \in google : \E u \in users : u.id = a.user /\ u.by = a.by

AtCommit(p) == pc[p] = "commit" /\ req[p].kind = "login"
PastGoogle(p) == pc[p] \in {"findToken", "createToken"} \/ AtCommit(p)
Writing(p) == pc[p] = "createGoogle" \/ PastGoogle(p)

\* The rows that a request has inserted, and those it has found, at each statement.
HasRows(p) ==
  /\ ~Writing(p) => Own(users, p) = {} /\ Own(google, p) = {}
  /\ Writing(p) => \A u \in Own(users, p) : u.id = req[p].user
  /\ pc[p] = "createGoogle" => Own(google, p) = {} /\ \E u \in Own(users, p) : u.id = req[p].user
  /\ ~AtCommit(p) => Own(tokens, p) = {}
  /\ PastGoogle(p) =>
       \E a \in Seen(google, p) : a.g = req[p].g /\ a.user = req[p].user
  /\ AtCommit(p) =>
       \E r \in Seen(tokens, p) : r.user = req[p].user /\ r.descr = Descr(p)

\* A committed user has rows in the two other tables.
KeptWhole ==
  \A u \in Kept(users) :
    /\ \E a \in Kept(google) : a.user = u.id
    /\ \E r \in Kept(tokens) : r.user = u.id

Opens(t) ==
  /\ \E r \in Kept(tokens) : r.user = t.user /\ r.descr = <<t.g, t.email>>
  /\ \E a \in Kept(google) : a.g = t.g /\ a.user = t.user

AccountInv ==
  /\ KeysHold
  /\ \A p \in Request : HasRows(p)
  /\ KeptWhole
  /\ \A p \in Request : reply[p].kind = "token" => Opens(reply[p])

-----------------------------------------------------------------------------
(* Bookmarks                                                               *)

\* Only a request that is about to commit has a bookmark locked, and only one.
LocksFit ==
  /\ \A b \in Bookmark : lock[b] # Nobody =>
       /\ pc[lock[b]] = "commit"
       /\ \/ newUrl[b] = Deleted
          \/ req[lock[b]].kind = "create" /\ newUrl[b] = req[lock[b]].url
          \/ req[lock[b]].kind = "update" /\ newUrl[b] = req[lock[b]].url /\ req[lock[b]].b = b
  /\ \A b, c \in Bookmark : lock[b] = lock[c] /\ lock[b] # Nobody => b = c

NoOverlap ==
  \A p, q \in Request, u \in Url : Wants(req[p], u) /\ Wants(req[q], u) => p = q

\* What FindUrl has seen holds until the commit.
UrlStaysFree ==
  \A p \in Request, u \in Url, b \in Bookmark :
    pc[p] \in {"write", "commit"} /\ Wants(req[p], u) /\ url[b] = u =>
      req[p].kind = "update" /\ b = req[p].b

UrlInv == ~SameUrlAtOnce => NoOverlap /\ UrlStaysFree /\ UrlsDistinct

IInv == TypeInv /\ AccountInv /\ LocksFit /\ UrlInv

-----------------------------------------------------------------------------
(* A step of one request leaves alone what the others are doing.           *)

OnlyMoves(p) ==
  /\ pc' = [pc EXCEPT ![p] = pc'[p]]
  /\ req' = [req EXCEPT ![p] = req'[p]]
  /\ reply' = [reply EXCEPT ![p] = reply'[p]]

\* Request q keeps its rows, and those it sees.
KeepsRows(q) ==
  /\ Own(users, q)' = Own(users, q)
  /\ Own(google, q)' = Own(google, q)
  /\ Own(tokens, q)' = Own(tokens, q)
  /\ Seen(google, q) \subseteq Seen(google, q)'
  /\ Seen(tokens, q) \subseteq Seen(tokens, q)'

NothingCommittedIsLost ==
  /\ Kept(google) \subseteq Kept(google)'
  /\ Kept(tokens) \subseteq Kept(tokens)'

LEMMA OthersStay ==
  ASSUME TypeInv, NEW p \in Request, OnlyMoves(p)
  PROVE  \A q \in Request \ {p} : pc'[q] = pc[q] /\ req'[q] = req[q] /\ reply'[q] = reply[q]
BY DEF TypeInv, OnlyMoves

LEMMA ControlTyped ==
  ASSUME TypeInv, NEW p \in Request, OnlyMoves(p), Fits(p)'
  PROVE  /\ (pc = [q \in Request |-> pc[q]])'
         /\ (req = [q \in Request |-> req[q]])'
         /\ (reply = [q \in Request |-> reply[q]])'
         /\ \A q \in Request : Fits(q)'
<1>1. \A q \in Request \ {p} : Fits(q)'
  BY OthersStay DEF TypeInv, Fits
<1>2. /\ (pc = [q \in Request |-> pc[q]])'
      /\ (req = [q \in Request |-> req[q]])'
      /\ (reply = [q \in Request |-> reply[q]])'
  BY DEF TypeInv, OnlyMoves
<1> QED
  BY <1>1, <1>2

LEMMA HasRowsStays ==
  ASSUME NEW q \in Request, HasRows(q), KeepsRows(q), pc'[q] = pc[q], req'[q] = req[q]
  PROVE  HasRows(q)'
<1>1. /\ AtCommit(q)' <=> AtCommit(q)
      /\ PastGoogle(q)' <=> PastGoogle(q)
      /\ Writing(q)' <=> Writing(q)
      /\ Descr(q)' = Descr(q)
  BY DEF AtCommit, PastGoogle, Writing, Descr
<1>2. PastGoogle(q)' => (\E a \in Seen(google, q) : a.g = req[q].g /\ a.user = req[q].user)'
  BY <1>1 DEF HasRows, KeepsRows
<1>3. AtCommit(q)' => (\E r \in Seen(tokens, q) : r.user = req[q].user /\ r.descr = Descr(q))'
  BY <1>1 DEF HasRows, KeepsRows
<1>4. (pc[q] = "createGoogle" =>
         Own(google, q) = {} /\ \E u \in Own(users, q) : u.id = req[q].user)'
  BY <1>1 DEF HasRows, KeepsRows
<1>5. (/\ ~Writing(q) => Own(users, q) = {} /\ Own(google, q) = {}
       /\ Writing(q) => \A u \in Own(users, q) : u.id = req[q].user
       /\ ~AtCommit(q) => Own(tokens, q) = {})'
  BY <1>1 DEF HasRows, KeepsRows
<1> QED
  BY <1>2, <1>3, <1>4, <1>5 DEF HasRows

LEMMA OpensStays ==
  ASSUME NEW q \in Request, reply'[q] = reply[q], Opens(reply[q]), NothingCommittedIsLost
  PROVE  Opens(reply[q])'
BY DEF Opens, NothingCommittedIsLost

\* So what is left to show of a step is what becomes of the request that takes it.
LEMMA AccountStep ==
  ASSUME IInv, NEW p \in Request, OnlyMoves(p), NothingCommittedIsLost,
         \A q \in Request \ {p} : KeepsRows(q),
         KeysHold', KeptWhole', HasRows(p)',
         reply'[p].kind = "token" => Opens(reply[p])'
  PROVE  AccountInv'
<1>1. \A q \in Request \ {p} : pc'[q] = pc[q] /\ req'[q] = req[q] /\ reply'[q] = reply[q]
  BY OthersStay DEF IInv
<1>2. \A q \in Request \ {p} : HasRows(q)'
  BY <1>1, HasRowsStays DEF IInv, AccountInv
<1>3. \A q \in Request \ {p} : reply'[q].kind = "token" => Opens(reply[q])'
  BY <1>1, OpensStays DEF IInv, AccountInv
<1> QED
  BY <1>2, <1>3 DEF AccountInv

\* A step that leaves the three tables alone.
LEMMA AccountsUnchanged ==
  ASSUME IInv, NEW p \in Request, OnlyMoves(p), UNCHANGED accounts, HasRows(p)',
         reply'[p].kind # "token"
  PROVE  AccountInv'
<1>1. KeysHold' /\ KeptWhole' /\ NothingCommittedIsLost
  BY DEF IInv, AccountInv, KeysHold, KeptWhole, NothingCommittedIsLost, Kept, Seen, accounts
<1>2. \A q \in Request \ {p} : KeepsRows(q)
  BY DEF KeepsRows, Own, Seen, accounts
<1> QED
  BY <1>1, <1>2, AccountStep

\* The same for a bookmark's request, which has no rows in them.
LEMMA AccountsUnconcerned ==
  ASSUME IInv, NEW p \in Request, OnlyMoves(p), UNCHANGED accounts,
         ~Writing(p), ~Writing(p)', reply'[p].kind # "token"
  PROVE  AccountInv'
<1>1. Own(users, p)' = {} /\ Own(google, p)' = {} /\ Own(tokens, p)' = {}
  BY DEF IInv, AccountInv, HasRows, Own, accounts, Writing, PastGoogle
<1>2. HasRows(p)'
  BY <1>1 DEF HasRows, Writing, PastGoogle
<1> QED
  BY <1>2, AccountsUnchanged

\* Only a request that is about to commit has a bookmark locked.
LEMMA NoneLocked ==
  ASSUME IInv, NEW p \in Request, pc[p] # "commit"
  PROVE  \A b \in Bookmark : lock[b] # p /\ (lock[b] # Nobody => lock[b] \in Request)
<1> SUFFICES ASSUME NEW b \in Bookmark
             PROVE  lock[b] # p /\ (lock[b] # Nobody => lock[b] \in Request)
  OBVIOUS
<1>1. lock[b] \in Request \cup {Nobody}
  BY DEF IInv, TypeInv, Writer
<1>2. lock[b] # Nobody => pc[lock[b]] = "commit"
  BY DEF IInv, LocksFit
<1> QED
  BY <1>1, <1>2, NobodyAssumption

\* And for the bookmarks: a request that has none locked, and of whose URL nothing
\* is to be shown.
LEMMA BookmarksUnconcerned ==
  ASSUME IInv, NEW p \in Request, OnlyMoves(p), UNCHANGED bookmarks, pc[p] # "commit",
         \/ req'[p].kind \notin {"create", "update"}
         \/ req'[p] = req[p] /\ pc'[p] \notin {"write", "commit"}
  PROVE  LocksFit' /\ UrlInv'
<1>1. \A q \in Request \ {p} : pc'[q] = pc[q] /\ req'[q] = req[q]
  BY OthersStay DEF IInv
<1>2. \A b \in Bookmark : lock[b] # p /\ (lock[b] # Nobody => lock[b] \in Request)
  BY NoneLocked
<1>3. LocksFit'
  BY <1>1, <1>2 DEF IInv, LocksFit, bookmarks
<1>4. UrlInv'
  <2>1. NoOverlap => NoOverlap'
    BY <1>1 DEF NoOverlap, Wants
  <2>2. UrlStaysFree => UrlStaysFree'
    BY <1>1 DEF UrlStaysFree, Wants, bookmarks
  <2>3. UrlsDistinct => UrlsDistinct'
    BY DEF UrlsDistinct, bookmarks
  <2> QED
    BY <2>1, <2>2, <2>3 DEF IInv, UrlInv
<1> QED
  BY <1>3, <1>4

-----------------------------------------------------------------------------
(* The steps of a login.                                                   *)

\* TypeInv of the tables, and of the control.
TablesTyped ==
  /\ email \in [Google -> Email]
  /\ users \subseteq [id : UserId, email : Email, by : Writer]
  /\ google \subseteq [g : Google, user : UserId, by : Writer]
  /\ tokens \subseteq [user : UserId, descr : Google \X Email, by : Writer]
  /\ url \in [Bookmark -> Wanted \cup {NoRow, Deleted}]
  /\ newUrl \in [Bookmark -> Wanted \cup {NoRow, Deleted}]
  /\ lock \in [Bookmark -> Writer]

LEMMA TypeStep ==
  ASSUME TypeInv, NEW p \in Request, OnlyMoves(p), TablesTyped', Fits(p)'
  PROVE  TypeInv'
BY ControlTyped DEF TypeInv, TablesTyped

LEMMA TablesUnchanged ==
  ASSUME TypeInv, UNCHANGED <<email, accounts, bookmarks>>
  PROVE  TablesTyped'
BY DEF TypeInv, TablesTyped, accounts, bookmarks

LEMMA FailKeepsIInv ==
  ASSUME IInv, NEW p \in Request, Fail(p)
  PROVE  IInv'
<1>1. OnlyMoves(p) /\ pc'[p] = "idle" /\ req'[p] = NoReq /\ reply'[p] = Failed
  BY DEF IInv, TypeInv, Fail, Go, Local, Reply, OnlyMoves
<1>2. TablesTyped'
  BY DEF IInv, TypeInv, TablesTyped, Fail, Rollback, Writer
<1>3. TypeInv'
  BY <1>1, <1>2, TypeStep DEF IInv, Fits, BeforeRows, WithUser
<1>4. NothingCommittedIsLost /\ Kept(users)' = Kept(users)
  BY NobodyAssumption DEF NothingCommittedIsLost, Kept, Seen, Fail, Rollback
<1>5. \A q \in Request \ {p} : KeepsRows(q)
  BY NobodyAssumption DEF KeepsRows, Own, Seen, Fail, Rollback
<1>6. KeysHold'
  BY DEF IInv, AccountInv, KeysHold, Fail, Rollback
<1>7. KeptWhole'
  BY <1>4 DEF IInv, AccountInv, KeptWhole, NothingCommittedIsLost
<1>8. HasRows(p)'
  BY <1>1 DEF HasRows, Own, Writing, PastGoogle, AtCommit, Fail, Rollback
<1>9. AccountInv'
  BY <1>1, <1>4, <1>5, <1>6, <1>7, <1>8, AccountStep DEF Failed
<1>10. \A q \in Request \ {p} : pc'[q] = pc[q] /\ req'[q] = req[q]
  BY <1>1, OthersStay DEF IInv
<1>11. LocksFit'
  <2>1. \A b \in Bookmark : lock'[b] # Nobody =>
          lock[b] \in Request \ {p} /\ lock'[b] = lock[b] /\ newUrl'[b] = newUrl[b]
    BY DEF Fail, Rollback, IInv, TypeInv, Writer
  <2> QED
    BY <1>10, <2>1 DEF IInv, LocksFit
<1>12. UrlInv'
  <2>1. NoOverlap => NoOverlap'
    BY <1>1, <1>10 DEF NoOverlap, Wants, NoReq
  <2>2. UrlStaysFree => UrlStaysFree'
    BY <1>1, <1>10 DEF UrlStaysFree, Wants, Fail, Rollback
  <2>3. UrlsDistinct => UrlsDistinct'
    BY DEF UrlsDistinct, Fail, Rollback
  <2> QED
    BY <2>1, <2>2, <2>3 DEF IInv, UrlInv
<1> QED
  BY <1>3, <1>9, <1>11, <1>12 DEF IInv

LEMMA BeginLoginKeepsIInv ==
  ASSUME IInv, NEW p \in Request, BeginLogin(p)
  PROVE  IInv'
<1>1. PICK g \in Google :
        Begin(p, [kind |-> "login", g |-> g, email |-> email[g], user |-> NoRow], "exchange")
  BY DEF BeginLogin
<1>2. /\ OnlyMoves(p) /\ pc[p] = "idle" /\ pc'[p] = "exchange" /\ reply'[p] = NoReply
      /\ req'[p] \in Logins
      /\ UNCHANGED <<email, accounts, bookmarks>>
  BY <1>1 DEF IInv, TypeInv, Begin, Go, Local, Reply, OnlyMoves, Logins
<1>3. TypeInv'
  BY <1>2, TypeStep, TablesUnchanged DEF IInv, Fits, BeforeRows, WithUser, Statements
<1>4. AccountInv'
  BY <1>2, AccountsUnconcerned DEF Writing, PastGoogle, AtCommit, NoReply
<1>5. LocksFit' /\ UrlInv'
  BY <1>2, BookmarksUnconcerned DEF Logins
<1> QED
  BY <1>3, <1>4, <1>5 DEF IInv

LEMMA ExchangeKeepsIInv ==
  ASSUME IInv, NEW p \in Request, Exchange(p)
  PROVE  IInv'
<1>1. CASE Fail(p)
  BY <1>1, FailKeepsIInv
<1>2. CASE Panic(p) \/ /\ Local(p, [req[p] EXCEPT !.email = email[req[p].g]])
                       /\ Go(p, "findGoogle")
                       /\ UNCHANGED <<email, accounts, bookmarks, reply>>
  <2>1. pc[p] = "exchange" /\ req[p] \in Logins /\ reply[p] = NoReply
    BY DEF Exchange, IInv, TypeInv, Fits, BeforeRows
  <2>2. /\ OnlyMoves(p) /\ pc'[p] \in {"panicked", "findGoogle"} /\ reply'[p] = NoReply
        /\ UNCHANGED <<email, accounts, bookmarks>>
    BY <1>2, <2>1 DEF IInv, TypeInv, Panic, Go, Local, OnlyMoves
  <2>3. req'[p] \in Logins
    BY <1>2, <2>1 DEF IInv, TypeInv, Panic, Go, Local, Logins
  <2>4. TypeInv'
    BY <2>2, <2>3, TypeStep, TablesUnchanged DEF IInv, Fits, BeforeRows, WithUser, Statements
  <2>5. AccountInv'
    BY <2>1, <2>2, AccountsUnconcerned DEF Writing, PastGoogle, AtCommit, NoReply
  <2>6. LocksFit' /\ UrlInv'
    BY <2>1, <2>2, <2>3, BookmarksUnconcerned DEF Logins
  <2> QED
    BY <2>4, <2>5, <2>6 DEF IInv
<1> QED
  BY <1>1, <1>2 DEF Exchange

\* FindGoogle: an account that is found is committed, since the request has no rows yet.
LEMMA FindGoogleKeepsIInv ==
  ASSUME IInv, NEW p \in Request, FindGoogle(p)
  PROVE  IInv'
<1>1. /\ pc[p] = "findGoogle" /\ req[p] \in Logins /\ reply[p] = NoReply
      /\ UNCHANGED <<email, accounts, bookmarks, reply>>
  BY DEF FindGoogle, IInv, TypeInv, Fits, BeforeRows
<1>2. Own(users, p) = {} /\ Own(google, p) = {} /\ Own(tokens, p) = {}
  BY <1>1 DEF IInv, AccountInv, HasRows, Writing, PastGoogle, AtCommit
<1>3. CASE Go(p, "createUser") /\ UNCHANGED req
  <2>1. OnlyMoves(p) /\ pc'[p] = "createUser" /\ req'[p] \in Logins /\ reply'[p] = NoReply
    BY <1>1, <1>3 DEF IInv, TypeInv, Go, OnlyMoves
  <2>2. TypeInv'
    BY <1>1, <2>1, TypeStep, TablesUnchanged DEF IInv, Fits, BeforeRows, WithUser, Statements
  <2>3. AccountInv'
    BY <1>1, <2>1, AccountsUnconcerned DEF Writing, PastGoogle, AtCommit, NoReply
  <2>4. LocksFit' /\ UrlInv'
    BY <1>1, <2>1, BookmarksUnconcerned DEF Logins
  <2> QED
    BY <2>2, <2>3, <2>4 DEF IInv
<1>4. ASSUME NEW u \in AccountsOf(p), Local(p, [req[p] EXCEPT !.user = u]), Go(p, "findToken")
      PROVE  IInv'
  <2>1. PICK a \in Seen(google, p) : a.g = req[p].g /\ a.user = u
    BY <1>4 DEF AccountsOf
  <2>2. u \in UserId
    BY <2>1 DEF Seen, IInv, TypeInv
  <2>3. /\ OnlyMoves(p) /\ pc'[p] = "findToken" /\ reply'[p] = NoReply
        /\ req'[p] \in Logins /\ req'[p].user = u /\ req'[p].g = req[p].g
    BY <1>1, <1>4, <2>2 DEF IInv, TypeInv, Go, Local, OnlyMoves, Logins
  <2>4. TypeInv'
    BY <1>1, <2>2, <2>3, TypeStep, TablesUnchanged DEF IInv, Fits, BeforeRows, WithUser, Statements
  <2>5. HasRows(p)'
    <3>1. PastGoogle(p)' /\ Writing(p)' /\ ~AtCommit(p)' /\ pc'[p] # "createGoogle"
      BY <2>3 DEF PastGoogle, Writing, AtCommit
    <3>2. Own(users, p)' = {} /\ Own(google, p)' = {} /\ Own(tokens, p)' = {}
      BY <1>1, <1>2 DEF Own, accounts
    <3>3. a \in Seen(google, p)'
      BY <1>1, <2>1 DEF Seen, accounts
    <3> QED
      BY <2>1, <2>3, <3>1, <3>2, <3>3 DEF HasRows
  <2>6. AccountInv'
    BY <1>1, <2>3, <2>5, AccountsUnchanged DEF NoReply
  <2>7. LocksFit' /\ UrlInv'
    BY <1>1, <2>3, BookmarksUnconcerned DEF Logins
  <2> QED
    BY <2>4, <2>6, <2>7 DEF IInv
<1> QED
  BY <1>3, <1>4 DEF FindGoogle

\* CreateUser: the id and the address are in no row, of whatever transaction.
LEMMA CreateUserKeepsIInv ==
  ASSUME IInv, NEW p \in Request, CreateUser(p)
  PROVE  IInv'
<1>1. CASE Fail(p)
  BY <1>1, FailKeepsIInv
<1>2. ASSUME NEW id \in UserId \ {u.id : u \in users},
             SameEmail(p, users) = {},
             users' = users \cup {NewUser(p, id)},
             Local(p, [req[p] EXCEPT !.user = id]), Go(p, "createGoogle"),
             UNCHANGED <<email, google, tokens, bookmarks, reply>>
      PROVE  IInv'
  <2>1. pc[p] = "createUser" /\ req[p] \in Logins /\ reply[p] = NoReply
    BY DEF CreateUser, IInv, TypeInv, Fits, BeforeRows
  <2>2. /\ OnlyMoves(p) /\ pc'[p] = "createGoogle" /\ reply'[p] = NoReply
        /\ req'[p] \in Logins /\ req'[p].user = id
    BY <1>2, <2>1 DEF IInv, TypeInv, Go, Local, OnlyMoves, Logins
  <2> DEFINE new == NewUser(p, id)
  <2>3. /\ new \in [id : UserId, email : Email, by : Writer]
        /\ new.by = p /\ new.id = id /\ new.email = req[p].email
    BY <2>1 DEF NewUser, Logins, Writer
  <2>4. TypeInv'
    <3>1. TablesTyped'
      BY <1>2, <2>3 DEF IInv, TypeInv, TablesTyped, bookmarks
    <3> QED
      BY <2>2, <3>1, TypeStep DEF IInv, Fits, BeforeRows, WithUser, Statements
  <2>5. Own(users, p) = {} /\ Own(google, p) = {} /\ Own(tokens, p) = {}
    BY <2>1 DEF IInv, AccountInv, HasRows, Writing, PastGoogle, AtCommit
  <2>6. HasRows(p)'
    <3>1. Writing(p)' /\ ~PastGoogle(p)' /\ ~AtCommit(p)'
      BY <2>2 DEF PastGoogle, Writing, AtCommit
    <3>2. Own(users, p)' = {new} /\ Own(google, p)' = {} /\ Own(tokens, p)' = {}
      BY <1>2, <2>3, <2>5 DEF Own
    <3> QED
      BY <2>2, <2>3, <3>1, <3>2 DEF HasRows
  <2>7. \A u \in users : u.id # id /\ u.email # new.email
    BY <1>2, <2>3 DEF SameEmail
  <2>8. KeysHold'
    BY <1>2, <2>3, <2>7 DEF IInv, AccountInv, KeysHold
  <2>9. Kept(users)' = Kept(users) /\ NothingCommittedIsLost
    BY <1>2, <2>3, NobodyAssumption DEF Kept, Seen, NothingCommittedIsLost
  <2>10. KeptWhole'
    BY <2>9 DEF IInv, AccountInv, KeptWhole, NothingCommittedIsLost
  <2>11. \A q \in Request \ {p} : KeepsRows(q)
    BY <1>2, <2>3 DEF KeepsRows, Own, Seen
  <2>12. AccountInv'
    BY <2>2, <2>6, <2>8, <2>9, <2>10, <2>11, AccountStep DEF NoReply
  <2>13. LocksFit' /\ UrlInv'
    BY <1>2, <2>1, <2>2, BookmarksUnconcerned DEF Logins
  <2> QED
    BY <2>4, <2>12, <2>13 DEF IInv
<1> QED
  BY <1>1, <1>2 DEF CreateUser

\* CreateGoogleUser: the new user has no other row, since a row goes with its user's.
LEMMA CreateGoogleUserKeepsIInv ==
  ASSUME IInv, NEW p \in Request, CreateGoogleUser(p)
  PROVE  IInv'
<1>1. CASE Fail(p)
  BY <1>1, FailKeepsIInv
<1>2. CASE /\ SameGoogle(p, google) = {}
           /\ google' = google \cup {[g |-> req[p].g, user |-> req[p].user, by |-> p]}
           /\ Go(p, "findToken")
           /\ UNCHANGED <<email, users, tokens, bookmarks, req, reply>>
  <2>1. pc[p] = "createGoogle" /\ req[p] \in Logins /\ req[p].user \in UserId /\ reply[p] = NoReply
    BY DEF CreateGoogleUser, IInv, TypeInv, Fits, WithUser
  <2>2. /\ OnlyMoves(p) /\ pc'[p] = "findToken" /\ reply'[p] = NoReply
        /\ req'[p] = req[p]
    BY <1>2, <2>1 DEF IInv, TypeInv, Go, OnlyMoves
  <2> DEFINE new == [g |-> req[p].g, user |-> req[p].user, by |-> p]
  <2>3. new \in [g : Google, user : UserId, by : Writer]
    BY <2>1 DEF Logins, Writer
  <2>4. TypeInv'
    <3>1. TablesTyped'
      BY <1>2, <2>3 DEF IInv, TypeInv, TablesTyped, bookmarks
    <3> QED
      BY <2>1, <2>2, <3>1, TypeStep DEF IInv, Fits, BeforeRows, WithUser, Statements
  <2>5. /\ Own(google, p) = {} /\ Own(tokens, p) = {}
        /\ \A u \in Own(users, p) : u.id = req[p].user
    BY <2>1 DEF IInv, AccountInv, HasRows, Writing, PastGoogle, AtCommit
  <2>6. PICK u \in users : u.id = req[p].user /\ u.by = p
    BY <2>1 DEF IInv, AccountInv, HasRows, Own
  <2>7. HasRows(p)'
    <3>1. Writing(p)' /\ PastGoogle(p)' /\ ~AtCommit(p)' /\ pc'[p] # "createGoogle"
      BY <2>2 DEF PastGoogle, Writing, AtCommit
    <3>2. Own(users, p)' = Own(users, p) /\ Own(tokens, p)' = {}
      BY <1>2, <2>5 DEF Own
    <3>3. new \in Seen(google, p)'
      BY <1>2 DEF Seen
    <3> QED
      BY <2>2, <2>5, <3>1, <3>2, <3>3 DEF HasRows
  <2>8. \A a \in google : a.g # new.g /\ a.user # new.user
    <3>1. \A a \in google : a.g # new.g
      BY <1>2 DEF SameGoogle
    <3>2. \A a \in google : a.user # new.user
      <4> SUFFICES ASSUME NEW a \in google, a.user = req[p].user PROVE FALSE
        OBVIOUS
      <4>1. PICK v \in users : v.id = a.user /\ v.by = a.by
        BY DEF IInv, AccountInv, KeysHold
      <4>2. v = u
        BY <2>6, <4>1 DEF IInv, AccountInv, KeysHold
      <4>3. a \in Own(google, p)
        BY <2>6, <4>1, <4>2 DEF Own
      <4> QED
        BY <2>5, <4>3
    <3> QED
      BY <3>1, <3>2
  <2>9. KeysHold'
    <3>1. \A a, c \in google' : a.g = c.g \/ a.user = c.user => a = c
      BY <1>2, <2>8 DEF IInv, AccountInv, KeysHold
    <3>2. \A a \in google' : \E v \in users : v.id = a.user /\ v.by = a.by
      BY <1>2, <2>6 DEF IInv, AccountInv, KeysHold
    <3> QED
      BY <1>2, <3>1, <3>2 DEF IInv, AccountInv, KeysHold
  <2>10. Kept(users)' = Kept(users) /\ NothingCommittedIsLost
    BY <1>2 DEF Kept, Seen, NothingCommittedIsLost
  <2>11. KeptWhole'
    BY <2>10 DEF IInv, AccountInv, KeptWhole, NothingCommittedIsLost
  <2>12. \A q \in Request \ {p} : KeepsRows(q)
    BY <1>2 DEF KeepsRows, Own, Seen
  <2>13. AccountInv'
    BY <2>2, <2>7, <2>9, <2>10, <2>11, <2>12, AccountStep DEF NoReply
  <2>14. LocksFit' /\ UrlInv'
    BY <1>2, <2>1, <2>2, BookmarksUnconcerned DEF Logins
  <2> QED
    BY <2>4, <2>13, <2>14 DEF IInv
<1> QED
  BY <1>1, <1>2 DEF CreateGoogleUser

LEMMA FindTokenKeepsIInv ==
  ASSUME IInv, NEW p \in Request, FindToken(p)
  PROVE  IInv'
<1>1. /\ pc[p] = "findToken" /\ req[p] \in Logins /\ req[p].user \in UserId /\ reply[p] = NoReply
      /\ UNCHANGED <<email, accounts, bookmarks, req, reply>>
  BY DEF FindToken, IInv, TypeInv, Fits, WithUser
<1>2. /\ OnlyMoves(p) /\ reply'[p] = NoReply /\ req'[p] = req[p]
      /\ \/ /\ pc'[p] = "commit"
            /\ \E r \in Seen(tokens, p) : r.user = req[p].user /\ r.descr = Descr(p)
         \/ pc'[p] = "createToken"
  BY <1>1 DEF FindToken, IInv, TypeInv, Go, OnlyMoves
<1>3. TypeInv'
  BY <1>1, <1>2, TypeStep, TablesUnchanged DEF IInv, Fits, BeforeRows, WithUser, Statements
<1>4. HasRows(p)'
  <2>1. Writing(p)' /\ PastGoogle(p)' /\ pc'[p] # "createGoogle" /\ req[p].kind = "login"
    BY <1>1, <1>2 DEF PastGoogle, Writing, AtCommit, Logins
  <2>2. Writing(p) /\ PastGoogle(p) /\ ~AtCommit(p)
    BY <1>1 DEF PastGoogle, Writing, AtCommit
  <2>3. /\ Own(users, p)' = Own(users, p) /\ Own(tokens, p)' = {}
        /\ Seen(google, p)' = Seen(google, p) /\ Seen(tokens, p)' = Seen(tokens, p)
        /\ Descr(p)' = Descr(p)
    BY <1>1, <1>2, <2>2 DEF IInv, AccountInv, HasRows, Own, Seen, accounts, Descr
  <2>4. AtCommit(p)' => \E r \in Seen(tokens, p) : r.user = req[p].user /\ r.descr = Descr(p)
    BY <1>2 DEF AtCommit
  <2>5. \A u \in Own(users, p) : u.id = req[p].user
    BY <2>2 DEF IInv, AccountInv, HasRows
  <2>6. \E a \in Seen(google, p) : a.g = req[p].g /\ a.user = req[p].user
    BY <2>2 DEF IInv, AccountInv, HasRows
  <2> QED
    BY <1>2, <2>1, <2>3, <2>4, <2>5, <2>6 DEF HasRows
<1>5. AccountInv'
  BY <1>1, <1>2, <1>4, AccountsUnchanged DEF NoReply
<1>6. LocksFit' /\ UrlInv'
  BY <1>1, <1>2, BookmarksUnconcerned DEF Logins
<1> QED
  BY <1>3, <1>5, <1>6 DEF IInv

LEMMA CreateTokenKeepsIInv ==
  ASSUME IInv, NEW p \in Request, CreateToken(p)
  PROVE  IInv'
<1>1. /\ pc[p] = "createToken" /\ req[p] \in Logins /\ req[p].user \in UserId /\ reply[p] = NoReply
      /\ tokens' = tokens \cup {[user |-> req[p].user, descr |-> Descr(p), by |-> p]}
      /\ UNCHANGED <<email, users, google, bookmarks, req, reply>>
  BY DEF CreateToken, IInv, TypeInv, Fits, WithUser
<1>2. OnlyMoves(p) /\ reply'[p] = NoReply /\ req'[p] = req[p] /\ pc'[p] = "commit"
  BY <1>1 DEF CreateToken, IInv, TypeInv, Go, OnlyMoves
<1> DEFINE new == [user |-> req[p].user, descr |-> Descr(p), by |-> p]
<1>3. TypeInv'
  <2>1. new \in [user : UserId, descr : Google \X Email, by : Writer]
    BY <1>1 DEF Logins, Writer, Descr
  <2>2. TablesTyped'
    BY <1>1, <2>1 DEF IInv, TypeInv, TablesTyped, bookmarks
  <2> QED
    BY <1>1, <1>2, <2>2, TypeStep DEF IInv, Fits, BeforeRows, WithUser, Statements
<1>4. HasRows(p)'
  <2>1. Writing(p)' /\ PastGoogle(p)' /\ AtCommit(p)' /\ pc'[p] # "createGoogle"
    BY <1>1, <1>2 DEF PastGoogle, Writing, AtCommit, Logins
  <2>2. Writing(p) /\ PastGoogle(p) /\ ~AtCommit(p)
    BY <1>1 DEF PastGoogle, Writing, AtCommit
  <2>3. /\ Own(users, p)' = Own(users, p) /\ Seen(google, p)' = Seen(google, p)
        /\ Descr(p)' = Descr(p) /\ new \in Seen(tokens, p)'
    BY <1>1, <1>2 DEF Own, Seen, Descr
  <2>4. \A u \in Own(users, p) : u.id = req[p].user
    BY <2>2 DEF IInv, AccountInv, HasRows
  <2>5. \E a \in Seen(google, p) : a.g = req[p].g /\ a.user = req[p].user
    BY <2>2 DEF IInv, AccountInv, HasRows
  <2> QED
    BY <1>2, <2>1, <2>3, <2>4, <2>5 DEF HasRows
<1>5. KeysHold' /\ Kept(users)' = Kept(users) /\ NothingCommittedIsLost
  BY <1>1 DEF IInv, AccountInv, KeysHold, Kept, Seen, NothingCommittedIsLost
<1>6. KeptWhole'
  BY <1>5 DEF IInv, AccountInv, KeptWhole, NothingCommittedIsLost
<1>7. \A q \in Request \ {p} : KeepsRows(q)
  BY <1>1 DEF KeepsRows, Own, Seen
<1>8. AccountInv'
  BY <1>2, <1>4, <1>5, <1>6, <1>7, AccountStep DEF NoReply
<1>9. LocksFit' /\ UrlInv'
  BY <1>1, <1>2, BookmarksUnconcerned DEF Logins
<1> QED
  BY <1>3, <1>8, <1>9 DEF IInv

-----------------------------------------------------------------------------
(* Commit.                                                                 *)

Committed(r, p) == [r EXCEPT !.by = IF @ = p THEN Nobody ELSE @]

LEMMA CommittedRow ==
  /\ \A p \in Request, r \in [id : UserId, email : Email, by : Writer] :
       /\ Committed(r, p) \in [id : UserId, email : Email, by : Writer]
       /\ Committed(r, p).id = r.id /\ Committed(r, p).email = r.email
       /\ Committed(r, p).by = IF r.by = p THEN Nobody ELSE r.by
       /\ r.by # p => Committed(r, p) = r
  /\ \A p \in Request, r \in [g : Google, user : UserId, by : Writer] :
       /\ Committed(r, p) \in [g : Google, user : UserId, by : Writer]
       /\ Committed(r, p).g = r.g /\ Committed(r, p).user = r.user
       /\ Committed(r, p).by = IF r.by = p THEN Nobody ELSE r.by
       /\ r.by # p => Committed(r, p) = r
  /\ \A p \in Request, r \in [user : UserId, descr : Google \X Email, by : Writer] :
       /\ Committed(r, p) \in [user : UserId, descr : Google \X Email, by : Writer]
       /\ Committed(r, p).user = r.user /\ Committed(r, p).descr = r.descr
       /\ Committed(r, p).by = IF r.by = p THEN Nobody ELSE r.by
       /\ r.by # p => Committed(r, p) = r
BY DEF Committed, Writer

\* What a table keeps and gets when p commits; its rows are those of one type.
LEMMA CommittedTable ==
  ASSUME NEW T, NEW p \in Request,
         \A r \in T : /\ Committed(r, p).by = IF r.by = p THEN Nobody ELSE r.by
                      /\ r.by # p => Committed(r, p) = r
  PROVE  /\ CommitRows(T, p) = {Committed(r, p) : r \in T}
         /\ \A q \in Request \ {p} : /\ Own(CommitRows(T, p), q) = Own(T, q)
                                     /\ Seen(T, q) \subseteq Seen(CommitRows(T, p), q)
         /\ Own(CommitRows(T, p), p) = {}
         /\ Kept(CommitRows(T, p)) = {Committed(r, p) : r \in Seen(T, p)}
         /\ Kept(T) \subseteq Kept(CommitRows(T, p))
<1>1. CommitRows(T, p) = {Committed(r, p) : r \in T}
  BY DEF CommitRows, Committed
<1> DEFINE C == {Committed(r, p) : r \in T}
<1>2. \A q \in Request \ {p} : Own(C, q) = Own(T, q) /\ Seen(T, q) \subseteq Seen(C, q)
  BY NobodyAssumption DEF Own, Seen
<1>3. Own(C, p) = {}
  BY NobodyAssumption DEF Own
<1>4. Kept(C) = {Committed(r, p) : r \in Seen(T, p)} /\ Kept(T) \subseteq Kept(C)
  BY NobodyAssumption DEF Kept, Seen
<1> QED
  BY <1>1, <1>2, <1>3, <1>4

LEMMA CommitAccounts ==
  ASSUME IInv, NEW p \in Request, Commit(p)
  PROVE  AccountInv'
<1>1. /\ OnlyMoves(p) /\ pc[p] = "commit" /\ pc'[p] = "idle" /\ req'[p] = NoReq
      /\ users' = CommitRows(users, p)
      /\ google' = CommitRows(google, p)
      /\ tokens' = CommitRows(tokens, p)
  BY DEF IInv, TypeInv, Commit, Go, Local, Reply, OnlyMoves
<1>2. /\ \A r \in users : r \in [id : UserId, email : Email, by : Writer]
      /\ \A r \in google : r \in [g : Google, user : UserId, by : Writer]
      /\ \A r \in tokens : r \in [user : UserId, descr : Google \X Email, by : Writer]
  BY DEF IInv, TypeInv
<1>3. /\ users' = {Committed(r, p) : r \in users}
      /\ \A q \in Request \ {p} : Own(users, q)' = Own(users, q)
      /\ Own(users, p)' = {}
      /\ Kept(users)' = {Committed(r, p) : r \in Seen(users, p)}
  BY <1>1, <1>2, CommittedRow, CommittedTable DEF Own, Kept, Seen
<1>4. /\ google' = {Committed(r, p) : r \in google}
      /\ \A q \in Request \ {p} : Own(google, q)' = Own(google, q) /\ Seen(google, q) \subseteq Seen(google, q)'
      /\ Own(google, p)' = {}
      /\ Kept(google)' = {Committed(r, p) : r \in Seen(google, p)}
      /\ Kept(google) \subseteq Kept(google)'
  <2>1. \A r \in google : /\ Committed(r, p).by = IF r.by = p THEN Nobody ELSE r.by
                          /\ r.by # p => Committed(r, p) = r
    BY <1>2, CommittedRow
  <2>2. /\ google' = {Committed(r, p) : r \in google}
        /\ \A q \in Request \ {p} : Own(google', q) = Own(google, q) /\ Seen(google, q) \subseteq Seen(google', q)
        /\ Own(google', p) = {}
        /\ Kept(google') = {Committed(r, p) : r \in Seen(google, p)}
        /\ Kept(google) \subseteq Kept(google')
    BY <1>1, <2>1, CommittedTable
  <2> QED
    BY <2>2 DEF Own, Kept, Seen
<1>5. /\ \A q \in Request \ {p} : Own(tokens, q)' = Own(tokens, q) /\ Seen(tokens, q) \subseteq Seen(tokens, q)'
      /\ Own(tokens, p)' = {}
      /\ Kept(tokens)' = {Committed(r, p) : r \in Seen(tokens, p)}
      /\ Kept(tokens) \subseteq Kept(tokens)'
  <2>1. \A r \in tokens : /\ Committed(r, p).by = IF r.by = p THEN Nobody ELSE r.by
                          /\ r.by # p => Committed(r, p) = r
    BY <1>2, CommittedRow
  <2>2. /\ \A q \in Request \ {p} : Own(tokens', q) = Own(tokens, q) /\ Seen(tokens, q) \subseteq Seen(tokens', q)
        /\ Own(tokens', p) = {}
        /\ Kept(tokens') = {Committed(r, p) : r \in Seen(tokens, p)}
        /\ Kept(tokens) \subseteq Kept(tokens')
    BY <1>1, <2>1, CommittedTable
  <2> QED
    BY <2>2 DEF Own, Kept, Seen
<1>6. NothingCommittedIsLost /\ \A q \in Request \ {p} : KeepsRows(q)
  BY <1>3, <1>4, <1>5 DEF NothingCommittedIsLost, KeepsRows
<1>7. HasRows(p)'
  BY <1>1, <1>3, <1>4, <1>5 DEF HasRows, Writing, PastGoogle, AtCommit
<1>8. KeysHold'
  <2>1. \A u, v \in users' : u.id = v.id \/ u.email = v.email => u = v
    BY <1>2, <1>3, CommittedRow DEF IInv, AccountInv, KeysHold
  <2>2. \A a, c \in google' : a.g = c.g \/ a.user = c.user => a = c
    BY <1>2, <1>4, CommittedRow DEF IInv, AccountInv, KeysHold
  <2>3. ASSUME NEW a \in google' PROVE \E u \in users' : u.id = a.user /\ u.by = a.by
    <3>1. PICK a0 \in google : a = Committed(a0, p)
      BY <1>4
    <3>2. PICK u0 \in users : u0.id = a0.user /\ u0.by = a0.by
      BY DEF IInv, AccountInv, KeysHold
    <3>3. Committed(u0, p) \in users'
      BY <1>3
    <3>4. Committed(u0, p).id = a.user /\ Committed(u0, p).by = a.by
      BY <1>2, <3>1, <3>2, CommittedRow
    <3> QED
      BY <3>3, <3>4
  <2> QED
    BY <2>1, <2>2, <2>3 DEF KeysHold
<1>9. KeptWhole'
  <2> SUFFICES ASSUME NEW u \in Kept(users)'
               PROVE  /\ \E a \in Kept(google)' : a.user = u.id
                      /\ \E r \in Kept(tokens)' : r.user = u.id
    BY DEF KeptWhole
  <2>1. PICK u0 \in Seen(users, p) : u = Committed(u0, p)
    BY <1>3
  <2>2. u0 \in users /\ u.id = u0.id
    BY <1>2, <2>1, CommittedRow DEF Seen
  <2>3. CASE u0.by = p
    <3>1. u0 \in Own(users, p)
      BY <2>2, <2>3 DEF Own
    <3>2. Writing(p) /\ AtCommit(p) /\ PastGoogle(p)
      BY <1>1, <3>1 DEF IInv, AccountInv, HasRows, Writing, PastGoogle, AtCommit
    <3>3. u0.id = req[p].user
      BY <3>1, <3>2 DEF IInv, AccountInv, HasRows
    <3>4. PICK a \in Seen(google, p) : a.user = req[p].user
      BY <3>2 DEF IInv, AccountInv, HasRows
    <3>5. PICK r \in Seen(tokens, p) : r.user = req[p].user
      BY <3>2 DEF IInv, AccountInv, HasRows
    <3>6. Committed(a, p) \in Kept(google)' /\ Committed(r, p) \in Kept(tokens)'
      BY <1>4, <1>5
    <3>7. Committed(a, p).user = u.id /\ Committed(r, p).user = u.id
      BY <1>2, <2>2, <3>3, <3>4, <3>5, CommittedRow DEF Seen
    <3> QED
      BY <3>6, <3>7
  <2>4. CASE u0.by # p
    <3>1. u0 \in Kept(users)
      BY <2>1, <2>4 DEF Seen, Kept
    <3> QED
      BY <1>4, <1>5, <2>2, <3>1 DEF IInv, AccountInv, KeptWhole
  <2> QED
    BY <2>3, <2>4
<1>10. reply'[p].kind = "token" => Opens(reply[p])'
  <2> SUFFICES ASSUME reply'[p].kind = "token" PROVE Opens(reply[p])'
    OBVIOUS
  <2>1. reply'[p] = IF req[p].kind = "login" THEN [req[p] EXCEPT !.kind = "token"] ELSE Ok
    BY DEF IInv, TypeInv, Commit, Reply
  <2>2. req[p].kind = "login" /\ AtCommit(p) /\ PastGoogle(p)
    BY <1>1, <2>1 DEF Ok, AtCommit, PastGoogle
  <2>3. req[p] \in Logins
    BY <1>1, <2>2 DEF IInv, TypeInv, Fits, BookmarkRequests, Creations, Updates, Deletions
  <2>4. reply'[p].g = req[p].g /\ reply'[p].user = req[p].user /\ reply'[p].email = req[p].email
    BY <2>1, <2>2, <2>3 DEF Logins
  <2>5. PICK a \in Seen(google, p) : a.g = req[p].g /\ a.user = req[p].user
    BY <2>2 DEF IInv, AccountInv, HasRows
  <2>6. PICK r \in Seen(tokens, p) : r.user = req[p].user /\ r.descr = <<req[p].g, req[p].email>>
    BY <2>2 DEF IInv, AccountInv, HasRows, Descr
  <2>7. Committed(a, p) \in Kept(google)' /\ Committed(r, p) \in Kept(tokens)'
    BY <1>4, <1>5
  <2>8. /\ Committed(a, p).g = req[p].g /\ Committed(a, p).user = req[p].user
        /\ Committed(r, p).user = req[p].user /\ Committed(r, p).descr = <<req[p].g, req[p].email>>
    BY <1>2, <2>5, <2>6, CommittedRow DEF Seen
  <2> QED
    BY <2>4, <2>7, <2>8 DEF Opens
<1> QED
  BY <1>1, <1>6, <1>7, <1>8, <1>9, <1>10, AccountStep

LEMMA CommitTypes ==
  ASSUME IInv, NEW p \in Request, Commit(p)
  PROVE  TypeInv'
<1>1. /\ OnlyMoves(p) /\ pc[p] = "commit" /\ pc'[p] = "idle" /\ req'[p] = NoReq
      /\ reply'[p] = IF req[p].kind = "login" THEN [req[p] EXCEPT !.kind = "token"] ELSE Ok
  BY DEF IInv, TypeInv, Commit, Go, Local, Reply, OnlyMoves
<1>2. reply'[p] \in {Ok} \cup Tokens
  BY <1>1 DEF IInv, TypeInv, Fits, BookmarkRequests, Creations, Updates, Deletions, Logins, Tokens
<1>3. TablesTyped'
  <2>1. /\ users' = {Committed(r, p) : r \in users}
        /\ google' = {Committed(r, p) : r \in google}
        /\ tokens' = {Committed(r, p) : r \in tokens}
    BY DEF Commit, CommitRows, Committed
  <2>2. users' \subseteq [id : UserId, email : Email, by : Writer]
    BY <2>1, CommittedRow DEF IInv, TypeInv
  <2>3. google' \subseteq [g : Google, user : UserId, by : Writer]
    BY <2>1, CommittedRow DEF IInv, TypeInv
  <2>4. tokens' \subseteq [user : UserId, descr : Google \X Email, by : Writer]
    BY <2>1, CommittedRow DEF IInv, TypeInv
  <2>5. /\ url' \in [Bookmark -> Wanted \cup {NoRow, Deleted}]
        /\ newUrl' \in [Bookmark -> Wanted \cup {NoRow, Deleted}]
        /\ lock' \in [Bookmark -> Writer]
        /\ email' \in [Google -> Email]
    BY DEF IInv, TypeInv, Commit, UrlSeen, Writer
  <2> QED
    BY <2>2, <2>3, <2>4, <2>5 DEF TablesTyped
<1> QED
  BY <1>1, <1>2, <1>3, TypeStep DEF IInv, Fits, BeforeRows, WithUser

\* The URL that becomes visible is that of no other bookmark: FindUrl has seen so, and
\* it has stayed so, since no other request was after this URL.
LEMMA CommitUrls ==
  ASSUME IInv, NEW p \in Request, Commit(p)
  PROVE  LocksFit' /\ UrlInv'
<1>1. /\ OnlyMoves(p) /\ pc[p] = "commit" /\ pc'[p] = "idle" /\ req'[p] = NoReq
      /\ url' = [b \in Bookmark |-> IF lock[b] = p THEN newUrl[b] ELSE url[b]]
      /\ lock' = [b \in Bookmark |-> IF lock[b] = p THEN Nobody ELSE lock[b]]
      /\ newUrl' = newUrl
  BY DEF IInv, TypeInv, Commit, Go, Local, Reply, OnlyMoves, UrlSeen
<1>2. \A q \in Request \ {p} : pc'[q] = pc[q] /\ req'[q] = req[q]
  BY <1>1, OthersStay DEF IInv
<1>3. LocksFit'
  <2>1. \A b \in Bookmark : lock'[b] # Nobody => lock[b] \in Request \ {p} /\ lock'[b] = lock[b]
    BY <1>1 DEF IInv, TypeInv, Writer
  <2> QED
    BY <1>1, <1>2, <2>1 DEF IInv, LocksFit
<1>4. ASSUME NEW b \in Bookmark, lock[b] = p, newUrl[b] \in Url
      PROVE  Wants(req[p], newUrl[b]) /\ (req[p].kind = "update" => req[p].b = b)
  BY <1>4, NobodyAssumption, UrlAssumption DEF IInv, LocksFit, Wants
<1>5. ASSUME ~SameUrlAtOnce PROVE NoOverlap' /\ UrlStaysFree' /\ UrlsDistinct'
  <2>1. NoOverlap /\ UrlStaysFree /\ UrlsDistinct
    BY <1>5 DEF IInv, UrlInv
  <2>2. NoOverlap'
    BY <1>1, <1>2, <2>1 DEF NoOverlap, Wants, NoReq
  <2>3. UrlStaysFree'
    <3> SUFFICES ASSUME NEW q \in Request, NEW u \in Url, NEW b \in Bookmark,
                        pc'[q] \in {"write", "commit"}, Wants(req'[q], u), url'[b] = u
                 PROVE  req'[q].kind = "update" /\ b = req'[q].b
      BY DEF UrlStaysFree, Wants
    <3>1. q # p /\ pc[q] \in {"write", "commit"} /\ Wants(req[q], u) /\ req'[q] = req[q]
      BY <1>1, <1>2
    <3>2. lock[b] # p
      BY <1>1, <1>4, <2>1, <3>1 DEF NoOverlap
    <3>3. url[b] = u
      BY <1>1, <3>2
    <3> QED
      BY <2>1, <3>1, <3>3 DEF UrlStaysFree
  <2>4. UrlsDistinct'
    <3> SUFFICES ASSUME NEW b \in Bookmark, NEW c \in Bookmark,
                        url'[b] \in Url, url'[c] = url'[b], b # c
                 PROVE  FALSE
      BY DEF UrlsDistinct
    <3>1. ASSUME NEW x \in {b, c}, NEW y \in {b, c}, x # y, lock[x] = p PROVE FALSE
      <4>1. lock[y] # p
        BY <3>1, NobodyAssumption DEF IInv, LocksFit
      <4>2. newUrl[x] \in Url /\ url[y] = newUrl[x]
        BY <1>1, <3>1, <4>1
      <4>3. Wants(req[p], newUrl[x]) /\ (req[p].kind = "update" => req[p].b = x)
        BY <1>4, <3>1, <4>2
      <4>4. req[p].kind = "update" /\ y = req[p].b
        BY <1>1, <2>1, <4>2, <4>3 DEF UrlStaysFree
      <4> QED
        BY <3>1, <4>3, <4>4
    <3>2. lock[b] # p /\ lock[c] # p
      BY <3>1
    <3> QED
      BY <1>1, <2>1, <3>2 DEF UrlsDistinct
  <2> QED
    BY <2>2, <2>3, <2>4
<1> QED
  BY <1>3, <1>5 DEF UrlInv

-----------------------------------------------------------------------------
(* The steps of a bookmark's request.                                      *)

LEMMA BeginBookmarkKeepsIInv ==
  ASSUME IInv, NEW p \in Request, BeginBookmark(p)
  PROVE  IInv'
<1>1. PICK r \in BookmarkRequests :
        /\ \A q \in Request : Open(q) /\ ~SameUrlAtOnce => ~\E u \in Url : Wants(r, u) /\ Wants(req[q], u)
        /\ Begin(p, r, IF \E u \in Url : Wants(r, u) THEN "findUrl" ELSE "write")
  BY DEF BeginBookmark, BookmarkRequests
<1>2. /\ OnlyMoves(p) /\ pc[p] = "idle" /\ reply'[p] = NoReply /\ req'[p] = r
      /\ pc'[p] = IF \E u \in Url : Wants(r, u) THEN "findUrl" ELSE "write"
      /\ UNCHANGED <<email, accounts, bookmarks>>
  BY <1>1 DEF IInv, TypeInv, Begin, Go, Local, Reply, OnlyMoves
<1>3. TypeInv'
  BY <1>2, TypeStep, TablesUnchanged DEF IInv, Fits, BeforeRows, WithUser, Statements
<1>4. AccountInv'
  BY <1>2, AccountsUnconcerned DEF Writing, PastGoogle, AtCommit, NoReply
<1>5. \A q \in Request \ {p} : pc'[q] = pc[q] /\ req'[q] = req[q]
  BY <1>2, OthersStay DEF IInv
<1>6. LocksFit'
  <2>1. \A b \in Bookmark : lock[b] # p /\ (lock[b] # Nobody => lock[b] \in Request)
    BY <1>2, NoneLocked
  <2> QED
    BY <1>2, <1>5, <2>1 DEF IInv, LocksFit, bookmarks
<1>7. ASSUME ~SameUrlAtOnce PROVE NoOverlap' /\ UrlStaysFree' /\ UrlsDistinct'
  <2>1. NoOverlap /\ UrlStaysFree /\ UrlsDistinct
    BY <1>7 DEF IInv, UrlInv
  <2>2. \A q \in Request, u \in Url : Wants(req[q], u) => Open(q)
    BY DEF IInv, TypeInv, Fits, Wants, Open, NoReq, Logins
  <2>3. NoOverlap'
    BY <1>1, <1>2, <1>5, <1>7, <2>1, <2>2 DEF NoOverlap, Wants
  <2>4. UrlStaysFree'
    <3>1. pc'[p] \notin {"write", "commit"} \/ ~\E u \in Url : Wants(req'[p], u)
      BY <1>2
    <3> QED
      BY <1>2, <1>5, <2>1, <3>1 DEF UrlStaysFree, Wants, bookmarks
  <2>5. UrlsDistinct'
    BY <1>2, <2>1 DEF UrlsDistinct, bookmarks
  <2> QED
    BY <2>3, <2>4, <2>5
<1> QED
  BY <1>3, <1>4, <1>6, <1>7 DEF IInv, UrlInv

\* FindUrl: GetBookmarksByURL returns at most one bookmark, since URLs differ, and
\* the request goes on only if there is none or if it is the one it changes.
LEMMA FindUrlKeepsIInv ==
  ASSUME IInv, NEW p \in Request, FindUrl(p)
  PROVE  IInv'
<1>1. CASE Fail(p)
  BY <1>1, FailKeepsIInv
<1> DEFINE same == {b \in Bookmark : UrlSeen(p, b) = req[p].url}
<1>2. ASSUME NEW found \in IF same = {} THEN {NoRow} ELSE same, ~Refused(p, found),
             Go(p, "write"), UNCHANGED <<email, accounts, bookmarks, req, reply>>
      PROVE  IInv'
  <2>1. pc[p] = "findUrl" /\ req[p] \in BookmarkRequests /\ reply[p] = NoReply
    BY DEF FindUrl, IInv, TypeInv, Fits
  <2>2. /\ OnlyMoves(p) /\ pc'[p] = "write" /\ reply'[p] = NoReply /\ req' = req
    BY <1>2, <2>1 DEF IInv, TypeInv, Go, OnlyMoves
  <2>3. TypeInv'
    BY <1>2, <2>1, <2>2, TypeStep, TablesUnchanged DEF IInv, Fits, BeforeRows, WithUser, Statements
  <2>4. AccountInv'
    BY <1>2, <2>1, <2>2, AccountsUnconcerned DEF Writing, PastGoogle, AtCommit, NoReply
  <2>5. \A q \in Request \ {p} : pc'[q] = pc[q]
    BY <2>2, OthersStay DEF IInv
  <2>6. \A b \in Bookmark : lock[b] # p /\ (lock[b] # Nobody => lock[b] \in Request)
    BY <2>1, NoneLocked
  <2>7. LocksFit'
    BY <1>2, <2>2, <2>5, <2>6 DEF IInv, LocksFit, bookmarks
  <2>8. ASSUME ~SameUrlAtOnce PROVE NoOverlap' /\ UrlStaysFree' /\ UrlsDistinct'
    <3>1. NoOverlap /\ UrlStaysFree /\ UrlsDistinct
      BY <2>8 DEF IInv, UrlInv
    <3>2. ASSUME NEW u \in Url, NEW b \in Bookmark, Wants(req[p], u), url[b] = u
          PROVE  req[p].kind = "update" /\ b = req[p].b
      <4>1. req[p].url = u /\ same = {c \in Bookmark : url[c] = u}
        BY <2>6, <3>2 DEF Wants, UrlSeen
      <4>2. found \in Bookmark /\ url[found] = u
        BY <1>2, <3>2, <4>1
      <4>3. found = b
        BY <3>1, <3>2, <4>2 DEF UrlsDistinct
      <4>4. found # NoRow
        BY <4>2, UrlAssumption
      <4> QED
        BY <1>2, <3>2, <4>3, <4>4 DEF Refused, Wants
    <3>3. UrlStaysFree'
      BY <1>2, <2>2, <2>5, <3>1, <3>2 DEF UrlStaysFree, bookmarks, Wants
    <3>4. NoOverlap' /\ UrlsDistinct'
      BY <1>2, <3>1 DEF NoOverlap, UrlsDistinct, bookmarks, Wants
    <3> QED
      BY <3>3, <3>4
  <2> QED
    BY <2>3, <2>4, <2>7, <2>8 DEF IInv, UrlInv
<1> QED
  BY <1>1, <1>2 DEF FindUrl

\* A statement that writes: it may lock one bookmark, and commits next.
LEMMA WriteKeepsIInv ==
  ASSUME IInv, NEW p \in Request, pc[p] = "write",
         Go(p, "commit"), UNCHANGED <<email, accounts, url, req, reply>>,
         \/ UNCHANGED <<newUrl, lock>>
         \/ \E b \in Bookmark :
              /\ lock[b] \in {p, Nobody}
              /\ \/ WriteUrl(p, b, Deleted)
                 \/ /\ req[p].kind = "create" \/ (req[p].kind = "update" /\ req[p].b = b)
                    /\ WriteUrl(p, b, req[p].url)
  PROVE  IInv'
<1>1. req[p] \in BookmarkRequests /\ reply[p] = NoReply
  BY DEF IInv, TypeInv, Fits
<1>2. OnlyMoves(p) /\ pc'[p] = "commit" /\ reply'[p] = NoReply
  BY <1>1 DEF IInv, TypeInv, Go, OnlyMoves
<1>3. \A q \in Request \ {p} : pc'[q] = pc[q]
  BY <1>2, OthersStay DEF IInv
<1>4. req[p].kind \in {"create", "update"} => req[p].url \in Wanted
  BY <1>1 DEF BookmarkRequests, Creations, Updates, Deletions, Wanted
<1>5. TypeInv'
  <2>1. newUrl' \in [Bookmark -> Wanted \cup {NoRow, Deleted}] /\ lock' \in [Bookmark -> Writer]
    BY <1>4 DEF WriteUrl, IInv, TypeInv, Writer
  <2>2. TablesTyped'
    BY <2>1 DEF IInv, TypeInv, TablesTyped, accounts
  <2> QED
    BY <1>1, <1>2, <2>2, TypeStep DEF IInv, Fits, BeforeRows, WithUser, Statements
<1>6. AccountInv'
  <2>1. req[p].kind # "login"
    BY <1>1 DEF BookmarkRequests, Creations, Updates, Deletions
  <2> QED
    BY <1>2, <2>1, AccountsUnconcerned DEF Writing, PastGoogle, AtCommit, NoReply
<1>7. \A b \in Bookmark : lock[b] # p /\ (lock[b] # Nobody => lock[b] \in Request)
  BY NoneLocked
<1>8. LocksFit'
  <2>1. CASE UNCHANGED <<newUrl, lock>>
    BY <1>3, <1>7, <2>1 DEF IInv, LocksFit
  <2>2. ASSUME NEW b \in Bookmark, lock[b] \in {p, Nobody},
               \/ WriteUrl(p, b, Deleted)
               \/ /\ req[p].kind = "create" \/ (req[p].kind = "update" /\ req[p].b = b)
                  /\ WriteUrl(p, b, req[p].url)
        PROVE  LocksFit'
    <3>1. /\ lock'[b] = p
          /\ \/ newUrl'[b] = Deleted
             \/ /\ req[p].kind = "create" \/ (req[p].kind = "update" /\ req[p].b = b)
                /\ newUrl'[b] = req[p].url
          /\ \A c \in Bookmark \ {b} : lock'[c] = lock[c] /\ newUrl'[c] = newUrl[c]
      BY <2>2 DEF WriteUrl, IInv, TypeInv
    <3>2. \A c \in Bookmark : lock'[c] # Nobody =>
            /\ pc'[lock'[c]] = "commit"
            /\ \/ newUrl'[c] = Deleted
               \/ req'[lock'[c]].kind = "create" /\ newUrl'[c] = req'[lock'[c]].url
               \/ req'[lock'[c]].kind = "update" /\ newUrl'[c] = req'[lock'[c]].url /\ req'[lock'[c]].b = c
      BY <1>2, <1>3, <1>7, <3>1 DEF IInv, LocksFit
    <3>3. \A c, d \in Bookmark : lock'[c] = lock'[d] /\ lock'[c] # Nobody => c = d
      BY <1>7, <3>1 DEF IInv, LocksFit
    <3> QED
      BY <3>2, <3>3 DEF LocksFit
  <2> QED
    BY <2>1, <2>2
<1>9. UrlInv'
  <2>1. NoOverlap => NoOverlap'
    BY DEF NoOverlap, Wants
  <2>2. UrlStaysFree => UrlStaysFree'
    BY <1>2, <1>3 DEF UrlStaysFree, Wants
  <2>3. UrlsDistinct => UrlsDistinct'
    BY DEF UrlsDistinct
  <2> QED
    BY <2>1, <2>2, <2>3 DEF IInv, UrlInv
<1> QED
  BY <1>5, <1>6, <1>8, <1>9 DEF IInv

LEMMA InsertBookmarkKeepsIInv ==
  ASSUME IInv, NEW p \in Request, InsertBookmark(p)
  PROVE  IInv'
<1>1. PICK b \in Bookmark : lock[b] = Nobody /\ WriteUrl(p, b, req[p].url)
  BY DEF InsertBookmark
<1>2. /\ pc[p] = "write" /\ req[p].kind = "create"
      /\ Go(p, "commit") /\ UNCHANGED <<email, accounts, url, req, reply>>
  BY DEF InsertBookmark
<1>3. \E c \in Bookmark :
        /\ lock[c] \in {p, Nobody}
        /\ \/ WriteUrl(p, c, Deleted)
           \/ /\ req[p].kind = "create" \/ (req[p].kind = "update" /\ req[p].b = c)
              /\ WriteUrl(p, c, req[p].url)
  BY <1>1, <1>2
<1> QED
  BY <1>2, <1>3, WriteKeepsIInv

LEMMA WriteBookmarkKeepsIInv ==
  ASSUME IInv, NEW p \in Request, WriteBookmark(p)
  PROVE  IInv'
<1>1. req[p].kind \in {"update", "delete"} /\ req[p] \in BookmarkRequests
  BY DEF WriteBookmark, IInv, TypeInv, Fits
<1>2. req[p].b \in Bookmark
  BY <1>1 DEF BookmarkRequests, Creations, Updates, Deletions
<1> QED
  BY <1>1, <1>2, WriteKeepsIInv DEF WriteBookmark

-----------------------------------------------------------------------------
LEMMA InitHasIInv == Init => IInv
<1> SUFFICES ASSUME Init PROVE IInv
  OBVIOUS
<1>1. TypeInv
  BY DEF Init, TypeInv, Fits, BeforeRows, WithUser, Statements, Writer
<1>2. AccountInv
  BY DEF Init, AccountInv, KeysHold, HasRows, KeptWhole, Own, Kept, Seen,
         Writing, PastGoogle, AtCommit, NoReply
<1>3. LocksFit
  BY DEF Init, LocksFit
<1>4. UrlInv
  BY UrlAssumption DEF Init, UrlInv, NoOverlap, Wants, NoReq, UrlStaysFree, UrlsDistinct
<1> QED
  BY <1>1, <1>2, <1>3, <1>4 DEF IInv

LEMMA StatementKeepsIInv ==
  ASSUME IInv, NEW p \in Request, Statement(p)
  PROVE  IInv'
<1>1. CASE Commit(p)
  BY <1>1, CommitTypes, CommitAccounts, CommitUrls DEF IInv
<1> QED
  BY <1>1, ExchangeKeepsIInv, FindGoogleKeepsIInv, CreateUserKeepsIInv,
     CreateGoogleUserKeepsIInv, FindTokenKeepsIInv, CreateTokenKeepsIInv,
     FindUrlKeepsIInv, InsertBookmarkKeepsIInv, WriteBookmarkKeepsIInv DEF Statement

LEMMA IdleKeepsIInv ==
  ASSUME IInv, UNCHANGED <<users, google, tokens, bookmarks, pc, req, reply>>,
         email' \in [Google -> Email]
  PROVE  IInv'
<1>1. TypeInv'
  <2>1. \A p \in Request : Fits(p)'
    BY DEF IInv, TypeInv, Fits
  <2> QED
    BY <2>1 DEF IInv, TypeInv, bookmarks
<1>2. AccountInv'
  <2>1. \A p \in Request : HasRows(p)'
    <3>1. \A p \in Request : KeepsRows(p)
      BY DEF KeepsRows, Own, Seen
    <3> QED
      BY <3>1, HasRowsStays DEF IInv, AccountInv
  <2>2. \A p \in Request : reply'[p].kind = "token" => Opens(reply[p])'
    BY DEF IInv, AccountInv, Opens, Kept, Seen
  <2> QED
    BY <2>1, <2>2 DEF IInv, AccountInv, KeysHold, KeptWhole, Kept, Seen
<1>3. LocksFit' /\ UrlInv'
  BY DEF IInv, LocksFit, UrlInv, NoOverlap, Wants, UrlStaysFree, UrlsDistinct, bookmarks
<1> QED
  BY <1>1, <1>2, <1>3 DEF IInv

LEMMA IInvStep == IInv /\ [Next]_vars => IInv'
<1> SUFFICES ASSUME IInv, [Next]_vars PROVE IInv'
  OBVIOUS
<1>1. CASE \E p \in Request : Statement(p)
  BY <1>1, StatementKeepsIInv
<1>2. CASE \E p \in Request : BeginLogin(p)
  BY <1>2, BeginLoginKeepsIInv
<1>3. CASE \E g \in Google : ChangeEmail(g)
  <2>1. UNCHANGED <<users, google, tokens, bookmarks, pc, req, reply>> /\ email' \in [Google -> Email]
    BY <1>3 DEF ChangeEmail, accounts, IInv, TypeInv
  <2> QED
    BY <2>1, IdleKeepsIInv
<1>4. CASE \E p \in Request : BeginBookmark(p)
  BY <1>4, BeginBookmarkKeepsIInv
<1>5. CASE UNCHANGED vars
  <2>1. UNCHANGED <<users, google, tokens, bookmarks, pc, req, reply>> /\ email' \in [Google -> Email]
    BY <1>5 DEF vars, bookmarks, IInv, TypeInv
  <2> QED
    BY <2>1, IdleKeepsIInv
<1> QED
  BY <1>1, <1>2, <1>3, <1>4, <1>5 DEF Next, LoginNext, BookmarkNext

LEMMA IInvHolds == Spec => []IInv
BY InitHasIInv, IInvStep, PTL DEF Spec

\* Whatever logins overlap, fail or panic, every committed user has exactly one
\* google_auth row and a token, and no two accounts are of one Google user or have
\* one address (handleOAuthGoogle).
THEOREM AccountsWhole == Spec => []AccountsAreWhole
<1>1. IInv => AccountsAreWhole
  <2> SUFFICES ASSUME IInv PROVE AccountsAreWhole
    OBVIOUS
  <2>1. \A u \in Kept(users) :
          /\ \E a \in Kept(google) : a.user = u.id
          /\ \E r \in Kept(tokens) : r.user = u.id
    BY DEF IInv, AccountInv, KeptWhole
  <2>2. \A a, c \in Kept(google) : a.g = c.g \/ a.user = c.user => a = c
    BY DEF IInv, AccountInv, KeysHold, Kept, Seen
  <2>3. \A u, v \in Kept(users) : v.email = u.email => v = u
    BY DEF IInv, AccountInv, KeysHold, Kept, Seen
  <2> QED
    BY <2>1, <2>2, <2>3 DEF AccountsAreWhole
<1> QED
  BY <1>1, IInvHolds, PTL

\* The token of every login that has succeeded stays valid for the account of that
\* Google user, whoever changes their address later (authenticatePostOAuthGoogle).
THEOREM TokensStayGood == Spec => []TokensOpenAccounts
<1>1. IInv => TokensOpenAccounts
  <2> SUFFICES ASSUME IInv, NEW p \in Request, reply[p].kind = "token"
               PROVE  /\ \E r \in Kept(tokens) :
                           r.user = reply[p].user /\ r.descr = <<reply[p].g, reply[p].email>>
                      /\ \E a \in Kept(google) : a.g = reply[p].g /\ a.user = reply[p].user
                      /\ \E u \in Kept(users) : u.id = reply[p].user
    BY DEF TokensOpenAccounts
  <2>1. Opens(reply[p])
    BY DEF IInv, AccountInv
  <2>2. PICK a \in Kept(google) : a.g = reply[p].g /\ a.user = reply[p].user
    BY <2>1 DEF Opens
  <2>3. PICK u \in users : u.id = a.user /\ u.by = a.by
    BY <2>2 DEF IInv, AccountInv, KeysHold, Kept, Seen
  <2>4. u \in Kept(users)
    BY <2>2, <2>3 DEF Kept, Seen
  <2> QED
    BY <2>1, <2>2, <2>3, <2>4 DEF Opens
<1> QED
  BY <1>1, IInvHolds, PTL

\* If requests for one URL do not overlap, no two bookmarks ever have one URL, however
\* the statements of the other requests interleave (CreateBookmark, UpdateBookmark).
THEOREM NoUrlTwice ==
  ASSUME ~SameUrlAtOnce
  PROVE  Spec => []UrlsDistinct
<1>1. IInv => UrlsDistinct
  BY DEF IInv, UrlInv
<1> QED
  BY <1>1, IInvHolds, PTL

\* Only a request itself ends with a failure, and then it has been rolled back.
LEMMA FailsAlone ==
  ASSUME TypeInv, [Next]_vars, NEW p \in Request, reply[p] = NoReply, reply'[p] = Failed
  PROVE  Statement(p) /\ Fail(p)
<1>1. PICK q \in Request : Statement(q)
  <2>1. ASSUME NEW q \in Request, BeginLogin(q) \/ BeginBookmark(q) PROVE reply'[p] = NoReply
    BY <2>1 DEF BeginLogin, BeginBookmark, Begin, Reply, TypeInv
  <2>2. ASSUME NEW g \in Google, ChangeEmail(g) PROVE FALSE
    BY <2>2 DEF ChangeEmail, NoReply, Failed
  <2> QED
    BY <2>1, <2>2 DEF Next, LoginNext, BookmarkNext, vars, NoReply, Failed
<1>2. reply' # reply
  BY DEF NoReply, Failed
<1>3. ~Commit(q)
  <2> SUFFICES ASSUME Commit(q) PROVE FALSE
    OBVIOUS
  <2>1. reply'[p] = IF p = q THEN (IF req[q].kind = "login" THEN [req[q] EXCEPT !.kind = "token"] ELSE Ok)
                    ELSE reply[p]
    BY DEF Commit, Reply, TypeInv
  <2>2. req[q].kind = "login" => req[q] \in Logins
    BY DEF Commit, TypeInv, Fits, BookmarkRequests, Creations, Updates, Deletions
  <2> QED
    BY <2>1, <2>2 DEF NoReply, Failed, Ok, Logins
<1>4. Fail(q)
  BY <1>1, <1>2, <1>3
  DEF Statement, Exchange, FindGoogle, CreateUser, CreateGoogleUser, FindToken, CreateToken,
      FindUrl, InsertBookmark, WriteBookmark, Panic
<1>5. q = p
  BY <1>4 DEF Fail, Reply, TypeInv, NoReply, Failed
<1> QED
  BY <1>1, <1>4, <1>5

\* A login that Google has answered fails only because of a committed account: that of
\* its own Google user, or one that has its address (CreateUser, CreateGoogleUser).
THEOREM LoginFailsOnlySo == Spec => LoginFailsForAReason
<1>1. ASSUME IInv, [Next]_vars, NEW p \in Request,
             req[p].kind = "login", pc[p] \notin {"idle", "exchange"}, reply'[p] = Failed
      PROVE  \/ SameGoogle(p, Kept(google)) # {}
             \/ \E u \in SameEmail(p, Kept(users)), a \in Kept(google) :
                  a.user = u.id /\ a.g # req[p].g
  <2>1. reply[p] = NoReply
    BY <1>1 DEF IInv, TypeInv, Fits
  <2>2. Statement(p) /\ Fail(p)
    BY <1>1, <2>1, FailsAlone DEF IInv
  <2>3. \/ CreateUser(p) /\ SameEmail(p, users) # {}
        \/ CreateGoogleUser(p) /\ SameGoogle(p, google) # {}
    <3>1. req[p] \in Logins
      BY <1>1 DEF IInv, TypeInv, Fits, BookmarkRequests, Creations, Updates, Deletions,
                 Statements, BeforeRows, WithUser
    <3>2. pc[p] \notin {"findUrl", "write"}
      BY <1>1 DEF IInv, TypeInv, Fits, BookmarkRequests, Creations, Updates, Deletions
    <3>3. pc'[p] = "idle" /\ reply'[p] = Failed
      BY <1>1, <2>2 DEF IInv, TypeInv, Fail, Go, Reply
    <3>4. ~FindGoogle(p) /\ ~FindToken(p) /\ ~CreateToken(p)
      BY <2>1, <3>3 DEF FindGoogle, FindToken, CreateToken, Failed, NoReply
    <3>5. ~Commit(p)
      BY <1>1, <3>1 DEF Commit, Reply, Failed, Logins, IInv, TypeInv
    <3>6. CreateUser(p) => SameEmail(p, users) # {}
      <4> SUFFICES ASSUME CreateUser(p), SameEmail(p, users) = {} PROVE FALSE
        OBVIOUS
      <4>1. \E id \in UserId \ {u.id : u \in users} : UNCHANGED reply
        BY DEF CreateUser
      <4> QED
        BY <2>1, <3>3, <4>1 DEF Failed, NoReply
    <3>7. CreateGoogleUser(p) => SameGoogle(p, google) # {}
      BY <2>1, <3>3 DEF CreateGoogleUser, Failed, NoReply
    <3> QED
      BY <1>1, <2>2, <3>2, <3>4, <3>5, <3>6, <3>7
      DEF Statement, Exchange, FindUrl, InsertBookmark, WriteBookmark
  <2>4. CASE CreateUser(p) /\ SameEmail(p, users) # {}
    <3>1. PICK u \in users : u.email = req[p].email
      BY <2>4 DEF SameEmail
    <3>2. u \in Seen(users, p)
      BY <2>4, <3>1 DEF CreateUser, SameEmail, Hidden
    <3>3. pc[p] = "createUser" /\ ~Writing(p)
      BY <2>4 DEF CreateUser, Writing, PastGoogle, AtCommit
    <3>4. Own(users, p) = {}
      BY <1>1, <3>3 DEF IInv, AccountInv, HasRows
    <3>5. u \in Kept(users)
      BY <3>1, <3>2, <3>4 DEF Seen, Kept, Own
    <3>6. PICK a \in Kept(google) : a.user = u.id
      BY <1>1, <3>5 DEF IInv, AccountInv, KeptWhole
    <3> QED
      BY <3>1, <3>5, <3>6 DEF SameGoogle, SameEmail
  <2>5. CASE CreateGoogleUser(p) /\ SameGoogle(p, google) # {}
    <3>1. PICK a \in google : a.g = req[p].g
      BY <2>5 DEF SameGoogle
    <3>2. a \in Seen(google, p) /\ Own(google, p) = {}
      BY <1>1, <2>5, <3>1 DEF CreateGoogleUser, SameGoogle, Hidden, IInv, AccountInv, HasRows
    <3> QED
      BY <3>1, <3>2 DEF SameGoogle, Seen, Kept, Own
  <2> QED
    BY <2>3, <2>4, <2>5
<1>2. IInv /\ [Next]_vars =>
        [\A p \in Request :
           req[p].kind = "login" /\ pc[p] \notin {"idle", "exchange"} /\ reply'[p] = Failed =>
             \/ SameGoogle(p, Kept(google)) # {}
             \/ \E u \in SameEmail(p, Kept(users)), a \in Kept(google) :
                  a.user = u.id /\ a.g # req[p].g]_vars
  BY <1>1
<1> QED
  BY <1>2, IInvHolds, PTL DEF Spec, LoginFailsForAReason
=============================================================================
