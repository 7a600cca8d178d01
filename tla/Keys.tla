-------------------------------- MODULE Keys --------------------------------
(***************************************************************************)
(* Requests that look for a row and insert one when there is none: the     *)
(* login with Google, which finds or creates a user, a google_auth row and *)
(* an access token, and the creation and the change of a bookmark, which   *)
(* look for another one with the same URL.  Each is one transaction at     *)
(* READ COMMITTED, statement by statement, several at a time.  Keys keep   *)
(* users and google_auth from rows that are there twice (an INSERT waits   *)
(* for the transaction that has inserted the same key, and fails if that   *)
(* one commits); for tokens and URLs there is only the look before.        *)
(*                                                                         *)
(* The bookmarks are one user's; what the requests do to taggings is in    *)
(* TagTx.  The root tag that CreateUser makes is one with the user's row.  *)
(***************************************************************************)
EXTENDS Integers, FiniteSets

CONSTANTS Request,   \* requests at a time
          Google,    \* Google's users
          Email,     \* their addresses
          UserId,    \* ids of table users: a bound
          Bookmark,  \* ids of table bookmarks: a bound
          Url,       \* URLs of bookmarks
          EmptyUrl,  \* "", which several bookmarks may have
          NoRow,     \* the "URL" of an id not used yet
          Deleted,   \* the "URL" of a deleted bookmark: ids are not used again
          Nobody,    \* the writer of rows that are committed
          SameUrlAtOnce  \* may requests for one URL overlap?

ASSUME NobodyAssumption == Nobody \notin Request
ASSUME UrlAssumption == NoRow \notin Url \cup Bookmark /\ Deleted \notin Url

VARIABLES
  about,   \* what the requests are about: logins and bookmarks share no row
  email,   \* the address Google knows for each of its users
  users,   \* rows [id, email, by]; by is the request whose transaction has
  google,  \* rows [g, user, by]    inserted the row, Nobody once it is committed
  tokens,  \* rows [user, descr, by]; tokens that only differ in their string are one
  url,     \* the committed URL of each bookmark
  newUrl,  \* the URL its writer has given it
  lock,    \* the open transaction that has written it, or Nobody
  pc,      \* the next statement of a request
  req,     \* what it asks for, with its local variables
  reply    \* how its last request ended; for a login the token

vars == <<about, email, users, google, tokens, url, newUrl, lock, pc, req, reply>>
accounts == <<users, google, tokens>>
bookmarks == <<url, newUrl, lock>>

NoReq == [kind |-> "none"]
NoReply == [kind |-> "none"]
Failed == [kind |-> "failed"]
Ok == [kind |-> "ok"]

\* The rows a transaction sees, those committed, and those it does not see.
Seen(T, p) == {r \in T : r.by \in {p, Nobody}}
Kept(T) == Seen(T, Nobody)
Hidden(T, p) == T \ Seen(T, p)

UrlSeen(p, b) == IF lock[b] = p THEN newUrl[b] ELSE url[b]

Go(p, s) == pc' = [pc EXCEPT ![p] = s]
Local(p, r) == req' = [req EXCEPT ![p] = r]
Reply(p, r) == reply' = [reply EXCEPT ![p] = r]

Open(p) == pc[p] \notin {"idle", "panicked"}

Init ==
  /\ about \in {"logins", "bookmarks"}
  /\ email \in [Google -> Email]
  /\ \A g, h \in Google : g # h => email[g] # email[h]
  /\ users = {} /\ google = {} /\ tokens = {}
  /\ url = [b \in Bookmark |-> NoRow]
  /\ newUrl = url
  /\ lock = [b \in Bookmark |-> Nobody]
  /\ pc = [p \in Request |-> "idle"]
  /\ req = [p \in Request |-> NoReq]
  /\ reply = [p \in Request |-> NoReply]

\* Somebody changes their address at Google.
ChangeEmail(g) ==
  /\ \E e \in Email :
       /\ \A h \in Google : email[h] # e
       /\ email' = [email EXCEPT ![g] = e]
  /\ UNCHANGED <<accounts, bookmarks, pc, req, reply>>

-----------------------------------------------------------------------------
(* The beginning and the end of a request (TxOpt).                         *)

Creations == [kind : {"create"}, url : Url \cup {EmptyUrl}]
Updates == [kind : {"update"}, b : Bookmark, url : Url \cup {EmptyUrl}]
Deletions == [kind : {"delete"}, b : Bookmark]

Wants(r, u) == r.kind \in {"create", "update"} /\ r.url = u

Begin(p, r, first) ==
  /\ pc[p] = "idle"
  /\ Local(p, r)
  /\ Go(p, first)
  /\ Reply(p, NoReply)
  /\ UNCHANGED <<email, accounts, bookmarks>>

\* The client has a code from Google; the address is what Google says later.
BeginLogin(p) ==
  \E g \in Google :
    Begin(p, [kind |-> "login", g |-> g, email |-> email[g], user |-> NoRow], "exchange")

\* A new bookmark needs an id that is left: a bound of the model.
IdLeft(p) ==
  Cardinality({q \in Request \ {p} : Open(q) /\ req[q].kind = "create"})
    < Cardinality({b \in Bookmark : url[b] = NoRow /\ lock[b] = Nobody})

\* Bookmarks that are changed have been there.
BeginBookmark(p) ==
  \E r \in Creations \cup Updates \cup Deletions :
    /\ IF r.kind = "create" THEN IdLeft(p) ELSE url[r.b] # NoRow
    /\ \A q \in Request : Open(q) /\ ~SameUrlAtOnce =>
         ~\E u \in Url : Wants(r, u) /\ Wants(req[q], u)
    /\ Begin(p, r, IF \E u \in Url : Wants(r, u) THEN "findUrl" ELSE "write")

Rollback(p) ==
  /\ users' = {r \in users : r.by # p}
  /\ google' = {r \in google : r.by # p}
  /\ tokens' = {r \in tokens : r.by # p}
  /\ newUrl' = [b \in Bookmark |-> IF lock[b] = p THEN url[b] ELSE newUrl[b]]
  /\ lock' = [b \in Bookmark |-> IF lock[b] = p THEN Nobody ELSE lock[b]]
  /\ UNCHANGED url

Fail(p) ==
  /\ Rollback(p)
  /\ Go(p, "idle")
  /\ Local(p, NoReq)
  /\ Reply(p, Failed)
  /\ UNCHANGED email

\* The goroutine panics: its transaction stays as it is.
Panic(p) ==
  /\ Go(p, "panicked")
  /\ UNCHANGED <<email, accounts, bookmarks, req, reply>>

CommitRows(T, p) == {[r EXCEPT !.by = IF @ = p THEN Nobody ELSE @] : r \in T}

Commit(p) ==
  /\ pc[p] = "commit"
  /\ users' = CommitRows(users, p)
  /\ google' = CommitRows(google, p)
  /\ tokens' = CommitRows(tokens, p)
  /\ url' = [b \in Bookmark |-> UrlSeen(p, b)]
  /\ lock' = [b \in Bookmark |-> IF lock[b] = p THEN Nobody ELSE lock[b]]
  /\ Go(p, "idle")
  /\ Local(p, NoReq)
  /\ Reply(p, IF req[p].kind = "login" THEN [req[p] EXCEPT !.kind = "token"] ELSE Ok)
  /\ UNCHANGED <<email, newUrl>>

-----------------------------------------------------------------------------
(* authenticatePost: the login with Google.                                *)

\* handleOAuthGoogle asks Google.  An error of the first request, or no answer to
\* the second, ends the login.  When there is no id_token, or the answer is not
\* "200 OK", errors.Annotatef gets a nil error and returns nil, and the caller
\* dereferences the nil googleTokenInfo.
Exchange(p) ==
  /\ pc[p] = "exchange"
  /\ \/ Fail(p)
     \/ Panic(p)
     \/ /\ Local(p, [req[p] EXCEPT !.email = email[req[p].g]])
        /\ Go(p, "findGoogle")
        /\ UNCHANGED <<email, accounts, bookmarks, reply>>

\* (variant: by the address)
AccountsOf_ByEmail(p) == {r.id : r \in {u \in Seen(users, p) : u.email = req[p].email}}

\* GetUserByGoogleUserID
AccountsOf(p) == {r.user : r \in {a \in Seen(google, p) : a.g = req[p].g}}

FindGoogle(p) ==
  /\ pc[p] = "findGoogle"
  /\ \/ /\ AccountsOf(p) = {}
        /\ Go(p, "createUser")
        /\ UNCHANGED req
     \/ \E u \in AccountsOf(p) :
          /\ Local(p, [req[p] EXCEPT !.user = u])
          /\ Go(p, "findToken")
  /\ UNCHANGED <<email, accounts, bookmarks, reply>>

\* The open transactions that have inserted the same key.
SameEmail(p, T) == {u \in T : u.email = req[p].email}
SameGoogle(p, T) == {a \in T : a.g = req[p].g}

\* (variant: in a transaction of its own)
NewUser_Committed(p, id) == [id |-> id, email |-> req[p].email, by |-> Nobody]

NewUser(p, id) == [id |-> id, email |-> req[p].email, by |-> p]

\* CreateUser
CreateUser(p) ==
  /\ pc[p] = "createUser"
  /\ SameEmail(p, Hidden(users, p)) = {}
  /\ IF SameEmail(p, users) # {} THEN Fail(p)
     ELSE \E id \in UserId \ {u.id : u \in users} :
            /\ users' = users \cup {NewUser(p, id)}
            /\ Local(p, [req[p] EXCEPT !.user = id])
            /\ Go(p, "createGoogle")
            /\ UNCHANGED <<email, google, tokens, bookmarks, reply>>

CreateGoogleUser(p) ==
  /\ pc[p] = "createGoogle"
  /\ SameGoogle(p, Hidden(google, p)) = {}
  /\ IF SameGoogle(p, google) # {} THEN Fail(p)
     ELSE /\ google' = google \cup {[g |-> req[p].g, user |-> req[p].user, by |-> p]}
          /\ Go(p, "findToken")
          /\ UNCHANGED <<email, users, tokens, bookmarks, req, reply>>

\* GetAccessToken: the description has the Google user and the address.
Descr(p) == <<req[p].g, req[p].email>>

FindToken(p) ==
  /\ pc[p] = "findToken"
  /\ Go(p, IF \E r \in Seen(tokens, p) : r.user = req[p].user /\ r.descr = Descr(p)
             THEN "commit" ELSE "createToken")
  /\ UNCHANGED <<email, accounts, bookmarks, req, reply>>

CreateToken(p) ==
  /\ pc[p] = "createToken"
  /\ tokens' = tokens \cup {[user |-> req[p].user, descr |-> Descr(p), by |-> p]}
  /\ Go(p, "commit")
  /\ UNCHANGED <<email, users, google, bookmarks, req, reply>>

-----------------------------------------------------------------------------
(* CreateBookmark, UpdateBookmark, DeleteTaggable                          *)

\* (variant: only a creation is refused)
Refused_Creation(p, found) == found # NoRow /\ req[p].kind = "create"

\* found is the first bookmark with the URL that GetBookmarksByURL returns.
Refused(p, found) == found # NoRow /\ (req[p].kind = "create" \/ found # req[p].b)

FindUrl(p) ==
  /\ pc[p] = "findUrl"
  /\ LET same == {b \in Bookmark : UrlSeen(p, b) = req[p].url}
     IN  \E found \in IF same = {} THEN {NoRow} ELSE same :
           IF Refused(p, found) THEN Fail(p)
           ELSE Go(p, "write") /\ UNCHANGED <<email, accounts, bookmarks, req, reply>>

WriteUrl(p, b, u) ==
  /\ newUrl' = [newUrl EXCEPT ![b] = u]
  /\ lock' = [lock EXCEPT ![b] = p]

InsertBookmark(p) ==
  /\ pc[p] = "write"
  /\ req[p].kind = "create"
  /\ \E b \in Bookmark : lock[b] = Nobody /\ url[b] = NoRow /\ WriteUrl(p, b, req[p].url)
  /\ Go(p, "commit")
  /\ UNCHANGED <<email, accounts, url, req, reply>>

\* The statement waits for the row's writer; a row that is gone is no error.
WriteBookmark(p) ==
  /\ pc[p] = "write"
  /\ req[p].kind \in {"update", "delete"}
  /\ LET b == req[p].b
     IN  /\ lock[b] \in {p, Nobody}
         /\ IF url[b] = Deleted THEN UNCHANGED <<newUrl, lock>>
            ELSE WriteUrl(p, b, IF req[p].kind = "delete" THEN Deleted ELSE req[p].url)
  /\ Go(p, "commit")
  /\ UNCHANGED <<email, accounts, url, req, reply>>

-----------------------------------------------------------------------------
Statement(p) ==
  \/ Exchange(p) \/ FindGoogle(p) \/ CreateUser(p) \/ CreateGoogleUser(p)
  \/ FindToken(p) \/ CreateToken(p)
  \/ FindUrl(p) \/ InsertBookmark(p) \/ WriteBookmark(p)
  \/ Commit(p)

LoginNext ==
  /\ about = "logins"
  /\ \/ \E p \in Request : BeginLogin(p)
     \/ \E g \in Google : ChangeEmail(g)

BookmarkNext ==
  /\ about = "bookmarks"
  /\ \E p \in Request : BeginBookmark(p)

Next ==
  /\ LoginNext \/ BookmarkNext \/ \E p \in Request : Statement(p)
  /\ UNCHANGED about

Spec == Init /\ [][Next]_vars

-----------------------------------------------------------------------------
\* Every user that is there is whole, whatever logins overlap, fail or panic: one
\* google_auth row and one token at least, and no two accounts are of one Google
\* user or have one address (handleOAuthGoogle).
AccountsAreWhole ==
  /\ \A u \in Kept(users) :
       /\ \E a \in Kept(google) : a.user = u.id /\ \A c \in Kept(google) : c.user = u.id => c = a
       /\ \E r \in Kept(tokens) : r.user = u.id
       /\ \A v \in Kept(users) : v.email = u.email => v = u
  /\ \A a, c \in Kept(google) : a.g = c.g => a = c

\* The token a login got is committed and belongs to the account of that Google
\* user, and stays so, also when addresses are changed and given to others
\* (authenticatePostOAuthGoogle).
TokensOpenAccounts ==
  \A p \in Request : reply[p].kind = "token" =>
    /\ \E r \in Kept(tokens) : r.user = reply[p].user /\ r.descr = <<reply[p].g, reply[p].email>>
    /\ \E a \in Kept(google) : a.g = reply[p].g /\ a.user = reply[p].user
    /\ \E u \in Kept(users) : u.id = reply[p].user

\* A login that Google has answered fails only if another one has made the account
\* meanwhile, so that the next will find it, or if the address is that of another
\* Google user's account.
LoginFailsForAReason ==
  [][\A p \in Request :
       req[p].kind = "login" /\ pc[p] \notin {"idle", "exchange"} /\ reply'[p] = Failed =>
         \/ SameGoogle(p, Kept(google)) # {}
         \/ \E u \in SameEmail(p, Kept(users)), a \in Kept(google) :
              a.user = u.id /\ a.g # req[p].g]_vars

\* Of the bookmarks of a user no two have one URL, if requests for one URL do not
\* overlap (CreateBookmark, UpdateBookmark: "check whether the bookmark with the
\* same URL already exists").
UrlsDistinct ==
  \A b, c \in Bookmark : url[b] \in Url /\ url[c] = url[b] => b = c
=============================================================================
