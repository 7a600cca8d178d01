------------------------------ MODULE EditPage ------------------------------
(***************************************************************************)
(* The page that creates or edits the bookmark of the current tab:         *)
(* background.js, which keeps one window of it, page-wrapper.js and        *)
(* edit-bookmark.js in that window, and its tag input.  Contexts of other  *)
(* pages are under other names in pagesCtx and share nothing with this one.*)
(*                                                                         *)
(* Each message with a tab (setCurTab) loads the page's content anew and   *)
(* initialises it, while callbacks of former initialisations are still to  *)
(* come and share the variables of the module with the new one.  The user  *)
(* is logged in, so that the promises on the way from the content to       *)
(* initLoggedIn are taken to be resolved at once.                          *)
(* Requests of the page are answered in the order they are sent (GmClient  *)
(* models connections that are lost); other clients change nothing.        *)
(***************************************************************************)
EXTENDS TagInput

CONSTANTS
  Url, NoUrl,            \* the current tab's, and that of a page just loaded
  Above,                 \* the tags above a path
  AtServer,              \* bookmarks and tags that are there
  MaxCommands, MaxEdits, MaxSubmits, MaxErrors   \* bounds

AnyUrl == Url \cup {NoUrl}
NoBookmark == 0   \* ids of bookmarks are serial numbers

BookmarkRow == [url : AnyUrl, tags : SUBSET TagPath]

\* Bookmarks are tagged with tags that exist.
Server == {s \in [bookmarks : Seq(BookmarkRow), tags : SUBSET TagPath] :
             \A b \in DOMAIN s.bookmarks : s.bookmarks[b].tags \subseteq s.tags}

ASSUME UrlAssumption == NoUrl \notin Url
ASSUME AboveAssumption == Above \in [TagPath -> SUBSET TagPath]
ASSUME AtServerAssumption == AtServer \subseteq Server

VARIABLES
  ctx,         \* background.js: pagesCtx of this page
  opening,     \* windows made that have not connected their port
  threw,       \* errors thrown in background.js
  page,        \* page-wrapper.js
  toPage,      \* tabs on their way to it (setCurTab)
  cleared,     \* clearCurTab is on its way to background.js
  inits,       \* number of calls of initLoggedIn
  form,        \* edit-bookmark.js and the fields of the page
  input,       \* the tag input of the last call
  waiting,     \* calls whose onConnected has not called back
  sent,        \* requests that are not answered
  subs,        \* submissions of the form
  server,      \* bookmarks and tags
  commands, edits, errors,    \* counters for the bounds
  overlapped   \* history: the last call came before the answers to a former one

backVars == <<ctx, opening, threw>>
wrapperVars == <<page, toPage, cleared>>
editVars == <<inits, form, input, waiting, sent, subs, overlapped>>
counters == <<commands, edits, errors>>
vars == <<backVars, wrapperVars, editVars, server, counters>>

Request ==
  [kind : {"tags"}, init : Nat]
    \cup [kind : {"lookup"}, init : Nat, id : Nat, url : AnyUrl]
    \cup [kind : {"addTag"}, init : Nat, sub : Nat, path : TagPath]
    \cup [kind : {"save"}, init : Nat, sub : Nat, id : Nat, url : AnyUrl,
          tags : SUBSET TagPath]

Submission ==
  [init : Nat, id : Nat, url : AnyUrl, tagIDs : SUBSET TagPath,
   newTagPaths : Seq(TagPath), addedCnt : Nat]

TypeOK ==
  /\ ctx \in [there : BOOLEAN, port : BOOLEAN, tab : AnyUrl]
  /\ opening \in Nat
  /\ threw \subseteq {"noPort", "portGone", "portExists"}
  /\ page \in [open : BOOLEAN, ready : BOOLEAN, curTab : AnyUrl, loads : Nat]
  /\ toPage \in Seq(Url)
  /\ cleared \in BOOLEAN
  /\ inits \in Nat
  /\ form \in [bkmID : Nat, curTabUrl : AnyUrl, url : AnyUrl, enabled : BOOLEAN]
  /\ input \in Instance
  /\ waiting \in Seq(1..inits)
  /\ sent \in Seq(Request)
  /\ subs \in Seq(Submission)
  /\ server \in Server
  /\ overlapped \in BOOLEAN

Absent == [there |-> FALSE, port |-> FALSE, tab |-> NoUrl]
NoPage == [open |-> FALSE, ready |-> FALSE, curTab |-> NoUrl, loads |-> 0]
EmptyForm == [bkmID |-> NoBookmark, curTabUrl |-> NoUrl, url |-> NoUrl, enabled |-> FALSE]

Init ==
  /\ ctx = Absent /\ opening = 0 /\ threw = {}
  /\ page = NoPage /\ toPage = <<>> /\ cleared = FALSE
  /\ inits = 0 /\ form = EmptyForm /\ input = Fresh
  /\ waiting = <<>> /\ sent = <<>> /\ subs = <<>>
  /\ server \in AtServer
  /\ commands = 0 /\ edits = 0 /\ errors = 0
  /\ overlapped = FALSE

-----------------------------------------------------------------------------
(* background.js *)

\* (variant: a page whose port is not there yet is opened again)
IsThere_WithPort == ctx.port

\* portName in pagesCtx
IsThere == ctx.there

\* openOrRefocusPageWrapper for the tab with the URL u.  The tab is remembered
\* before the message with it may throw.
Command(u) ==
  /\ commands < MaxCommands
  /\ commands' = commands + 1
  /\ IF ~IsThere
       THEN /\ ctx' = [there |-> TRUE, port |-> FALSE, tab |-> u]
            /\ opening' = opening + 1
            /\ UNCHANGED <<threw, toPage>>
       ELSE /\ ctx' = [ctx EXCEPT !.tab = u]
            /\ toPage' = IF ctx.port /\ page.open THEN Append(toPage, u) ELSE toPage
            /\ threw' = threw \cup (IF ~ctx.port THEN {"noPort"}
                                    ELSE IF ~page.open THEN {"portGone"} ELSE {})
            /\ UNCHANGED opening
  /\ UNCHANGED <<page, cleared, editVars, server, edits, errors>>

\* The script of a new window connects its port, onConnect answers with the tab.
Connect ==
  /\ opening > 0
  /\ opening' = opening - 1
  /\ page' = [NoPage EXCEPT !.open = TRUE]
  /\ IF ctx.port
       THEN threw' = threw \cup {"portExists"} /\ UNCHANGED <<ctx, toPage>>
       ELSE ctx' = [ctx EXCEPT !.port = TRUE] /\ toPage' = <<ctx.tab>> /\ UNCHANGED threw
  /\ UNCHANGED <<cleared, editVars, server, counters>>

\* clearCurTab arrives.
ClearCurTab ==
  /\ cleared
  /\ cleared' = FALSE
  /\ ctx' = Absent
  /\ UNCHANGED <<opening, threw, page, toPage, editVars, server, counters>>

-----------------------------------------------------------------------------
(* page-wrapper.js *)

\* initIfReady: the content is loaded if the document and the tab are there.
IfReady(pg) ==
  IF pg.ready /\ pg.curTab # NoUrl THEN [pg EXCEPT !.loads = @ + 1] ELSE pg

SetCurTab ==
  /\ page.open /\ toPage # <<>>
  /\ page' = IfReady([page EXCEPT !.curTab = toPage[1]])
  /\ toPage' = Tail(toPage)
  /\ UNCHANGED <<backVars, cleared, editVars, server, counters>>

DocumentReady ==
  /\ page.open /\ ~page.ready
  /\ page' = IfReady([page EXCEPT !.ready = TRUE])
  /\ UNCHANGED <<backVars, toPage, cleared, editVars, server, counters>>

\* A window is closed before its script has run: background.js does not hear of it.
CloseEarly ==
  /\ opening > 0
  /\ opening' = opening - 1
  /\ UNCHANGED <<ctx, threw, wrapperVars, editVars, server, counters>>

\* The window is closed, by its user or by its script: beforeunload sends clearCurTab.
\* What is sent goes on, but nobody gets the answers.
Unload ==
  /\ page' = NoPage
  /\ toPage' = <<>>
  /\ cleared' = TRUE
  /\ form' = EmptyForm /\ input' = Fresh /\ waiting' = <<>>

Orphaned(requests) == [i \in DOMAIN requests |-> [requests[i] EXCEPT !.init = 0]]

CloseWindow ==
  /\ page.open
  /\ Unload
  /\ sent' = Orphaned(sent)
  /\ UNCHANGED <<backVars, inits, subs, overlapped, server, counters>>

-----------------------------------------------------------------------------
(* edit-bookmark.js *)

LookupsOut == {i \in DOMAIN sent : sent[i].kind = "lookup"}

\* (variant: the id of the bookmark is kept)
Initialised_KeepsID == [EmptyForm EXCEPT !.bkmID = form.bkmID, !.curTabUrl = page.curTab]

\* init: bkmID is the one of the window's query string, 0 for this page.
Initialised == [EmptyForm EXCEPT !.curTabUrl = page.curTab]

\* The content is loaded, then init and initLoggedIn run in it.
Loaded ==
  /\ page.open /\ page.loads > 0
  /\ page' = [page EXCEPT !.loads = @ - 1]
  /\ inits' = inits + 1
  /\ form' = Initialised
  /\ input' = Fresh
  /\ waiting' = Append(waiting, inits')
  /\ overlapped' = (waiting # <<>> \/ LookupsOut # {})
  /\ UNCHANGED <<backVars, toPage, cleared, sent, subs, server, counters>>

\* The callback of onConnected: the bookmark is asked for by its id or by its URL.
Connected ==
  /\ waiting # <<>>
  /\ waiting' = Tail(waiting)
  /\ sent' = Append(sent, [kind |-> "lookup", init |-> waiting[1], id |-> form.bkmID,
                           url |-> IF form.bkmID = NoBookmark THEN form.curTabUrl ELSE NoUrl])
  /\ UNCHANGED <<backVars, wrapperVars, inits, form, input, subs, overlapped, server, counters>>

\* The user at the tag input.
TagQuery == [kind |-> "tags", init |-> inits]
IsInitialised == form.curTabUrl # NoUrl

Edited == edits < MaxEdits /\ edits' = edits + 1 /\ UNCHANGED <<commands, errors>>

TypeText(p) ==
  /\ IsInitialised /\ Edited
  /\ input.typed # p
  /\ input' = Type(input, p)
  /\ sent' = IF input.loading = NoText THEN Append(sent, TagQuery) ELSE sent
  /\ UNCHANGED <<backVars, wrapperVars, inits, form, waiting, subs, overlapped, server>>

ChangeTags ==
  /\ Edited
  /\ \/ input.typed # NoText /\ input' = Commit(input)
     \/ input.menu /\ \E t \in ToSet(input.curTagsArr) : input' = Choose(input, t)
     \/ \E t \in ToSet(input.tags) : input' = Delete(input, t)
  /\ UNCHANGED <<backVars, wrapperVars, inits, form, waiting, sent, subs, overlapped,
                 server>>

-----------------------------------------------------------------------------
(* Saving *)

\* saveBookmark of the submission s, numbered i: the id and the fields are those
\* of now.
SaveRequest(i, s) ==
  [kind |-> "save", init |-> s.init, sub |-> i, id |-> form.bkmID, url |-> form.url,
   tags |-> s.tagIDs]

AddTagRequests(i, s) ==
  [j \in DOMAIN s.newTagPaths |->
     [kind |-> "addTag", init |-> s.init, sub |-> i, path |-> s.newTagPaths[j]]]

\* The form is submitted: the new tags are created first, by one request each.
\* The focus has left the tag input.
Submit ==
  /\ form.enabled
  /\ input.typed = NoText
  /\ Len(subs) < MaxSubmits
  /\ LET s == [init |-> inits, id |-> form.bkmID, url |-> form.url,
               tagIDs |-> input.selectedTagIDs,
               newTagPaths |-> input.selectedNewTagPaths, addedCnt |-> 0]
         i == Len(subs) + 1
     IN  /\ subs' = Append(subs, s)
         /\ sent' = sent \o (IF s.newTagPaths = <<>> THEN <<SaveRequest(i, s)>>
                             ELSE AddTagRequests(i, s))
  /\ UNCHANGED <<backVars, wrapperVars, inits, form, input, waiting, overlapped, server, counters>>

\* (variant: the bookmark is saved with each tag)
AllAdded_Any(s) == s.addedCnt > 0

AllAdded(s) == s.addedCnt = Len(s.newTagPaths)

-----------------------------------------------------------------------------
(* The server runs the request r, and the page gets the answer: ok is FALSE *)
(* for an error of the server's own.                                        *)

WithUrl(u) == {b \in DOMAIN server.bookmarks : server.bookmarks[b].url = u}

\* The tag input of a former call is not on the page any more.
AnswerTags(r, ok) ==
  /\ r.kind = "tags"
  /\ IF r.init # inits THEN sent' = Tail(sent) /\ UNCHANGED input
     ELSE /\ input' = IF ok THEN Answered(input, server.tags) ELSE Failed(input)
          /\ sent' = Tail(sent) \o (IF input'.loading = NoText THEN <<>> ELSE <<TagQuery>>)
  /\ UNCHANGED <<wrapperVars, form, waiting, subs, server>>

\* applyBookmarkData for the bookmark b, and enableFields.  The tags go to the input
\* of the call that asked.
Apply(r, b, id) ==
  /\ form' = [form EXCEPT !.bkmID = id, !.enabled = TRUE,
                          !.url = IF server.bookmarks[b].url = NoUrl THEN @
                                  ELSE server.bookmarks[b].url]
  /\ input' = IF r.init # inits THEN input
              ELSE AddTags(input, server.bookmarks[b].tags)

\* getBookmarkByID, which leaves bkmID alone, or getBookmarksByURL
AnswerLookup(r, ok) ==
  /\ r.kind = "lookup"
  /\ IF r.init = 0 \/ ~ok THEN UNCHANGED <<form, input>>
     ELSE IF r.id # NoBookmark THEN Apply(r, r.id, form.bkmID)
     ELSE IF WithUrl(r.url) # {} THEN \E b \in WithUrl(r.url) : Apply(r, b, b)
     ELSE /\ form' = [form EXCEPT !.url = form.curTabUrl, !.enabled = TRUE]
          /\ UNCHANGED input
  /\ sent' = Tail(sent)
  /\ UNCHANGED <<wrapperVars, waiting, subs, server>>

\* A tag that exists is refused; the missing ones above a new tag are made with it.
AnswerAddTag(r, ok) ==
  /\ r.kind = "addTag"
  /\ IF ~ok \/ r.path \in server.tags THEN UNCHANGED <<server, subs>> /\ sent' = Tail(sent)
     ELSE /\ server' = [server EXCEPT !.tags = @ \cup {r.path} \cup Above[r.path]]
          /\ subs' = [subs EXCEPT ![r.sub].tagIDs = @ \cup {r.path},
                                  ![r.sub].addedCnt = @ + 1]
          /\ sent' = Tail(sent) \o (IF r.init # 0 /\ AllAdded(subs'[r.sub])
                                      THEN <<SaveRequest(r.sub, subs'[r.sub])>> ELSE <<>>)
  /\ UNCHANGED <<wrapperVars, form, input, waiting>>

\* UpdateBookmark and CreateBookmark refuse a URL that another bookmark has.
IsRefused(r) == r.url # NoUrl /\ ~(WithUrl(r.url) \subseteq {r.id})

\* The tags a bookmark shows are the lowest ones.
Row(r) == [url |-> r.url, tags |-> {t \in r.tags : \A u \in r.tags : t \notin Above[u]}]

\* When the bookmark is saved, the page closes its window.
AnswerSave(r, ok) ==
  /\ r.kind = "save"
  /\ IF ~ok \/ IsRefused(r)
       THEN sent' = Tail(sent) /\ UNCHANGED <<wrapperVars, form, input, waiting, server>>
       ELSE /\ server' = [server EXCEPT !.bookmarks =
                            IF r.id = NoBookmark THEN Append(@, Row(r))
                            ELSE [@ EXCEPT ![r.id] = Row(r)]]
            /\ IF r.init = 0
                 THEN sent' = Tail(sent) /\ UNCHANGED <<wrapperVars, form, input, waiting>>
                 ELSE sent' = Orphaned(Tail(sent)) /\ Unload
  /\ UNCHANGED subs

Answer ==
  /\ sent # <<>>
  /\ \E ok \in BOOLEAN :
       /\ errors' = IF ok THEN errors ELSE errors + 1
       /\ errors' <= MaxErrors
       /\ \/ AnswerTags(sent[1], ok) \/ AnswerLookup(sent[1], ok)
          \/ AnswerAddTag(sent[1], ok) \/ AnswerSave(sent[1], ok)
  /\ UNCHANGED <<backVars, inits, overlapped, commands, edits>>

-----------------------------------------------------------------------------
Next ==
  \/ \E u \in Url : Command(u)
  \/ Connect \/ ClearCurTab
  \/ SetCurTab \/ DocumentReady \/ CloseEarly \/ CloseWindow
  \/ Loaded \/ Connected
  \/ \E p \in Pattern : TypeText(p)
  \/ ChangeTags \/ Submit
  \/ Answer

Spec == Init /\ [][Next]_vars

-----------------------------------------------------------------------------
\* There is one window of the page at most, and no second port connects ("port for
\* ... already exists when new port connection is created"), whenever commands,
\* closed windows and the messages about them come.
OnePage ==
  /\ TypeOK
  /\ "portExists" \notin threw
  /\ opening + (IF page.open THEN 1 ELSE 0) <= 1

\* When nothing is on its way any more, the form shows the tab of the last command,
\* and saving it will change the bookmark with that URL or create one if there is
\* none ("There's no ID of the bookmark to edit: let's check if there is a bookmark
\* with the URL of the current tab"), however often the page was initialised, if not
\* before a former lookup was answered.
FormIsForTab ==
  (/\ page.open /\ toPage = <<>> /\ page.loads = 0
   /\ waiting = <<>> /\ LookupsOut = {} /\ form.enabled
   /\ ~overlapped) =>
     /\ form.url = ctx.tab
     /\ form.bkmID \in WithUrl(ctx.tab) \cup {NoBookmark}
     /\ form.bkmID = NoBookmark => WithUrl(ctx.tab) = {}

\* A bookmark is saved with all the tags that were chosen when its form was submitted,
\* each of which exists by then, and under the id and URL the form had, if the page
\* was not initialised again while tags were created.
SavedAsMeant ==
  \A r \in ToSet(sent) : r.kind = "save" =>
    LET s == subs[r.sub]
    IN  /\ r.tags = s.tagIDs
        /\ ToSet(s.newTagPaths) \subseteq r.tags
        /\ r.tags \subseteq server.tags
        /\ (s.init = inits /\ ~overlapped) => r.id = s.id /\ r.url = s.url

QueriesOut == {i \in DOMAIN sent : sent[i] = TagQuery}

\* A request for suggestions that the input waits for is really out, and when none
\* is, what is typed has got its suggestions and no tag entered by its text is left
\* without ("a 'pending' tag, which will be replaced by a real one once we get a
\* response"), unless another text was typed while it waited or a request failed.
TypedIsAsked ==
  /\ IF input.loading = NoText THEN QueriesOut = {}
     ELSE \E i \in QueriesOut : QueriesOut = {i}
  /\ input.loading = NoText =>
       /\ input.tagsPending \subseteq input.givenUp
       /\ input.typed \in {NoText} \cup input.givenUp
            \/ input.curTagsArr = Suggested[input.typed]
=============================================================================
