# Geekmarks in TLA+

Models, model-checking runs and machine-checked proofs of
[geekmarks](../src/README.md), a bookmarking service whose tags form a tree:
a Go server over PostgreSQL, and a browser extension that talks to it over
HTTP and WebSocket. Paths below are relative to the repository (`src/`).

* [1. The system](#1-the-system): inventory of components
* [2. The modules](#2-the-modules): which module models what, and how
* [3. The runs](#3-the-runs): what TLC checks, with which bounds
* [4. The proofs](#4-the-proofs): what TLAPS proves, from what, and how
* [5. What the checks found](#5-what-the-checks-found)
* [6. What is not modelled](#6-what-is-not-modelled)
* [7. Plan](#7-plan)

To check: `tlc -workers 2 -config TagStoreTree.cfg MCTagStore` and so on, as
listed in section 3; `tlapm TagTreeProofs.tla` and so on for the modules of
section 4.

## 1. The system

A tag has a parent (the user's root tag has none), several names of which one
is primary, and `children_cnt`, a redundant count of its children. A taggable
(a bookmark is the only kind) is tagged with a set of tags. The rule that
shapes most of the storage code: *a bookmark tagged with a tag is tagged with
all its ancestors too*, so that a search for a tag is one join. Clients see
only the lowest of a bookmark's tags (mode `leafs`).

| Component | State | Operations | Correct when |
| --- | --- | --- | --- |
| **Tag hierarchy of one bookmark**, `storage/postgres/internal/taghier` | maps id to parent, children; leafs, roots | `Add` (with all ancestors), `Move` with leaf policy, `GetAll`, `GetLeafs`, `IsSubnode`, `GetPath` | the maps agree with each other and with the tree, whatever the order of `Add`s; `Move` removes just the new leafs |
| **Tags and taggings**, `storage/postgres/{tags,taggings,taggables,bookmarks,users}.go` | tables `tags`, `tag_names`, `taggables`, `taggings` | create, move, rename, delete a tag; create, retag, delete a bookmark | one tree; full paths; no bookmark with the root tag only; counts exact; names distinct under a parent; one primary name |
| **Integrity check**, `storage/postgres/maintenance.go` | none | reads all tables | it says what the storage must keep |
| **Transactions**, `storage/postgres/transaction.go` | a connection, row locks | `TxOpt` runs a function and commits or rolls back | all or nothing; no connection is lost |
| **Tag handlers and tags tree cache**, `server/server/tags.go`, `tags_debug.go` | per user a struct, per path a tree; two mutexes | `GET`, `POST`, `PUT`, `DELETE /tags/*` | a client that was told of a change sees it; a stale tree does not stay |
| **Tag paths and new tags**, `GetTagIDByPath`, `getTagIDFromPath`, `getNewTagDetails` | none | look-up, suggestion and creation of the tags a path lacks | a path leads to one tag; what is suggested can be created |
| **Tag name rules**, `ValidateTagName`, `CleanupTagName` | none | pure functions | a cleaned name is valid |
| **Tag pattern matching**, `server/tagmatcher` | priorities per matched tag | pure function | all tags that match are found, in a useful order |
| **Bookmark handlers**, `server/server/bookmarks.go` | none | `/bookmarks` | one bookmark per URL and user; the taggings are those asked for |
| **Accounts**, `authn*.go`, `oauth.go`, `authz.go`, `users.go` | tables `users`, `google_auth`, `access_tokens` | login, token creation, checks | one account per Google user, whole; a token opens its account |
| **Migrations**, `server/dfmigrate`, `storage/postgres/migrations.go` | schema, number of the last migration | `Migrate` | none is left out; no mixture of two schemas; served rows are ready |
| **WebSocket and routing**, `websocket.go`, `server.go`, `request.go`, `httphelper`, `middleware` | connection, reader goroutine | a request per message; answers carry its id | an answer for every request that arrives |
| **Client connection**, `client/common/core/gmclient.js`, `chrome-ext/core/gmclient-bridge.js` | pending requests by id, requests scheduled while disconnected, sockets and timers | send, receive, reconnect | a request runs at most once, gets its own answer at most once, and gets it if the connection stays |
| **Tag input**, `client/common/webui/tag-requester.js` | request in flight, pending pattern, pending tags | type, choose, answer | suggestions for the last pattern; a tag entered early is there when they come |
| **Extension pages**, `chrome-ext/core/background.js`, `page-wrapper.js` | windows and ports by page | open, focus, connect, close, login | one window per page, messages to a live port |
| **Saving a bookmark**, `edit-bookmark.js` | tags still to be created | create tags, then save | saved once, after its tags |
| Other pages of the extension, program start, vendored code | widgets | | not modelled |

How they interact. A request comes in by HTTP or as a WebSocket message and
runs on a goroutine of its own through the same handler. The handler checks
authorisation, runs one transaction of storage calls, and for `/tags` reads,
fills or invalidates the in-memory cache outside the transaction. A move of a
tag builds, per bookmark under it, a `TagHier` from the database (its registry
is the open transaction), moves the tag in it, and writes its tags back as the
bookmark's taggings. The extension's pages reach the client in the background
page through ports.

What makes it hard:

* the taggings are derived data, rewritten bookmark by bookmark at each move,
  by an algorithm with an in-place update of shared maps;
* `children_cnt` is redundant and maintained by hand in three operations;
* cache reads, cache fills, commits and invalidations interleave freely: no
  lock spans a database read and the store of its result;
* the process may end at any time (a panic on a WebSocket goroutine is not
  recovered) and lose the cache and all handlers, some of which have committed;
* transactions run at PostgreSQL's READ COMMITTED, and checks (`IsSubnode`,
  `tagExists`) are statements of their own;
* on the client, answers may be lost with the connection, and pages and ports
  come and go;
* a migration and the number that says it was done are two transactions, and
  several servers may start at once;
* rows that should be there once are looked for and then inserted.

`PROJECT.json` lists these as hazards, each at its line, with the properties
that cover it, or why none does.

## 2. The modules

```
 TagTree ------------ trees, paths, closures, TagHier.Move in closed form
  |- TagHier           taghier.go as written, call by call   <- MCTagHier
  |    '- TagTreeProofs        lemmas about trees, theorems about TagHier
  |- TagStore          tables under all requests, serial
  |    |- INSTANCE BookmarkTags   what users see of it (abstract)
  |    '- TagLookup    what is read: tree, paths, patterns   <- MCTagStore
  |- TagTx             the requests as transactions          <- MCTagTx
  |    |- INSTANCE TagStore       what they amount to (abstract)
  |    '- TagTxProofs             locks and waiting
  '- TagStoreProofs    theorems about TagStore and TagLookup, and that it
                       implements BookmarkTags (EXTENDS TagLookup, TagTreeProofs)

 TagsCache ----------- cache and /tags handlers              <- MCTagsCache
  |- INSTANCE FreshReads          what readers are promised (abstract)
  '- TagsCacheProofs   theorems about TagsCache

 Schema -------------- the twenty migrations
  '- DfMigrate         servers that apply them               <- MCDfMigrate
       '- DfMigrateProofs

 Keys ---------------- logins and bookmark URLs              <- MCKeys
  '- KeysProofs

 GmClient ------------ client, sockets, server goroutines    <- MCGmClient
  '- GmClientProofs

 TagInput ------------ the tag input as operators on a record
  '- EditPage          page, its window, form and requests   <- MCEditPage
       '- EditPageProofs
```

**TagTree** has no state. A tree is a function from tag ids to parent ids
(`tags.parent_id`; `NoTag` is the code's 0). `Path(p, x)` is the least set that
holds `x` and is closed under "parent of": the code computes it by recursion,
which the prover cannot follow, while a least set needs no induction to reason
about. `Rooted` says "one tree" in the same style: each non-empty closed set of
tags reaches the root, so there is neither a cycle nor a second root.
`TagsAfterMove`, `NewLeafs` and `MovePanics` state what `TagHier.Move` and
`removeChild` leave, the link bookkeeping included: the child is added to the
new parent *before* it is deleted from the old one.

**TagHier** is `taghier.go` with its recursion, its loops and its maps, which are
a record like the Go struct. The prover takes no recursive operators, so a
recursion is the function of its calls: `calls[n]` of `AddInternal` is what the n-th
nested call finds, with the calls that wait for it (`open`); `AddItem` and
`TakeChild` are one call until the next one, `AddLinks` and the end of `RemoveChild`
what the open ones still do when they return. `Ups` is the loop over parent ids in
`IsSubnode` and `GetPath`. No recursion is longer than `Depth`, one more than there
are tags, which is proved and not assumed. The actions are `Add`, in any order and
repeated, and one `Move` (the callers drop the object after it). It is here to
show that TagTree's closed forms are what the code computes
(`WholePaths`, `QueriesAgree`, `MoveAsInTagTree`), so that TagStore and
the proofs may use them.

**TagStore** holds the tables of one user (tags of other users are refused
before anything is changed). One action is one request, in its transaction:

| Action | Code | Remarks |
| --- | --- | --- |
| `CreateTag` | `userTagsPost`, `CreateTag` | counts the child, checks names among the siblings |
| `CreateTagWithIntermediary` | `getTagIDFromPath` with `createIntermediary` | one missing tag on the path; more are more of the same |
| `MoveOnly`, `RenameTag`, `MoveAndRename` | `userTagPut`, `UpdateTag` | the move comes first, names are then checked under the new parent; taggings of each affected bookmark are rewritten through `HierCur` and `TagsAfterMove` |
| `MovePanic` | the same, when `removeChild` goes beyond the root | nothing is committed |
| `DeleteTag` | `userTagDelete`, `DeleteTag` | cascade over the subtree, clean-up of root-only bookmarks |
| `CreateTaggable`, `UpdateTaggable`, `DeleteTaggable` | `/bookmarks` handlers, `SetTaggings` | closure of the tags asked for |

A request that fails is rolled back and is no step. Names, like ids, are model
values; a tag's list of names is a set with a first element, the only order
`UpdateTag` looks at. `Unusual` is the set of three requests the code accepts
although they break one of its own rules (section 5). With `Unusual = {}` the
model has all other requests; properties that hold only then say so.

A search by tags (`GetTaggedTaggableIDs`) only looks a tag up in `taggings`;
`SearchFindsBelow` says what that finds: the bookmarks with a tag of their own (a
lowest one) at the tag or below it.

**BookmarkTags** is the specification of TagStore a user would write: a bookmark
has the tags its user chose (no closures, no counts, no hierarchies), a move
changes them only by adding the old parent under policy *keep*, a deletion
moves bookmarks up. TagStore implements it under
`chosen <- Leafs(parent, taggings[b])`.

**TagLookup** adds to TagStore what its readers do, as operators on the tables:
`GetTag` with its recursion over subtags that trusts `children_cnt` and joins on
the primary name (`Levels`: the calls of one depth together, as functions of the depth;
a tree is no deeper than there are ids), `GetTagIDByPath` with its loop over the names, `NewTagDetails` (the longest part of a path
that exists, and the names after it) and the matcher (`MatchPart`, `MatchParts`, `FilterTags`:
words are split at slashes and matched from the last part to the first). A query
that may return any of several rows is the set of them. Each is compared with a
definition that does not say how: the subtree, the path of a tag by any of its
names, "the parts match different tags of the path in order". A pattern's part is a
name, the empty text, or a text that is in every name (`Common`), which is all the
matcher's choice of a position depends on.

**TagTx** runs the same requests as transactions at READ COMMITTED, one SQL
statement per step:

| Request | Statements (`steps`) |
| --- | --- |
| create | `SelectParent`, `CountUp`, `InsertTag`, then per name `CheckName`, `InsertName` |
| move | `Walk` (one `GetParent` per tag not known yet), `GetAffected`, per bookmark `NextBookmark`, `Walk`, `Current`, `Apply`, then `SetParent`, `CountDown`, `CountUp` |
| rename | `GetNames`, `GetParent`, `CheckName` and `InsertName` per new name, `DeleteNames`, `SetPrimary` |
| delete | `GetTag`, per row of the cascade `NextRow`, `DeleteRow`, then `CountDown`, `GetRootOnly`, per bookmark `NextRootOnly`, `Current`, `Apply` |
| tag | `UpdateBookmark`, `Walk`, `Current`, `Apply` |

`com` has the committed rows, `cur` those of the open transactions, `lock` the
writer of a row, `share` the transactions whose foreign keys refer to a tag
(`FOR KEY SHARE`: it conflicts with the tag's deletion, not with an update of its
count). A statement waits while `Blockers(p)` is not empty, then works on what is
committed by then; a circle of waiting transactions ends with the failure of one
of them. `Commit`, `Fail` (with rollback) and `Panic` (without) are the ends of
`TxOpt`. A request that has panicked keeps its transaction open, and its locks (`Holds`);
those that need one of these rows wait from then on. A request's local variables, `loc`, are what it read before. The rows a
loop over one table writes are written in one step; that only hides deadlocks.
TagTx and TagStore are connected by `Serializable`: each commit is a step of
TagStore on the committed rows.

**Schema** has the migrations as data: a schema maps objects (columns, keys,
constraints, indexes, triggers, types) to what they are, and a migration says
which it drops, creates (an error if there), changes (an error if not there),
creates or replaces, and needs. `RefusesRows`, `TriggerRaises` and `RowsAfter` say what
a migration does with rows; rows are kept as far as migrations look at them. Migration
12 creates its indexes without names, so each run of it adds a set: the schema says
that its columns have an index, `IndexesAfter` how many.

**DfMigrate** is `Migrate` as a server runs it at its start: `Initialize`,
`GetCurrentMigrationID`, then `Apply` and `SetCurrentMigrationID` in turn, each a
transaction of its own. Several servers start at once, any of them may stop
anywhere (`Stop`) and come back with another version. Between upgrades
`UseBookmarks` and `UseTags` write what the schema of the time admits: the older
programs are not in the repository. Servers alive at the same time are of one
version.

**Keys** has the requests that look for a row and insert one if there is none.
`authenticatePost` is `Exchange` (Google answers, fails, or gives the answers that
make the handler panic), `FindGoogle`, `CreateUser`, `CreateGoogleUser`,
`FindToken`, `CreateToken`, `Commit`; unique keys make an INSERT wait for the open
transaction with the same key and fail if it commits. Addresses change and change
hands (`ChangeEmail`). The bookmark requests are `FindUrl`, `InsertBookmark`,
`WriteBookmark`, `Commit`; no key backs them. Logins and bookmarks share no row,
so a behaviour has requests of one kind (`about`).

**TagsCache** is the cache of one user with any number of reader and writer
goroutines. A step is one map operation under a mutex, or one database access:
`GetCache`, `SetCache`, `GetTagData`, `Query`, `SetTagData`, `Respond` of a
reader, `Commit`, `Invalidate` of a writer. Trees are version numbers: a tree
that was fetched starting at version `v` shows `v` or later. Cache structs are
addresses that the garbage collector reuses when nobody refers to them.
`AddTestTagsTree` is the debug handler that changes tags and does not touch
the cache, `Restart` the end of the process. `since` and `answer` are history.

**FreshReads** is the promise: a response shows the tags as of some time not
before the last change *confirmed* to anybody when the request began.

**GmClient** is `gmclient.js` on top of the bundled `reconnecting-websocket.js`,
with the server's goroutine per connection. One JavaScript event handler is one
step. `ReconnectingWebSocket.open` makes a new socket without looking at the old
one, so the model has numbered sockets with a `phase` each (their `readyState`),
and `ws` is the last one made:

| Action | Code |
| --- | --- |
| `Send` | an API call: sent with the next id while `isConnected`, else put in `scheduledRequests` with a kick `ws.open()` |
| `OnConnected`, `ClosePage` | a page waits for the connection; a page goes, and its callback (a `postMessage` to its port) throws from then on |
| `Opened` | the socket's `onopen`, then the client's: the waiting callback, then the scheduled requests, in turn, until one throws |
| `GoesDown`, `Closed`, `ConnectFails` | a connection ends: `ws` is cleared, a timer starts, `isConnected` is cleared unless it was a reconnection attempt |
| `Reconnect` | the timer: another `open` |
| `Receive` | `onmessage`: the callback under the message's id is called and removed |
| `Serve`, `ServerLeaves` | the goroutine takes a message, runs it, writes the answer; or ends with the connection |

A `WebSocket` throws when it is sent something while it is connecting and drops
it when it is closing; both are modelled (`WsThrows`, `WsSends`). Requests are
model values; `handled` counts how often the server ran one, `called` what its
callback got.

**TagInput** is `tag-requester.js`: the local variables of `create` as a record
(`Instance`) and a handler as an operator from such a record to the next. `Type`
is `source`, `Commit` and `Choose` are what `beforeTagSave` decides for a text and
for a suggestion, `Answered` and `Failed` the callback of `getTagsByPattern`, with
`Replace` for the tag that waits and `NextQuery` for the text that waits. The
widget appears as the calls it makes. `givenUp` is history: texts that were not
asked for, or not answered.

**EditPage** is the page that saves the bookmark of the current tab, from the
keyboard command to the closed window. `background.js` keeps `ctx`, the entry of
the page in `pagesCtx`; `page` is `page-wrapper.js` in its window; `form` and
`input` are the variables of `edit-bookmark.js` and the fields of the page, `subs`
the submissions (the closures of the submit handler).

| Action | Code |
| --- | --- |
| `Command` | `openOrRefocusPageWrapper`: a new window, or a message with the tab, which throws if there is no port |
| `Connect`, `ClearCurTab` | the port of a new window; the message of one that closes |
| `SetCurTab`, `DocumentReady`, `Loaded` | each tab that comes loads the content again (`initIfReady`), and `init` begins anew |
| `CloseEarly`, `CloseWindow` | the user closes the window, before or after its script ran |
| `Connected` | the bookmark is asked for by id or by URL |
| `TypeText`, `ChangeTags` | the user at the tag input |
| `Submit` | one `addTag` per new tag, or the bookmark at once |
| `Answer` | the server runs the next request and its callback is called: suggestions, the bookmark, a new tag (after the last one the bookmark is saved), the saved bookmark |

A request carries the number of the initialisation that sent it (`init`), which
stands for the closure of its callback; what is not in that closure (`bkmID`, the
fields) is the page's of the moment. The server has bookmarks with a URL and tags,
and refuses what the handlers refuse.

## 3. The runs

| Run | Config, module | States | Checks |
| --- | --- | --- | --- |
| store_tree | TagStoreTree, MCTagStore | 1793 | integrity rules; TagStore implements BookmarkTags; searches |
| store_unusual | TagStoreUnusual, MCTagStore | 7324 | names, look-ups, and what survives unusual requests |
| store_same_parent | TagStoreSameParent, MCTagStore | | violation, section 5 |
| hier | TagHier, MCTagHier | 13004 | the maps of a TagHier after any Adds and a move, and TagTree's closed forms |
| tx | TagTx, MCTagTx | 451380 | two requests at a time are as one after the other; waiting |
| tx_two_moves | TagTxTwoMoves, MCTagTx | | violation, section 5 |
| cache | TagsCache, MCTagsCache | 603480 | the inductive invariant, freshness, refinement of FreshReads |
| cache_current | TagsCacheCurrent, MCTagsCache | 712383 | current when quiet; stale trees go (liveness) |
| migrate | DfMigrate, MCDfMigrate | 777474 | migrations with crashes, two servers at once |
| keys | Keys, MCKeys | 75926 | accounts, tokens, URLs |
| client | GmClient, MCGmClient | 20663 | requests over connections that come and go |
| edit_page | EditPage, MCEditPage | 851659 | a page that is opened, refocused, closed and saved while answers are out |

(States are distinct states, up to symmetry where a config has it.)

The properties:

* `OneTree` (in `TreeInv`), `FullTaggingPath`, `NoRootOnlyTagging`,
  `ChildrenCntOK` are the four checks of `maintenance.go`, as invariants of every
  sequence of requests. `NoPanic`: no move goes up beyond the root.
* `ImplementsBookmarkTags`: moves, deletions and retagging change the tags a
  bookmark shows exactly as its user would say. *Keep* takes nothing from a
  bookmark, *del* gives it no leaf it did not have.
* `TreeReadsWhole`, `PathsLead`, `MatcherFindsAll`, `SearchFindsBelow`: what is read from the tables, in any state requests can leave
  them in, is what the reader asked for.
* `MapsAgree`, `WholePaths` are the data structure invariants of a TagHier;
  `WholePaths`, `QueriesAgree`, `MoveAsInTagTree` compare it with TagTree.
* `Serializable`: requests that overlap, if of no pair in `Clash`, have the effect
  of TagStore's requests one after the other in commit order. So every
  invariant of TagStore holds of the committed rows. `WaitsForOpen`: a request
  waits only for transactions that are open, and among the requests it waits for,
  directly or through others, one can go on, or is in a circle that PostgreSQL
  breaks, or has panicked. The last case is real: a *del* move of a tag to the parent
  it has may rewrite one bookmark and panic on the next, and then a tagging of the
  first one waits for good (section 5). `CommittedTree` is `OneTree` of
  the committed rows.
* `SavedIsApplied`, `SchemaIsWhole`, `ServedRowsAreReady`, `FailsForAReason`,
  `DownLeadsBack`: no migration is left out, whatever stops; the tables, columns,
  keys, triggers, types and functions are always those of the first k migrations, also
  when one runs a second time after later ones (of the indexes of migration 12 there
  is one more set for each further run of it, and nothing else changes); rows written under any older version have primary names and right
  counts when a newer server serves them; migrations do not get in each other's
  way.
* `AccountsAreWhole`, `TokensOpenAccounts`, `LoginFailsForAReason`, `UrlsDistinct`:
  no login that overlaps, fails or panics leaves half an account or opens
  another one's.
* `AnswersFresh`: read-your-writes, and everybody else's confirmed ones.
  `CacheCurrent`: with no handler between commit and invalidation, every
  published tree is current. `StaleTreesGo`: a stale published tree goes.
* `CalledBackRight`, `Accounted`: each request is run at most
  once, gets its own answer at most once, and stays in one of the client's
  tables until then, although lists are sent again after an exception and
  several sockets are open. `ScheduledAreSent`, `AnsweredWhileUp`: scheduled
  requests go out, and a request on a connection that stays up is answered.
* `OnePage`: commands, windows and ports that come in any order never give two
  windows of a page. `FormIsForTab`: when all is quiet, the form is that of the last
  command's tab and saving it changes that tab's bookmark. `SavedAsMeant`: a bookmark
  is saved with the tags of its form, once they all exist. `TypedIsAsked`: a text
  or a tag that waits for an answer is asked for after it.

**Bounds.** `TagId`, `Name`, `Taggable`, `Reader`, `Writer`, `Key`, `Cache` are
finite sets; `MaxNames` bounds the names of one tag and `MaxVersion` the
changes. Five tags give a root, a chain of three and a sibling anywhere: the
moves that matter (chain to chain, up, down a sibling, a chain of tags that
lose their last child together) need at most four. TagHier is checked with
six, all trees of that size as initial states. One bookmark is enough in TagStore
because no operation reads one bookmark's taggings to change another's (the proofs have
no such bound). Two names of two per tag let a rename add, keep and delete
names, shift the primary one, and collide with a sibling. Two readers and
two writers show every pairwise race; three structs are one per reader and a
published one; three versions let a reader be two changes behind. Two requests and one failure
give four sockets (one at the start, one per request made while disconnected,
one per failure; the bound is derived, not imposed), that is, connections that
open out of order, a reconnection next to an open socket, and a flush that is
cut short and repeated. Everything else in GmClient is unbounded by design and
finite in effect: each request is made once.

In TagTx two requests are enough for every pairwise race, on every
tree of up to four tags (any rows TagStore can get to are initial states), with
one name per request, one bookmark and up to one tag in a retagging. Renames are
left out of `tx`, as no pair with one but a retagging is kept apart; they are
there as a part of moves. With one bookmark a move panics before it has written
anything, so the last case of `WaitsForOpen` is not among the states of `tx`; `WaitingEnds`
proves the property for any number of bookmarks. That the case exists TLC shows with
`Taggable = {b1, b2}` and `Kinds = {"move", "tag"}`: there the property holds in
1465680 states, and without that case it is violated (a root with two tags below
it, one of them with a subtag that is moved, two bookmarks with the subtag and one of
these with the other tag). At five minutes this is no run of the project. In
DfMigrate the versions are those before each of the migrations the rows matter to, and
the last; two servers, two tags with two names; migration 12 runs twice at most
(`MaxIndexes`).
In Keys two requests at a time of two Google users who share three addresses, any
number of them one after the other; three ids of users are more than can be made
before an address is in use, three bookmarks allow a duplicate next to another.
`PathLength` is the depth of the trees.

In `edit_page` two tabs, one with a bookmark, and two commands give a page that is
opened for one tab and refocused or opened again for the other, before and after
each answer. Four steps of the user at the tag input (`MaxEdits`) and two texts,
which suggest new tags one below the other, allow two new tags in a form, a text
typed while another one waits, and tags entered before their suggestions; two
submissions may overlap, and one request fails.

Symmetry permutes ids other than the root, names and bookmarks; requests, users,
addresses; servers; readers, writers, keys and structs. It is not used in
`cache_current` and `client`, which check liveness, nor in
`edit_page`, whose values differ.

**Deadlock** is checked in all runs but `hier`, which ends with its `Move` as
the object in the code does, and those of GmClient and EditPage, where the client
rests when all requests are made and all windows closed. In `tx` it is a step of its own (`Finished`) that each request has ended or waits; that none waits without need is
what `WaitsForOpen` says.

**Fairness.** In TagsCache it is weak fairness of `Invalidate(w)` only: a handler
that has committed goes on to `DeleteCacheForUser`, with nothing between but a
mutex that is held for single map operations, unless the process ends (then
`Restart` clears the cache). Nothing is assumed of readers or requests.
In GmClient, timers fire, a socket that is connecting opens in the end (a
bounded number of failures aside), a closing one is closed, the server's
goroutine goes on to the next message and the browser delivers what has
arrived. Nothing makes a page send requests or wait.

## 4. The proofs

`TagTreeProofs`, `TagStoreProofs`, `TagTxProofs`, `TagsCacheProofs`,
`DfMigrateProofs`, `KeysProofs`, `GmClientProofs` and `EditPageProofs`, checked by
tlapm with Z3, Zenon and LS4. They hold for every value of the constants: any finite
set of tags, any names, bookmarks, readers, writers, structs, servers, versions,
users, addresses, requests, sockets, failures, pages, tabs, texts and steps of the
user.

| Theorem | States | Assumes |
| --- | --- | --- |
| `HierMapsAgree` | `HierSpec => []MapsAgree` | |
| `HierWholePaths` | `HierSpec => []WholePaths` | |
| `HierQueriesAgree` | `HierSpec => []QueriesAgree` | |
| `HierMoves` | `HierSpec => MoveAsInTagTree`, an action property | |
| `TreeInvariance` | `Spec => []TreeInv`: types, one tree, nothing refers to rows that are not there | |
| `FullPath` | `Spec => []FullTaggingPath` | no *del* move to the same parent |
| `MovesDoNotPanic` | `Spec => []NoPanic` | the same |
| `NotRootOnly` | `Spec => []NoRootOnlyTagging` | the same, and no request to tag with the root alone |
| `PrimaryNames` | `Spec => []OnePrimaryName` | |
| `DistinctNames` | `Spec => []SiblingNamesDistinct` | no move onto a namesake |
| `ChildrenCount` | `Spec => []ChildrenCntOK` | |
| `CacheInvariance` | `Spec => []IInv` | |
| `Freshness` | `Spec => []AnswersFresh` | |
| `Currency` | `Spec => []CacheCurrent` | no debug handler |
| `Refinement` | `Spec => ImplementsFreshReads` | |
| `NothingLeftOut` | `Spec => []SavedIsApplied` | |
| `ServedRows` | `Spec => []ServedRowsAreReady` | |
| `SchemaStaysWhole` | `Spec => SchemaIsWhole`, an action property | |
| `MigrationsFit` | `Spec => FailsForAReason`, an action property | |
| `DownsLeadBack` | `Spec => DownLeadsBack`, an action property | |
| `KeepsPromise` | `Spec => ImplementsBookmarkTags` | no *del* move to the same parent, no request to tag with the root alone |
| `SearchFinds` | `Spec => []SearchFindsBelow` | no *del* move to the same parent |
| `TreeIsReadWhole` | `Spec => []TreeReadsWhole` | |
| `PathsLeadToTags` | `Spec => []PathsLead` | no move onto a namesake |
| `MatcherFinds` | `Spec => []MatcherFindsAll` | |
| `LocksAreHeld` | `Spec => []IInv` of TagTxProofs | |
| `WaitingEnds` | `Spec => []WaitsForOpen` | |
| `OnlyUpdatesPanic` | `Spec => []NoPanic` of TagTxProofs | no moves and renames of tags |
| `AccountsWhole` | `Spec => []AccountsAreWhole` | |
| `TokensStayGood` | `Spec => []TokensOpenAccounts` | |
| `NoUrlTwice` | `Spec => []UrlsDistinct` | requests for one URL do not overlap |
| `LoginFailsOnlySo` | `Spec => LoginFailsForAReason`, an action property | |
| `RunOnceAnsweredOnce` | `Spec => []CalledBackRight` | |
| `NoneForgotten` | `Spec => []Accounted` | |
| `OneWindow` | `Spec => []OnePage` | |
| `FormOfLastTab` | `Spec => []FormIsForTab` | |
| `SavedRight` | `Spec => []SavedAsMeant` | |
| `TypedAsked` | `Spec => []TypedIsAsked` | |

The assumptions on `Unusual` are exactly those section 5 shows to be
needed; that on `DebugHandler` is needed because `addTestTagsTree` changes tags
without invalidating the cache; that on `SameUrlAtOnce`, because no key backs the
look for a bookmark with the same URL. The named ASSUMEs of the modules are the
others: ids and paths of tags are finitely many, the root is an id, `NoTag` is none,
what a server of EditPage has at first (`AtServer`) is something it can have, and the
like.

*The tree.* Everything rests on `TreeInv`, which is inductive by itself: types
(the parent of a row is a row), `OneTree`, and that unused ids have no count
and unknown bookmarks no taggings. The work is in three lemmas about trees:
`RootedGrow` (a new leaf), `RootedMove` (another parent, if it is not below the
tag) and `RootedCut` (without a subtree). `RootedMove` takes a set closed in the
new tree and shows that it, or it with the path of the new parent, is closed in
the old one, so it reaches the root; no induction on paths is needed because
paths are least closed sets (`PathClosed`, `PathLeast`).

*The hierarchy of a bookmark.* `HierInv` says that a TagHier is the part of a tree
above the tags asked for: of the registry before a move, of the tree with the tag
moved after one to another parent (`AgreesWith`). What a step does is the end of a
recursion, so each has an invariant of its calls. `Adding`: the items are those before
and a lower part of the new path, the next call is for the one parent that is
missing, and an item that has become a parent is a leaf no longer but for the last.
`Taking`: the calls of `removeChild` are the lower end of the old path, each tag of it
has no child but the one below, and only the last link is changed. `LoopEnds` is the
induction: what every turn keeps holds at the end, and the end comes because each turn
lowers a number, that of the tags not yet added or removed, or of those left on the path.
`CutIsBare` is where the code's test for a tag without children meets the sets of
TagTree, `MoveAgrees` where the bookkeeping of the maps is shown to be complete.
`HierMoves` then is the reason why TagStore and TagTx may use TagTree's `TagsAfterMove`
and `MovePanics`.

*The rules on top.* `FullTaggingPath` is inductive together with `TreeInv`; its
step for moves is `MoveClosed`: what `TagsAfterMove` leaves of a closed set is
closed in the new tree. `MoveDoesNotPanic` shows that the tags `removeChild`
takes never include the root when the new parent is another tag than the old
one, since the root is above both. `NotRootOnly` needs `FullTaggingPath`
besides: without it a deletion deep in the tree might leave the root alone and
the clean-up, which is done under the root only, would miss it.
`ChildrenCount` compares cardinalities of `Kids` before and after.

*What users see.* BookmarkTags speaks of a bookmark's lowest tags, the tables have
closed sets, and in a tree each determines the other (`LeafsOfClosure`,
`ClosureOfLeafs`); that every tag of a closed set is above a lowest one
(`LeafBelow`) follows from `Rooted`, without induction. So a step of TagStore is
right if the taggings it leaves are the closure of the tags the promise gives the
bookmark. `MoveKeeps` and `MoveDeletes` show this of the rows a move writes, the
second one with the chain of tags that `removeChild` takes off one by one,
`DeletionLeaves` of the cascade and the bookmarks that come to be without tags. A
move to the same parent under *keep* changes nothing (`MoveToSameParent`). Searches
are a corollary of `LeafBelow`.

*What is read.* The reads are right because of the rules: `TreeReadsWhole` needs the
counts and the primary names, `PathsLead` that names under one parent are distinct,
`MatcherFindsAll` that the tree is read whole. On a path there is one tag of each depth
(`PathDepths`), so turn n of the tree's reading finds the tags n + 1 below the first one
(`LevelsAreBelow`), and all are found before the bound on the depth. `DescendLeads`:
after i names the search is at the tags that have these names on their paths, and there
is at most one. `MatcherInvariant` says of the matcher, which decides part by part and
never takes a decision back, that after n parts the last n parts of the word fit a path
from position f on if and only if no part has ruled the tag out and f is not behind the
position the matcher took; so taking the last position that matches loses nothing
(`FitStep`). It is proved for words of any length and any paths, the property for the
words of `Words`.

*Transactions.* `IInv` of TagTxProofs says of every open request that what it still
has to run is a list of statements of its kind, each followed by one that may follow
it (`Plan`, `Follows`), that the local variables the next ones use are set (`Stage`),
that the owner of a lock is open or has panicked (`LockOK`), and that an id which the
sequence has not given out is in no row (`FreshOK`). Each action is shown to be a
reading step, a writing step, a start or an end (`Shapes`), and the invariant is then
shown of these. `WaitsForOpen` is then an argument about finite sets: take the requests
that one waits for, directly or not, and suppose that none has panicked. If every open
one of them waits, it waits for open ones, and there is a least set of them each of which
waits for one in it. No one can be left out of it, so each is waited for as well, and
that is a deadlock, of which PostgreSQL fails one (`SomeCircle`). A request that has
panicked waits for nobody and never ends, hence its place in the property; only
`GetNames` and `Current` of a move panic (`OnlyUpdatesPanic`).

*The cache.* `AnswersFresh` is not inductive. `IInv` adds: a struct a reader
holds has, and will get from other readers that hold it, nothing older than
that reader's `since` (`AtLeast`); a struct not yet published is its maker's
alone; the published struct is at least as new as `confirmed`; and each
version not yet confirmed has a writer that is about to invalidate. The key
step is `Invalidate`: it raises `confirmed`, and the published struct, which
may hold older trees, is gone at the same instant, while readers with that
struct have a smaller `since`. `Refinement` maps each step to a step of
FreshReads or to a stutter, from `IInv`.

*The migrations.* `SavedIsApplied` has a conjunct for each place a server can be
at, so with the types it is inductive: a server that continues after migration k
applies k + 1 at most, and `applied` grows only with a transaction that succeeds. The
schema and the rows play no part. `ServedRowsAreReady` is not implied by what is
applied: a slower server may set the saved number back, a program without migration
16 then serves again, and tags are not counted although 16 was applied. `ReadyInv`
says that rows are right as long as the saved number or a server is past the
migration (`Past`); `PastBefore`, that only a server that applies it, and thereby makes
the rows right, gets past it when none is; and `OlderServes`, that none is while an
older program serves, since servers that are alive have one version (`VersionInv`).

*The schema.* `SchemaInv(a, s)`, of the schema s after a migrations, says that the
objects there are those of which some migration up to a was the last to touch
them (`MadeLast`), and that each is as that migration makes it. It follows for the next
migration's schema (`NextSchema`) without looking at what the twenty do; that is
done before, once for each: what it makes, drops and needs (`Parts1` to `Parts20`),
that what it needs was made last by one before it (`NeedsAreMet`) and what it creates by
none (`CreatesNew`), so that it fits (`NextFits`). A migration that runs a
second time, since its number was not saved, has already left something that no later one
touches (`Kept`) and cannot make again, or not drop again: it fails. Migrations
2, 4, 12 and 15 are the exception, and change nothing in the schema (`RunsAgain`). So it
only changes when the next migration succeeds (`SchemaChanges`), and the number of indexes
when that is 12 or 12 runs again (`IndexesChange`). A "down" function leads
back if it drops what was created, makes the rest as it was and leaves nothing
that refers to what it drops (`Reverts`); the twelve that lead back are shown
to be so one by one (`DownReverts`), with the values that the invariant has for
the columns they make again.

*Accounts and URLs.* `IInv` of KeysProofs says of each request, at each statement,
which rows of its own it has in the tables and which it has found, committed or its
own (`HasRows`). With the unique keys (`KeysHold`) a commit then turns whole accounts
into whole accounts (`CommitAccounts`), whatever other requests have in the tables,
because a row another one has inserted cannot have the same key. Rows once committed
are not changed again, so a token that was handed out keeps its rows. For URLs,
`UrlStaysFree` says that what the look-up saw holds until the commit; its step needs
that no two requests for one URL overlap, and that a bookmark is locked only by a
request about to commit (`LocksFit`). `LoginFailsOnlySo` needs the same invariant:
the row a login collides with is committed when it fails.

*The connection.* A request is scheduled, on its way to the server, run and on its
way back, or called back (`ScheduledInv`, `BeforeRun`, `AfterRun`). It may be pending
under several ids, since `send` takes a new id each time and an exception leaves the
request scheduled, but messages with one of them only are ever on the way, and an
answer carries the id of its request (`IdInv`). The flush in `ws.onopen` is the hard step (`TransmitNumbers`, `TransmitKeeps`): when an
exception cuts it short, nothing was put on the way, and the first request is pending
and still scheduled; when not, all are sent, each under the next id.

*The page.* `WindowInv` follows a window from `chrome.windows.create` to
`clearCurTab`: there is at most one of a new window, an open one, and a message that
one has closed. `TabInv` follows a tab from the command through the port into the
form. For the form, `LookupInv` says that if the page was initialised when no look-up
was out, there is one look-up at a time, for the tab of the form, and the form is not
enabled before its answer; `OrphanInv`, that what a closed page still saves comes
before the look-up of the next one, so that the look-up sees it. `AddInv` says of a
submission that its new tags are asked for one behind the other and are no more than
are missing, so that the last answer, and no other one, makes `addedCnt` full, or that
one of them failed and it never will be. These rest on the order of answers: a step
takes at most the first request away and adds others at the end (`Shifted`, `Moved`).
The tag input's operators are sums over lists and folds over sets; that these
functions have the equations of their definitions, and keep what each step keeps, is
shown by the least number for which it would fail (`IteratesExist`, `AddTagsStays`,
`OnlyType`).

Only model-checked:

* liveness (`StaleTreesGo`, `ScheduledAreSent`, `AnsweredWhileUp`), which is out of the
  prover's reach;
* `Serializable` of TagTx. It needs, for each request at each of its statements, what it
  has read that still holds and what locks keep it so, for all pairs of requests
  that are not in `Clash`.

## 5. What the checks found

Two violation runs, each of a rule the repository states:

* `store_same_parent`: `UpdateTag` does not notice a move to the parent the tag
  has. `Move` adds the child to the parent's children, deletes it again,
  and, with policy *del*, removes the "childless" parent and what is above it:
  bookmarks keep the tag and lose its path, which `checkFullTaggingsPath` calls
  broken integrity; if nothing else holds the path, `removeChild` reaches id 0
  and panics (`store_unusual` has those steps). If it has rewritten another bookmark
  before, the transaction keeps the locks on that one's taggings, and who takes one
  of these away next waits for good (`WaitsForOpen`).
* `tx_two_moves`: a under b and b under a, at the same time. Each transaction
  reads the tree as it was, passes the check against moving a tag under its
  descendant, and commits: a and b are each other's parents, away from the root.

The other requests that one has to exclude for a rule to hold are parameters of the
models, so they can be tried:

* `Unusual = {"TagWithRootOnly"}` in TagStore breaks `NoRootOnlyTagging`:
  `SetTaggings` accepts the root tag alone, which `checkOnlyRootTagging` calls
  illegal (`maintenance.go:230`).
* `Unusual = {"MoveOntoSameName"}` breaks `SiblingNamesDistinct`: a move without
  names does not check for a tag of the same name under the new parent, as
  `addTagName` does.
* `Races` in TagTx names the pairs of overlapping requests (`Clash`) that are not
  kept apart. Each alone breaks `Serializable`. `"TwoMoves"`: also without a cycle,
  counts and taggings go wrong. `"SameTag"`: two deletions of a tag take it off the
  parent's count twice. `"MoveAndDelete"`: the count of a deleted or former parent is
  changed for a child that is elsewhere by then. `"Retag"`: a bookmark that is
  tagged while the tag moves or goes keeps an old path. `"Rename"`: tags under
  one parent get one name; a rename of a tag that is deleted meanwhile finds no name
  and panics in `getNamesDiff`, which leaves the transaction open.
  What is kept apart: creations under one parent, by the row lock of the count,
  taken before names are checked; a creation under a tag that is moved or deleted;
  two updates of one bookmark, by its row; two deletions in one
  subtree, also when they clean up bookmarks, as the root's count comes first.
* `SameUrlAtOnce = TRUE` in Keys breaks `UrlsDistinct`.

Seen on the way, in code that has no run of its own:

* `dfmigrate.go:74`: after a crash between a migration and the save of its number,
  the next start applies it again and fails for good, except for migrations 2,
  4, 12 and 15, which may run twice. `FailsForAReason` has this as its first case.
  12 then leaves its seven indexes twice, under other names, as `CREATE INDEX` is
  given none (`migrations.go:712`).
  Of two servers that start at once, the slower one may save a smaller number over
  a larger one, with the same effect at the next start.
* Migrations 3, 8, 9 and 11 add columns that are NOT NULL without a default and are
  refused when there are bookmarks. Migration 13 takes any name that is the
  least one of some tag for primary of every tag that has it, so a tag may get two
  primary names. The comment at `migrations.go:425` means migration 15.
  The down functions (which nothing calls) of 4, 7, 9, 12 and 15 do nothing; that of
  1 fails, as it begins with the table the others refer to; those of 5 and 10
  make an id column without its sequence.
* `authn_google.go:89` and `:111` annotate an error that is nil: no error is
  returned, the caller uses a nil `googleTokenInfo` and panics in the transaction.
* `gmclient.js:200`: a request made while the first socket is connecting opens a
  second one; the first sets `isConnected`, but `send` uses the second, which
  still throws. A request made then stays pending for good, without any failure of
  the network (`AnsweredWhileUp` speaks of requests that are on the way).
* `gmclient.js:161`: a callback that throws leaves its entry in `pendingRequests`, as
  the entry is deleted after the call. No other answer has its id, so it only stays.
* `gmclient.js:137`: the callback of a page that was closed while it waited throws
  in every `ws.onopen`, before the scheduled requests are sent, so
  `ScheduledAreSent` needs its last disjunct.
* `edit-bookmark.js:13`: `bkmID` and the fields are shared by all initialisations of
  a page. If a second tab comes before the first tab's look-up is answered,
  `bkmID` is that of the first tab's bookmark, and saving writes over it (`FormIsForTab`
  and `SavedAsMeant` exclude that case, `overlapped`). Refocusing the page for
  any tab drops what was typed.
* `edit-bookmark.js:117`: if one of the new tags cannot be created, the others
  exist; the form is still there, but submitting it again fails, as it asks for tags
  that are there by then. A new tag below another new one, entered first, is created
  with the other as its intermediary tag, which then fails.
* `tag-requester.js:241`: after an error the text that waits is not asked for, and the
  tag that waits is never entered, contrary to the comment at line 84; likewise
  when a third text takes the place of the one that waits in `pendingRequest`
  (`givenUp`). Its entry stays in `tagsPending`: when the text is typed again, the
  tag enters by itself. A form that is submitted meanwhile is saved without it.
* `background.js:199`: a window that is closed before its script has connected leaves
  its entry in `pagesCtx`, so that the page cannot be opened again. A command between
  the closing of a window and `clearCurTab` throws and is lost.
* `tagmatcher.go:61`: a word that begins with `~` (the fuzzy matcher, which does
  not exist yet) leaves the matcher nil, and the handler panics.
* `storage.go:246`: `CleanupTagName(",5")` is `5`, which looks like a number.

The tree, the counts and the primary names survive all the unusual requests
(`TreeInvariance`, `ChildrenCount` and `PrimaryNames` assume nothing of
`Unusual`).

## 6. What is not modelled

* Pure I/O, routing tables, logging, DOM and widget code, vendored code, and
  `bindata.go`, which is generated.
* Columns no rule reads (description, title, comment, times), the widths of columns (an
  address or a user name of more than 50 characters is another reason for which a first login
  fails, `migrations.go:27`), the JSON that
  queries build for paths of tags, the shapes of responses.
* Users other than the one at hand in TagStore and TagTx: ownership is checked on
  every request and no table row is shared.
* Deleting tags with policy *del*, which the code answers with an error ("not
  implemented"), migrating down ("not implemented"), matchers other than the exact
  one (not written).
* `ValidateTagName` and `CleanupTagName`: the content of strings. `Name` stands for
  names that are valid.
* The order of what a pattern finds.
* The statements of reading requests in TagTx: a reader at READ COMMITTED may see
  two states in one request. The cache runs count a tree from the version at which
  its reading began.
* Of the extension's pages: tags edited in their place, pages that open one another,
  the login page and the promises before `initLoggedIn`, reloading a window, other pages (they send
  single requests), and the ids of the bridge between pages and the background.
  EditPage's connection stays up; losses are GmClient's.

## 7. Plan

1. Proofs: `Serializable`, beginning with creations of tags, whose locks are those of
   one parent.
2. The login of the extension's pages, and EditPage over GmClient's connection.
3. The order of the matcher's results.
