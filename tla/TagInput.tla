------------------------------ MODULE TagInput ------------------------------
(***************************************************************************)
(* The tag input of a page: tag-requester.js, one instance of it as a      *)
(* record that the handlers below change.  While a request for suggestions *)
(* is out (loading) the last text typed waits in pendingRequest, and a tag *)
(* entered by its text waits in tagsPending for the suggestions.           *)
(*                                                                         *)
(* The widget (jquery.tag-editor.js) is modelled from the callbacks it     *)
(* makes.  Tags are entered with the input at the end; editing a tag in    *)
(* its place is left out, so what waits in tagsPending replaces no tag.    *)
(***************************************************************************)
EXTENDS Integers, SequencesExt

CONSTANTS
  Pattern,    \* texts a user types
  NoText,     \* the empty text, and undefined
  TagPath,    \* paths of tags, which are also taken for their ids
  Suggested   \* what the server suggests for a pattern, as a sequence of paths

ASSUME PatternAssumption == NoText \notin Pattern
ASSUME TagPathAssumption == IsFiniteSet(TagPath)
ASSUME SuggestedAssumption == Suggested \in [Pattern -> Seq(TagPath)]

Text == Pattern \cup {NoText}

\* tagsByPath of a path: not met, with id 0 (to be created), with an id.
Known == {"unknown", "new", "old"}

Instance ==
  [typed : Text,      \* in the input after the last tag
   menu : BOOLEAN,    \* the suggestions are shown
   loading : Text,    \* the pattern of the request that is out
   pendingRequest : Text,
   curTagsArr : Seq(TagPath),
   tagsByPath : [TagPath -> Known], tagsPending : SUBSET Pattern,
   tags : Seq(TagPath),   \* the tags in the input, first to last
   selectedTagIDs : SUBSET TagPath, selectedNewTagPaths : Seq(TagPath),
   givenUp : SUBSET Pattern]   \* history: typed, and not asked for or not answered

\* create
Fresh ==
  [typed |-> NoText, menu |-> FALSE, loading |-> NoText, pendingRequest |-> NoText,
   curTagsArr |-> <<>>,
   tagsByPath |-> [t \in TagPath |-> "unknown"], tagsPending |-> {},
   tags |-> <<>>, selectedTagIDs |-> {}, selectedNewTagPaths |-> <<>>,
   givenUp |-> {}]

-----------------------------------------------------------------------------
(* What the widget does with its tags. *)

\* The tags of a list that are in the set S, in their order.
Only(list, S) ==
  LET kept[n \in 0..Len(list)] ==
        IF n = 0 THEN <<>>
        ELSE IF list[n] \in S THEN Append(kept[n - 1], list[n]) ELSE kept[n - 1]
  IN  kept[Len(list)]

\* onChange, which the widget calls when its list has changed.
WithTags(in, list) ==
  IF list = in.tags THEN in
  ELSE [in EXCEPT !.tags = list,
                  !.selectedTagIDs = {t \in ToSet(list) : in.tagsByPath[t] = "old"},
                  !.selectedNewTagPaths =
                     Only(list, {t \in TagPath : in.tagsByPath[t] = "new"})]

Without(list, t) == Only(list, TagPath \ {t})

\* removeDuplicates: the tag that is there goes, the one entered stays.
Enter(in, t) == WithTags(in, Append(Without(in.tags, t), t))

\* The input loses the focus or Enter is pressed with the typed text in it:
\* beforeTagSave takes the first suggestion for it, or lets it wait.
Commit(in) ==
  LET empty == [in EXCEPT !.typed = NoText, !.menu = FALSE]
  IN  IF in.typed = NoText THEN in
      ELSE IF in.loading # NoText
        THEN [empty EXCEPT !.tagsPending = @ \cup {in.typed}]
      ELSE IF in.curTagsArr = <<>> THEN empty
      ELSE Enter(empty, in.curTagsArr[1])

\* A suggestion is chosen from the menu, which shows the tags of curTagsMap, so that
\* beforeTagSave takes it as it is.
Choose(in, t) == Enter([in EXCEPT !.typed = NoText, !.menu = FALSE], t)

Delete(in, t) == WithTags(in, Without(in.tags, t))

\* The page adds a tag that exists (addTag): the widget is clicked, so that what
\* is typed is committed.
AddTag(in, t) ==
  Commit(Enter([in EXCEPT !.tagsByPath[t] = "old"], t))

\* The page adds the tags of a bookmark, in some order.
AddTags(in, T) == FoldSet(LAMBDA t, v : AddTag(v, t), in, T)

-----------------------------------------------------------------------------
(* Requests for suggestions: one at a time. *)

\* queryTags
Query(in, p) ==
  [in EXCEPT !.pendingRequest = NoText, !.loading = p, !.givenUp = @ \ {p}]

\* source: the text in the input has become p.
Type(in, p) ==
  LET typed == [in EXCEPT !.typed = p]
  IN  IF in.loading = NoText THEN Query(typed, p)
      ELSE [typed EXCEPT !.pendingRequest = p,
                         !.givenUp = (@ \cup ({in.pendingRequest} \cap Pattern)) \ {p}]

\* (variant: what waits is forgotten)
NextQuery_None(in) == in

\* After an answer the pattern that waits is asked for.
NextQuery(in) == IF in.pendingRequest = NoText THEN in ELSE Query(in, in.pendingRequest)

\* The tag that was entered by the text p, if there is one, is the first suggestion
\* for p.  The widget is clicked here too.
Replace(in, p) ==
  IF p \notin in.tagsPending THEN in
  ELSE LET settled == [in EXCEPT !.tagsPending = @ \ {p}]
       IN  IF in.curTagsArr = <<>> THEN settled
           ELSE Commit(Enter(settled, in.curTagsArr[1]))

\* The answer to the request that is out, when the tags existing are there.
Answered(in, existing) ==
  LET p     == in.loading
      found == Suggested[p]
      now   == [in EXCEPT !.loading = NoText,
                          !.menu = found # <<>> /\ in.typed # NoText,
                          !.curTagsArr = found,
                          !.tagsByPath = [t \in TagPath |->
                             IF t \notin ToSet(found) THEN @[t]
                             ELSE IF t \in existing THEN "old" ELSE "new"]]
  IN  NextQuery(Replace(now, p))

\* An answer with another status: "TODO: show error".
Failed(in) ==
  [in EXCEPT !.loading = NoText,
             !.givenUp = @ \cup ({in.loading, in.pendingRequest} \cap Pattern)]
=============================================================================
