----------------------------- MODULE MCEditPage -----------------------------
(* EditPage for TLC: the patterns suggest new tags, one below the other; there is *)
(* a bookmark of the first tab, tagged above them, and none of the second tab.    *)
EXTENDS EditPage

CONSTANTS p1, p2, x, xy, xyz, u1

MCSuggested == p1 :> <<xy>> @@ p2 :> <<xyz>>
MCAbove == x :> {} @@ xy :> {x} @@ xyz :> {x, xy}
MCAtServer == {[bookmarks |-> <<[url |-> u1, tags |-> {x}]>>, tags |-> {x}]}
=============================================================================
