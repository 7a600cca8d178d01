---------------------------- MODULE TagTxProofs ----------------------------
(***************************************************************************)
(* What TagTx keeps for every number of requests, tags, names and          *)
(* bookmarks: who holds the locks, and that waiting comes to an end.       *)
(***************************************************************************)
EXTENDS TagTx, TagTreeProofs, FiniteSetTheorems, SequenceTheorems

AnyTag == TagId \cup {NoTag}
AnyName == Name \cup {EmptyName}

-----------------------------------------------------------------------------
(* The statements a request of kind k still has to run.                    *)

\* Statement t comes right after s in a request of kind k.
Follows(k, s, t) ==
  \/ /\ k = "create"
     /\ \/ s = "select" /\ t = "count"
        \/ s = "count" /\ t = "insert"
        \/ s = "insert" /\ t = "addNames"
        \/ s = "addNames" /\ t = "commit"
  \/ /\ k \in {"create", "move", "rename"}
     /\ s = "insertName" /\ t = "addNames"
  \/ /\ k \in {"move", "rename"}
     /\ \/ s = "getNames" /\ t = "getParent"
        \/ s = "getParent" /\ t = "addNames"
        \/ s = "addNames" /\ t = "delNames"
        \/ s = "delNames" /\ t = "setPrimary"
        \/ s = "setPrimary" /\ t = "commit"
  \/ /\ k = "move"
     /\ \/ s = "walk" /\ t = "affected"
        \/ s = "affected" /\ t = "retag"
        \/ s = "walk" /\ t = "current"
        \/ s = "current" /\ t = "apply"
        \/ s = "apply" /\ t = "retag"
        \/ s = "retag" /\ t = "setParent"
        \/ s = "setParent" /\ t = "dec"
        \/ s = "dec" /\ t = "inc"
        \/ s = "inc" /\ t \in {"getNames", "commit"}
  \/ /\ k = "delete"
     /\ \/ s = "getTag" /\ t = "cascade"
        \/ s = "cascade" /\ t = "uncount"
        \/ s = "deleteRow" /\ t = "cascade"
        \/ s = "uncount" /\ t = "clean"
        \/ s = "clean" /\ t = "commit"
        \/ s = "untag" /\ t = "commit"
        \/ s = "current" /\ t = "apply"
        \/ s = "apply" /\ t = "untag"
  \/ /\ k = "tag"
     /\ \/ s = "bookmark" /\ t = "walk"
        \/ s = "walk" /\ t = "current"
        \/ s = "current" /\ t = "apply"
        \/ s = "apply" /\ t = "commit"

Stmt ==
  {"select", "count", "insert", "addNames", "insertName", "getNames", "getParent", "delNames",
   "setPrimary", "walk", "affected", "retag", "setParent", "dec", "inc", "getTag", "cascade",
   "uncount", "clean", "deleteRow", "untag", "bookmark", "current", "apply", "commit"}
Last == "commit"
Edges(k) == {e \in Stmt \X Stmt : Follows(k, e[1], e[2])}

\* s is a list of statements that follow each other, down to the commit.
Plan(k, s) ==
  /\ s \in Seq(Stmt)
  /\ s # <<>> => s[Len(s)] = Last
  /\ \A i \in 1..(Len(s) - 1) : <<s[i], s[i + 1]>> \in Edges(k)

LEMMA PlanTail ==
  ASSUME NEW k, NEW s, Plan(k, s), s # <<>>, Head(s) # Last
  PROVE  /\ Tail(s) # <<>>
         /\ Plan(k, Tail(s))
         /\ <<Head(s), Head(Tail(s))>> \in Edges(k)
<1>1. s \in Seq(Stmt) /\ Len(s) \in Nat \ {0} /\ Head(s) = s[1]
  BY EmptySeq DEF Plan
<1>2. Len(s) > 1
  BY <1>1 DEF Plan
<1>3. /\ Tail(s) \in Seq(Stmt) /\ Len(Tail(s)) = Len(s) - 1
      /\ \A i \in 1..Len(Tail(s)) : Tail(s)[i] = s[i + 1]
  BY <1>1, HeadTailProperties
<1>4. Tail(s) # <<>>
  <2>1. \A u \in Seq(Stmt) : Len(u) = Len(s) - 1 => u # <<>>
    BY <1>1, <1>2, EmptySeq
  <2> QED
    BY <1>3, <2>1, Zenon
<1>5. Head(Tail(s)) = s[2]
  BY <1>1, <1>2, <1>3
<1>6. <<s[1], s[1 + 1]>> \in Edges(k)
  BY <1>1, <1>2 DEF Plan
<1>7. Tail(s)[Len(Tail(s))] = Last
  BY <1>1, <1>2, <1>3 DEF Plan
<1>8. ASSUME NEW i \in 1..(Len(Tail(s)) - 1) PROVE <<Tail(s)[i], Tail(s)[i + 1]>> \in Edges(k)
  <2>1. i + 1 \in 1..(Len(s) - 1) /\ Tail(s)[i] = s[i + 1] /\ Tail(s)[i + 1] = s[(i + 1) + 1]
    BY <1>1, <1>2, <1>3
  <2> QED
    BY <2>1 DEF Plan
<1> QED
  BY <1>1, <1>3, <1>4, <1>5, <1>6, <1>7, <1>8 DEF Plan

Push(t, s) == <<t>> \o s

LEMMA PlanPush ==
  ASSUME NEW k, NEW s, Plan(k, s), s # <<>>,
         NEW t \in Stmt, <<t, Head(s)>> \in Edges(k), NEW u, u = Push(t, s)
  PROVE  u # <<>> /\ Plan(k, u) /\ Head(u) = t /\ Head(Tail(u)) = Head(s)
<1>1. s \in Seq(Stmt) /\ Len(s) \in Nat \ {0} /\ Head(s) = s[1]
  BY EmptySeq DEF Plan
<1>2. <<t>> \in Seq(Stmt) /\ Len(<<t>>) = 1 /\ <<t>>[1] = t
  OBVIOUS
<1>3. /\ u \in Seq(Stmt) /\ Len(u) = 1 + Len(s)
      /\ \A i \in 1..(1 + Len(s)) : u[i] = IF i <= 1 THEN t ELSE s[i - 1]
  BY <1>1, <1>2, ConcatProperties DEF Push
<1>4. u[1] = t /\ \A i \in 1..Len(s) : u[i + 1] = s[i]
  BY <1>1, <1>3
<1>5. u # <<>>
  BY <1>1, <1>3, EmptySeq
<1>6. Head(u) = t
  BY <1>1, <1>3, <1>4
<1>7. u[Len(u)] = Last
  BY <1>1, <1>3, <1>4 DEF Plan
<1>8. ASSUME NEW i \in 1..(Len(u) - 1) PROVE <<u[i], u[i + 1]>> \in Edges(k)
  <2>1. CASE i = 1
    BY <1>1, <1>4, <2>1, SMTT(30)
  <2>2. CASE i # 1
    <3>1. i - 1 \in 1..(Len(s) - 1) /\ u[i] = s[i - 1] /\ u[i + 1] = s[(i - 1) + 1]
      BY <1>1, <1>3, <2>2
    <3> QED
      BY <3>1 DEF Plan
  <2> QED
    BY <2>1, <2>2
<1>9. Head(Tail(u)) = s[1]
  <2>1. Tail(u) \in Seq(Stmt) /\ Len(Tail(u)) = Len(s) /\ \A i \in 1..Len(Tail(u)) : Tail(u)[i] = u[i + 1]
    BY <1>1, <1>3, <1>5, HeadTailProperties
  <2> QED
    BY <1>1, <1>4, <2>1
<1> QED
  BY <1>1, <1>3, <1>5, <1>6, <1>7, <1>8, <1>9 DEF Plan

-----------------------------------------------------------------------------
(* Types.                                                                  *)

AnyOp ==
  [kind : {"create"}, par : TagId, names : SUBSET Name, first : Name]
  \cup [kind : {"move"}, id : TagId, par : TagId, policy : {"keep", "del"},
        names : SUBSET Name, first : AnyName]
  \cup [kind : {"rename"}, id : TagId, names : SUBSET Name, first : Name]
  \cup [kind : {"delete"}, id : TagId]
  \cup [kind : {"tag"}, b : Taggable, list : Seq(TagId)]

Local ==
  [id : AnyTag, par : AnyTag, todo : Seq(TagId), known : SUBSET TagId, proto : SUBSET TagId,
   th : [TagId -> AnyTag], bs : SUBSET Taggable, b : Taggable \cup {NoTag},
   have : SUBSET TagId, want : SUBSET TagId, gone : SUBSET (TagId \X AnyTag), via : AnyTag,
   name : AnyName, add : SUBSET AnyName, del : SUBSET AnyName, set : SUBSET AnyName,
   clear : SUBSET AnyName]

Values(r) == IF r \in TagId THEN TagRecord \cup {NoRow} ELSE BOOLEAN \cup {NoRow}
RowsOK(f) == f = [r \in Row |-> f[r]] /\ \A r \in Row : f[r] \in Values(r)

TypeOK ==
  /\ RowsOK(com)
  /\ RowsOK(cur)
  /\ lock \in [Row -> Request \cup {Nobody}]
  /\ share \in [TagId -> SUBSET Request]
  /\ fresh \subseteq TagId
  /\ op \in [Request -> AnyOp \cup {NoOp}]
  /\ steps \in [Request -> Seq(Stmt)]
  /\ loc \in [Request -> Local]
  /\ out \in [Request -> {"", "committed", "failed", "panicked"}]

\* What the statements ahead need from the local variables.
Stage(o, l, s) ==
  /\ o.kind = "create" /\ Head(s) \in {"addNames", "insertName"} => l.id \in TagId
  /\ o.kind \in {"move", "rename", "delete"} => l.id \in TagId
  /\ o.kind = "tag" => l.b \in Taggable
  /\ \/ Head(s) \in {"current", "apply"}
     \/ Head(s) = "walk" /\ Head(Tail(s)) = "current"
     => l.b \in Taggable

StageOK ==
  \A p \in Request :
    Open(p) => /\ op[p] \in AnyOp
               /\ Plan(op[p].kind, steps[p])
               /\ Stage(op[p], loc[p], steps[p])
               /\ out[p] = ""

\* A lock is held by a request whose transaction is open.
LockOK ==
  /\ \A r \in Row : lock[r] # Nobody => Holds(lock[r])
  /\ \A x \in TagId : \A q \in share[x] : Holds(q)

\* Nobody knows of an id that the sequence has not given yet.
FreshOK == \A x \in fresh : com[x] = NoRow /\ lock[x] = Nobody

IInv == TypeOK /\ StageOK /\ LockOK /\ FreshOK

-----------------------------------------------------------------------------
(* The shapes of a step.                                                   *)

GoesOn(p, l, s) ==
  /\ l \in Local
  /\ s # <<>>
  /\ Plan(op[p].kind, s)
  /\ Stage(op[p], l, s)
  /\ loc' = [loc EXCEPT ![p] = l]
  /\ steps' = [steps EXCEPT ![p] = s]
  /\ UNCHANGED <<com, op, out>>

ReadStep(p) ==
  /\ Open(p)
  /\ UNCHANGED <<rows, fresh>>
  /\ \E l, s : GoesOn(p, l, s)

\* It writes v[r] to the rows of W.
Writes(p, W, K, v) ==
  /\ \A r \in W : v[r] \in Values(r) /\ lock[r] \in {p, Nobody}
  /\ cur' = [r \in Row |-> IF r \in W THEN v[r] ELSE cur[r]]
  /\ lock' = [r \in Row |-> IF r \in W THEN p ELSE lock[r]]
  /\ share' = [x \in TagId |-> IF x \in K THEN share[x] \cup {p} ELSE share[x]]

WriteStep(p) ==
  /\ Open(p)
  /\ fresh' \subseteq fresh
  /\ \E W \in SUBSET Row, K \in SUBSET TagId : \E v : Writes(p, W, K, v) /\ W \cap fresh' = {}
  /\ \E l, s : GoesOn(p, l, s)

LEMMA SeesOK ==
  ASSUME TypeOK, NEW p \in Request, NEW r \in Row
  PROVE  Sees(p, r) \in Values(r)
BY DEF TypeOK, RowsOK, Sees

LEMMA Rows ==
  /\ TagId \subseteq Row
  /\ Taggable \subseteq Row
  /\ \A x \in TagId, n \in AnyName : <<x, n>> \in Row
  /\ \A b \in Taggable, x \in TagId : <<b, x>> \in Row
  /\ \A r \in Row \ TagId : Values(r) = BOOLEAN \cup {NoRow}
  /\ \A x \in TagId : Values(x) = TagRecord \cup {NoRow}
  /\ \A x \in TagId, n \in AnyName : <<x, n>> \notin TagId
  /\ \A b \in Taggable, x \in TagId : <<b, x>> \notin TagId
  /\ Taggable \cap TagId = {}
<1>1. /\ \A x \in TagId, n \in AnyName : <<x, n>> \in NameRow
      /\ \A b \in Taggable, x \in TagId : <<b, x>> \in TaggingRow
  BY Zenon DEF NameRow, TaggingRow, AnyName
<1>2. NameRow \cap TagId = {} /\ TaggingRow \cap TagId = {} /\ Taggable \cap TagId = {}
  BY RowAssumption, Zenon
<1> QED
  BY <1>1, <1>2, Zenon DEF Row, Values

LEMMA Onward ==
  ASSUME TypeOK, StageOK, NEW p \in Request, NEW s, At(p, s), s # "commit"
  PROVE  /\ op[p] \in AnyOp /\ out[p] = "" /\ Stage(op[p], loc[p], steps[p])
         /\ steps[p] # <<>> /\ Head(steps[p]) = s /\ Plan(op[p].kind, steps[p])
         /\ Tail(steps[p]) # <<>> /\ Plan(op[p].kind, Tail(steps[p]))
         /\ Follows(op[p].kind, s, Head(Tail(steps[p])))
<1>1. /\ op[p] \in AnyOp /\ out[p] = "" /\ Stage(op[p], loc[p], steps[p])
      /\ steps[p] # <<>> /\ Head(steps[p]) = s /\ Plan(op[p].kind, steps[p])
  BY Zenon DEF At, Open, StageOK
<1>2. /\ Tail(steps[p]) # <<>> /\ Plan(op[p].kind, Tail(steps[p]))
      /\ <<s, Head(Tail(steps[p]))>> \in Edges(op[p].kind)
  BY <1>1, PlanTail, Zenon DEF Last
<1>3. Follows(op[p].kind, s, Head(Tail(steps[p])))
  BY <1>2 DEF Edges
<1> QED
  BY <1>1, <1>2, <1>3, Zenon

LEMMA OpFields ==
  ASSUME NEW o \in AnyOp
  PROVE  /\ o.kind \in {"create", "move", "rename", "delete", "tag"}
         /\ o.kind \in {"create", "move"} => o.par \in TagId
         /\ o.kind \in {"move", "rename", "delete"} => o.id \in TagId
         /\ o.kind \in {"create", "move", "rename"} => o.names \subseteq AnyName /\ o.first \in AnyName
         /\ o.kind = "tag" => o.b \in Taggable /\ o.list \in Seq(TagId)
BY DEF AnyOp, AnyName

LEMMA LocalFields ==
  ASSUME NEW l \in Local
  PROVE  /\ l.id \in AnyTag /\ l.par \in AnyTag /\ l.todo \in Seq(TagId)
         /\ l.known \subseteq TagId /\ l.proto \subseteq TagId /\ l.th \in [TagId -> AnyTag]
         /\ l.bs \subseteq Taggable /\ l.b \in Taggable \cup {NoTag}
         /\ l.have \subseteq TagId /\ l.want \subseteq TagId
         /\ l.gone \subseteq TagId \X AnyTag /\ l.via \in AnyTag
         /\ l.name \in AnyName /\ l.add \subseteq AnyName /\ l.del \subseteq AnyName
         /\ l.set \subseteq AnyName /\ l.clear \subseteq AnyName
BY DEF Local

LEMMA ReadGoesOn ==
  ASSUME TypeOK, StageOK, NEW p \in Request, Open(p), NEW l \in Local, NEW s, s # <<>>,
         Plan(op[p].kind, s), Stage(op[p], l, s), Read(p, l, s)
  PROVE  ReadStep(p)
<1>1. loc' = [loc EXCEPT ![p] = l] /\ steps' = [steps EXCEPT ![p] = s] /\ UNCHANGED <<rows, fresh, op, out>>
  BY Zenon DEF Read, Set, Go
<1>2. com' = com
  BY <1>1, Zenon DEF rows
<1>3. GoesOn(p, l, s)
  BY <1>1, <1>2 DEF GoesOn
<1> QED
  BY <1>1, <1>3 DEF ReadStep

PlanFrom(k, s, h) == s # <<>> /\ Plan(k, s) /\ Head(s) = h
Second(s, h) == Head(Tail(s)) = h

\* One more statement to run before those of the plan.
LEMMA PushOn ==
  ASSUME NEW k, NEW s, NEW h, PlanFrom(k, s, h), NEW t \in Stmt, Follows(k, t, h)
  PROVE  PlanFrom(k, Push(t, s), t) /\ Second(Push(t, s), h)
<1>1. s # <<>> /\ Plan(k, s) /\ Head(s) = h
  BY Zenon DEF PlanFrom
<1>2. h \in Stmt
  BY <1>1, EmptySeq DEF Plan
<1>3. <<t, Head(s)>> \in Edges(k)
  BY <1>1, <1>2 DEF Edges
<1>4. s # <<>> /\ Plan(k, s)
  BY <1>1, Zenon
<1>5. \A u : u = Push(t, s)
         => u # <<>> /\ Plan(k, u) /\ Head(u) = t /\ Head(Tail(u)) = Head(s)
  BY <1>3, <1>4, PlanPush, Zenon
<1>6. \A u : u = Push(t, s) => PlanFrom(k, u, t) /\ Second(u, Head(s))
  BY <1>5, Zenon DEF PlanFrom, Second
<1> QED
  BY <1>1, <1>6, Zenon

LEMMA PushTwice ==
  ASSUME NEW s \in Seq(Stmt), NEW t \in Stmt, NEW u \in Stmt
  PROVE  <<t, u>> \o s = <<t>> \o (<<u>> \o s)
<1>1. <<t>> \in Seq(Stmt) /\ <<u>> \in Seq(Stmt)
  OBVIOUS
<1>2. (<<t>> \o <<u>>) \o s = <<t>> \o (<<u>> \o s)
  BY <1>1, ConcatAssociative
<1>3. <<t>> \o <<u>> = <<t, u>>
  <2>1. /\ <<t>> \o <<u>> \in Seq(Stmt) /\ Len(<<t>> \o <<u>>) = 2
        /\ \A i \in 1..2 : (<<t>> \o <<u>>)[i] = IF i <= 1 THEN <<t>>[i] ELSE <<u>>[i - 1]
    BY <1>1, ConcatProperties
  <2> DEFINE w == <<t>> \o <<u>>
             x == <<t, u>>
  <2>2. x \in Seq(Stmt) /\ Len(x) = 2 /\ x[1] = t /\ x[2] = u
    OBVIOUS
  <2>3. w \in Seq(Stmt) /\ Len(w) = 2 /\ w[1] = t /\ w[2] = u
    BY <2>1
  <2> HIDE DEF w, x
  <2>4. w = x
    BY <2>2, <2>3, SeqEqual
  <2> QED
    BY <2>4 DEF w, x
<1> QED
  BY <1>2, <1>3

LEMMA PushThrice ==
  ASSUME NEW s \in Seq(Stmt), NEW t \in Stmt, NEW u \in Stmt, NEW v \in Stmt
  PROVE  <<t, u, v>> \o s = <<t>> \o (<<u, v>> \o s)
<1>1. <<t>> \in Seq(Stmt) /\ <<u, v>> \in Seq(Stmt)
  OBVIOUS
<1>2. (<<t>> \o <<u, v>>) \o s = <<t>> \o (<<u, v>> \o s)
  BY <1>1, ConcatAssociative
<1>3. <<t>> \o <<u, v>> = <<t, u, v>>
  <2>1. /\ <<t>> \o <<u, v>> \in Seq(Stmt) /\ Len(<<t>> \o <<u, v>>) = 3
        /\ \A i \in 1..3 : (<<t>> \o <<u, v>>)[i] = IF i <= 1 THEN <<t>>[i] ELSE <<u, v>>[i - 1]
    BY <1>1, ConcatProperties
  <2> DEFINE w == <<t>> \o <<u, v>>
             x == <<t, u, v>>
  <2>2. x \in Seq(Stmt) /\ Len(x) = 3 /\ x[1] = t /\ x[2] = u /\ x[3] = v
    OBVIOUS
  <2>3. w \in Seq(Stmt) /\ Len(w) = 3 /\ w[1] = t /\ w[2] = u /\ w[3] = v
    BY <2>1
  <2> HIDE DEF w, x
  <2>4. w = x
    BY <2>2, <2>3, SeqEqual
  <2> QED
    BY <2>4 DEF w, x
<1> QED
  BY <1>2, <1>3

Push2(t, u, s) == <<t, u>> \o s
Push3(t, u, v, s) == <<t, u, v>> \o s

LEMMA PushTwo ==
  ASSUME NEW k, NEW s, NEW h, PlanFrom(k, s, h), NEW t \in Stmt, NEW u \in Stmt,
         Follows(k, u, h), Follows(k, t, u)
  PROVE  PlanFrom(k, Push2(t, u, s), t) /\ Second(Push2(t, u, s), u)
<1>1. s \in Seq(Stmt)
  BY DEF Plan, PlanFrom
<1>2. Push2(t, u, s) = Push(t, Push(u, s))
  BY <1>1, PushTwice DEF Push, Push2
<1>3. PlanFrom(k, Push(u, s), u)
  BY PushOn, Zenon
<1>4. PlanFrom(k, Push(t, Push(u, s)), t) /\ Second(Push(t, Push(u, s)), u)
  BY <1>3, PushOn, Zenon
<1> QED
  BY <1>2, <1>4, Zenon

LEMMA PushThree ==
  ASSUME NEW k, NEW s, NEW h, PlanFrom(k, s, h), NEW t \in Stmt, NEW u \in Stmt, NEW v \in Stmt,
         Follows(k, v, h), Follows(k, u, v), Follows(k, t, u)
  PROVE  PlanFrom(k, Push3(t, u, v, s), t) /\ Second(Push3(t, u, v, s), u)
<1>1. s \in Seq(Stmt)
  BY DEF Plan, PlanFrom
<1>2. Push3(t, u, v, s) = Push(t, Push2(u, v, s))
  <2>1. <<t, u, v>> \o s = <<t>> \o (<<u, v>> \o s)
    BY <1>1, PushThrice, SMTT(30)
  <2> QED
    BY <2>1, Zenon DEF Push, Push2, Push3
<1>3. PlanFrom(k, Push2(u, v, s), u)
  BY PushTwo, Zenon
<1>4. PlanFrom(k, Push(t, Push2(u, v, s)), t) /\ Second(Push(t, Push2(u, v, s)), u)
  BY <1>3, PushOn, Zenon
<1> QED
  BY <1>2, <1>4, Zenon

\* A list of statements in front of a plan.
Leads(k, s) ==
  /\ s \in Seq(Stmt)
  /\ s # <<>>
  /\ \A i \in 1..(Len(s) - 1) : <<s[i], s[i + 1]>> \in Edges(k)

LEMMA PlanConcat ==
  ASSUME NEW k, NEW s, Leads(k, s), Len(s) > 1, NEW t, Plan(k, t), t # <<>>,
         <<s[Len(s)], t[1]>> \in Edges(k), NEW u, u = s \o t
  PROVE  u # <<>> /\ Plan(k, u) /\ Head(u) = s[1] /\ Head(Tail(u)) = s[2]
<1>1. /\ s \in Seq(Stmt) /\ Len(s) \in Nat \ {0} /\ t \in Seq(Stmt) /\ Len(t) \in Nat \ {0}
      /\ t[Len(t)] = Last
  BY EmptySeq DEF Plan, Leads
<1>2. /\ u \in Seq(Stmt) /\ Len(u) = Len(s) + Len(t)
      /\ \A i \in 1..(Len(s) + Len(t)) : u[i] = IF i <= Len(s) THEN s[i] ELSE t[i - Len(s)]
  BY <1>1, ConcatProperties
<1>3. u # <<>> /\ Head(u) = s[1] /\ u[Len(u)] = Last
  BY <1>1, <1>2, EmptySeq
<1>4. ASSUME NEW i \in 1..(Len(u) - 1) PROVE <<u[i], u[i + 1]>> \in Edges(k)
  <2>1. CASE i < Len(s)
    <3>1. i \in 1..(Len(s) - 1) /\ u[i] = s[i] /\ u[i + 1] = s[i + 1]
      BY <1>1, <1>2, <2>1
    <3> QED
      BY <3>1 DEF Leads
  <2>2. CASE i = Len(s)
    <3>1. u[i] = s[Len(s)] /\ u[i + 1] = t[1]
      BY <1>1, <1>2, <2>2
    <3> QED
      BY <3>1
  <2>3. CASE i > Len(s)
    <3> DEFINE j == i - Len(s)
    <3>1. j \in 1..(Len(t) - 1) /\ (i + 1) - Len(s) = j + 1
      BY <1>1, <1>2, <2>3
    <3>2. u[i] = t[j]
      BY <1>1, <1>2, <2>3
    <3>3. u[i + 1] = t[(i + 1) - Len(s)]
      BY <1>1, <1>2, <2>3
    <3> HIDE DEF j
    <3> QED
      BY <3>1, <3>2, <3>3 DEF Plan
  <2>4. i < Len(s) \/ i = Len(s) \/ i > Len(s)
    BY <1>1, <1>2
  <2> QED
    BY <2>1, <2>2, <2>3, <2>4
<1>5. Head(Tail(u)) = s[2]
  <2>1. Tail(u) \in Seq(Stmt) /\ Len(Tail(u)) = Len(u) - 1 /\ \A i \in 1..Len(Tail(u)) : Tail(u)[i] = u[i + 1]
    BY <1>2, <1>3, HeadTailProperties
  <2>2. u[2] = s[2]
    BY <1>1, <1>2
  <2> QED
    BY <1>1, <1>2, <2>1, <2>2
<1> QED
  BY <1>2, <1>3, <1>4, <1>5 DEF Plan

LEMMA CommitPlan == \A k : Plan(k, <<"commit">>) /\ <<"commit">> # <<>> /\ <<"commit">>[1] = "commit"
<1>1. Last \in Stmt
  BY DEF Last, Stmt
<1>2. \A c \in Stmt : <<c>> \in Seq(Stmt) /\ <<c>> # <<>> /\ Len(<<c>>) = 1 /\ <<c>>[1] = c
  OBVIOUS
<1>3. /\ <<Last>> \in Seq(Stmt) /\ <<Last>> # <<>> /\ Len(<<Last>>) = 1 /\ <<Last>>[1] = Last
  BY <1>1, <1>2
<1>4. 1..(1 - 1) = {}
  OBVIOUS
<1>5. \A k : Plan(k, <<Last>>)
  BY <1>3, <1>4 DEF Plan
<1> QED
  BY <1>3, <1>5 DEF Last

LEMMA CreateLeads ==
  ASSUME NEW k, k = "create"
  PROVE  Leads(k, CreateSteps) /\ CreateSteps[Len(CreateSteps)] = "addNames" /\ CreateSteps[1] = "select" /\ CreateSteps[2] = "count" /\ Len(CreateSteps) = 4
<1>1. /\ CreateSteps \in Seq(Stmt) /\ CreateSteps # <<>> /\ Len(CreateSteps) = 4
      /\ CreateSteps[1] = "select"
      /\ CreateSteps[2] = "count"
      /\ CreateSteps[3] = "insert"
      /\ CreateSteps[4] = "addNames"
  BY DEF CreateSteps, Stmt
<1>2. /\ <<"select", "count">> \in Edges(k)
      /\ <<"count", "insert">> \in Edges(k)
      /\ <<"insert", "addNames">> \in Edges(k)
  BY DEF Edges, Stmt, Follows
<1>3. \A i \in 1..(4 - 1) : (i = 1 /\ i + 1 = 2) \/ (i = 2 /\ i + 1 = 3) \/ (i = 3 /\ i + 1 = 4)
  OBVIOUS
<1>4. \A i \in 1..(4 - 1) : <<CreateSteps[i], CreateSteps[i + 1]>> \in Edges(k)
  BY <1>1, <1>2, <1>3, Zenon
<1> QED
  BY <1>1, <1>4, Zenon DEF Leads

LEMMA MoveLeads ==
  ASSUME NEW k, k = "move"
  PROVE  Leads(k, MoveSteps) /\ MoveSteps[Len(MoveSteps)] = "inc" /\ MoveSteps[1] = "walk" /\ MoveSteps[2] = "affected" /\ Len(MoveSteps) = 6
<1>1. /\ MoveSteps \in Seq(Stmt) /\ MoveSteps # <<>> /\ Len(MoveSteps) = 6
      /\ MoveSteps[1] = "walk"
      /\ MoveSteps[2] = "affected"
      /\ MoveSteps[3] = "retag"
      /\ MoveSteps[4] = "setParent"
      /\ MoveSteps[5] = "dec"
      /\ MoveSteps[6] = "inc"
  BY DEF MoveSteps, Stmt
<1>2. /\ <<"walk", "affected">> \in Edges(k)
      /\ <<"affected", "retag">> \in Edges(k)
      /\ <<"retag", "setParent">> \in Edges(k)
      /\ <<"setParent", "dec">> \in Edges(k)
      /\ <<"dec", "inc">> \in Edges(k)
  BY DEF Edges, Stmt, Follows
<1>3. \A i \in 1..(6 - 1) : (i = 1 /\ i + 1 = 2) \/ (i = 2 /\ i + 1 = 3) \/ (i = 3 /\ i + 1 = 4) \/ (i = 4 /\ i + 1 = 5) \/ (i = 5 /\ i + 1 = 6)
  OBVIOUS
<1>4. \A i \in 1..(6 - 1) : <<MoveSteps[i], MoveSteps[i + 1]>> \in Edges(k)
  BY <1>1, <1>2, <1>3, Zenon
<1> QED
  BY <1>1, <1>4, Zenon DEF Leads

LEMMA RenameLeads ==
  ASSUME NEW k, k \in {"move", "rename"}
  PROVE  Leads(k, RenameSteps) /\ RenameSteps[Len(RenameSteps)] = "setPrimary" /\ RenameSteps[1] = "getNames" /\ RenameSteps[2] = "getParent" /\ Len(RenameSteps) = 5
<1>1. /\ RenameSteps \in Seq(Stmt) /\ RenameSteps # <<>> /\ Len(RenameSteps) = 5
      /\ RenameSteps[1] = "getNames"
      /\ RenameSteps[2] = "getParent"
      /\ RenameSteps[3] = "addNames"
      /\ RenameSteps[4] = "delNames"
      /\ RenameSteps[5] = "setPrimary"
  BY DEF RenameSteps, Stmt
<1>2. /\ <<"getNames", "getParent">> \in Edges(k)
      /\ <<"getParent", "addNames">> \in Edges(k)
      /\ <<"addNames", "delNames">> \in Edges(k)
      /\ <<"delNames", "setPrimary">> \in Edges(k)
  BY DEF Edges, Stmt, Follows
<1>3. \A i \in 1..(5 - 1) : (i = 1 /\ i + 1 = 2) \/ (i = 2 /\ i + 1 = 3) \/ (i = 3 /\ i + 1 = 4) \/ (i = 4 /\ i + 1 = 5)
  OBVIOUS
<1>4. \A i \in 1..(5 - 1) : <<RenameSteps[i], RenameSteps[i + 1]>> \in Edges(k)
  BY <1>1, <1>2, <1>3, Zenon
<1> QED
  BY <1>1, <1>4, Zenon DEF Leads

LEMMA DeleteLeads ==
  ASSUME NEW k, k = "delete"
  PROVE  Leads(k, DeleteSteps) /\ DeleteSteps[Len(DeleteSteps)] = "clean" /\ DeleteSteps[1] = "getTag" /\ DeleteSteps[2] = "cascade" /\ Len(DeleteSteps) = 4
<1>1. /\ DeleteSteps \in Seq(Stmt) /\ DeleteSteps # <<>> /\ Len(DeleteSteps) = 4
      /\ DeleteSteps[1] = "getTag"
      /\ DeleteSteps[2] = "cascade"
      /\ DeleteSteps[3] = "uncount"
      /\ DeleteSteps[4] = "clean"
  BY DEF DeleteSteps, Stmt
<1>2. /\ <<"getTag", "cascade">> \in Edges(k)
      /\ <<"cascade", "uncount">> \in Edges(k)
      /\ <<"uncount", "clean">> \in Edges(k)
  BY DEF Edges, Stmt, Follows
<1>3. \A i \in 1..(4 - 1) : (i = 1 /\ i + 1 = 2) \/ (i = 2 /\ i + 1 = 3) \/ (i = 3 /\ i + 1 = 4)
  OBVIOUS
<1>4. \A i \in 1..(4 - 1) : <<DeleteSteps[i], DeleteSteps[i + 1]>> \in Edges(k)
  BY <1>1, <1>2, <1>3, Zenon
<1> QED
  BY <1>1, <1>4, Zenon DEF Leads

LEMMA TagLeads ==
  ASSUME NEW k, k = "tag"
  PROVE  Leads(k, TagSteps) /\ TagSteps[Len(TagSteps)] = "apply" /\ TagSteps[1] = "bookmark" /\ TagSteps[2] = "walk" /\ Len(TagSteps) = 4
<1>1. /\ TagSteps \in Seq(Stmt) /\ TagSteps # <<>> /\ Len(TagSteps) = 4
      /\ TagSteps[1] = "bookmark"
      /\ TagSteps[2] = "walk"
      /\ TagSteps[3] = "current"
      /\ TagSteps[4] = "apply"
  BY DEF TagSteps, Stmt
<1>2. /\ <<"bookmark", "walk">> \in Edges(k)
      /\ <<"walk", "current">> \in Edges(k)
      /\ <<"current", "apply">> \in Edges(k)
  BY DEF Edges, Stmt, Follows
<1>3. \A i \in 1..(4 - 1) : (i = 1 /\ i + 1 = 2) \/ (i = 2 /\ i + 1 = 3) \/ (i = 3 /\ i + 1 = 4)
  OBVIOUS
<1>4. \A i \in 1..(4 - 1) : <<TagSteps[i], TagSteps[i + 1]>> \in Edges(k)
  BY <1>1, <1>2, <1>3, Zenon
<1> QED
  BY <1>1, <1>4, Zenon DEF Leads

\* Where each kind of request begins.
StartsWith(o, u) ==
  /\ u # <<>> /\ Plan(o.kind, u)
  /\ o.kind = "create" => Head(u) = "select"
  /\ o.kind = "move" => Head(u) = "walk" /\ Head(Tail(u)) = "affected"
  /\ o.kind = "rename" => Head(u) = "getNames"
  /\ o.kind = "delete" => Head(u) = "getTag"
  /\ o.kind = "tag" => Head(u) = "bookmark"

LEMMA StartPlan ==
  ASSUME NEW o \in AnyOp
  PROVE  StartsWith(o, Steps(o))
<1>1. o.kind \in {"create", "move", "rename", "delete", "tag"}
  BY OpFields
<1>2. CASE o.kind = "create"
  <2>1. Steps(o) = CreateSteps \o <<"commit">>
    BY <1>2 DEF Steps
  <2>2. <<CreateSteps[Len(CreateSteps)], <<"commit">>[1]>> \in Edges(o.kind)
    <3>1. <<"addNames", "commit">> \in Edges(o.kind)
      BY <1>2 DEF Edges, Stmt, Follows
    <3> QED
      BY <1>2, <3>1, CreateLeads, CommitPlan, Zenon
  <2>3. \A u : u = CreateSteps \o <<"commit">> =>
          u # <<>> /\ Plan(o.kind, u) /\ Head(u) = "select" /\ Head(Tail(u)) = "count"
    <3>1. Leads(o.kind, CreateSteps) /\ Len(CreateSteps) > 1
      BY <1>2, CreateLeads
    <3>2. Plan(o.kind, <<"commit">>) /\ <<"commit">> # <<>>
      BY CommitPlan, Zenon
    <3>3. \A u : u = CreateSteps \o <<"commit">> =>
            u # <<>> /\ Plan(o.kind, u) /\ Head(u) = CreateSteps[1] /\ Head(Tail(u)) = CreateSteps[2]
      BY <2>2, <3>1, <3>2, PlanConcat, Zenon
    <3>4. CreateSteps[1] = "select" /\ CreateSteps[2] = "count"
      BY <1>2, CreateLeads
    <3> QED
      BY <3>3, <3>4, Zenon
  <2> QED
    BY <1>2, <2>1, <2>3, Zenon DEF StartsWith
<1>3. CASE o.kind = "rename"
  <2>1. Steps(o) = RenameSteps \o <<"commit">>
    BY <1>3 DEF Steps
  <2>2. <<RenameSteps[Len(RenameSteps)], <<"commit">>[1]>> \in Edges(o.kind)
    <3>1. <<"setPrimary", "commit">> \in Edges(o.kind)
      BY <1>3 DEF Edges, Stmt, Follows
    <3> QED
      BY <1>3, <3>1, RenameLeads, CommitPlan, Zenon
  <2>3. \A u : u = RenameSteps \o <<"commit">> =>
          u # <<>> /\ Plan(o.kind, u) /\ Head(u) = "getNames" /\ Head(Tail(u)) = "getParent"
    <3>1. Leads(o.kind, RenameSteps) /\ Len(RenameSteps) > 1
      BY <1>3, RenameLeads
    <3>2. Plan(o.kind, <<"commit">>) /\ <<"commit">> # <<>>
      BY CommitPlan, Zenon
    <3>3. \A u : u = RenameSteps \o <<"commit">> =>
            u # <<>> /\ Plan(o.kind, u) /\ Head(u) = RenameSteps[1] /\ Head(Tail(u)) = RenameSteps[2]
      BY <2>2, <3>1, <3>2, PlanConcat, Zenon
    <3>4. RenameSteps[1] = "getNames" /\ RenameSteps[2] = "getParent"
      BY <1>3, RenameLeads
    <3> QED
      BY <3>3, <3>4, Zenon
  <2> QED
    BY <1>3, <2>1, <2>3, Zenon DEF StartsWith
<1>4. CASE o.kind = "delete"
  <2>1. Steps(o) = DeleteSteps \o <<"commit">>
    BY <1>4 DEF Steps
  <2>2. <<DeleteSteps[Len(DeleteSteps)], <<"commit">>[1]>> \in Edges(o.kind)
    <3>1. <<"clean", "commit">> \in Edges(o.kind)
      BY <1>4 DEF Edges, Stmt, Follows
    <3> QED
      BY <1>4, <3>1, DeleteLeads, CommitPlan, Zenon
  <2>3. \A u : u = DeleteSteps \o <<"commit">> =>
          u # <<>> /\ Plan(o.kind, u) /\ Head(u) = "getTag" /\ Head(Tail(u)) = "cascade"
    <3>1. Leads(o.kind, DeleteSteps) /\ Len(DeleteSteps) > 1
      BY <1>4, DeleteLeads
    <3>2. Plan(o.kind, <<"commit">>) /\ <<"commit">> # <<>>
      BY CommitPlan, Zenon
    <3>3. \A u : u = DeleteSteps \o <<"commit">> =>
            u # <<>> /\ Plan(o.kind, u) /\ Head(u) = DeleteSteps[1] /\ Head(Tail(u)) = DeleteSteps[2]
      BY <2>2, <3>1, <3>2, PlanConcat, Zenon
    <3>4. DeleteSteps[1] = "getTag" /\ DeleteSteps[2] = "cascade"
      BY <1>4, DeleteLeads
    <3> QED
      BY <3>3, <3>4, Zenon
  <2> QED
    BY <1>4, <2>1, <2>3, Zenon DEF StartsWith
<1>5. CASE o.kind = "tag"
  <2>1. Steps(o) = TagSteps \o <<"commit">>
    BY <1>5 DEF Steps
  <2>2. <<TagSteps[Len(TagSteps)], <<"commit">>[1]>> \in Edges(o.kind)
    <3>1. <<"apply", "commit">> \in Edges(o.kind)
      BY <1>5 DEF Edges, Stmt, Follows
    <3> QED
      BY <1>5, <3>1, TagLeads, CommitPlan, Zenon
  <2>3. \A u : u = TagSteps \o <<"commit">> =>
          u # <<>> /\ Plan(o.kind, u) /\ Head(u) = "bookmark" /\ Head(Tail(u)) = "walk"
    <3>1. Leads(o.kind, TagSteps) /\ Len(TagSteps) > 1
      BY <1>5, TagLeads
    <3>2. Plan(o.kind, <<"commit">>) /\ <<"commit">> # <<>>
      BY CommitPlan, Zenon
    <3>3. \A u : u = TagSteps \o <<"commit">> =>
            u # <<>> /\ Plan(o.kind, u) /\ Head(u) = TagSteps[1] /\ Head(Tail(u)) = TagSteps[2]
      BY <2>2, <3>1, <3>2, PlanConcat, Zenon
    <3>4. TagSteps[1] = "bookmark" /\ TagSteps[2] = "walk"
      BY <1>5, TagLeads
    <3> QED
      BY <3>3, <3>4, Zenon
  <2> QED
    BY <1>5, <2>1, <2>3, Zenon DEF StartsWith
<1>6. CASE o.kind = "move"
  <2>1. PICK t : /\ t \in Seq(Stmt) /\ Plan(o.kind, t) /\ t # <<>> /\ t[1] \in {"getNames", "commit"}
                 /\ Steps(o) = MoveSteps \o t
    <3>1. Steps(o) = (MoveSteps \o (IF o.names = {} THEN <<>> ELSE RenameSteps)) \o <<"commit">>
      BY <1>6 DEF Steps
    <3>2. MoveSteps \in Seq(Stmt) /\ RenameSteps \in Seq(Stmt)
      BY <1>6, MoveLeads, RenameLeads DEF Leads
    <3>3. /\ Plan(o.kind, <<"commit">>) /\ <<"commit">> # <<>> /\ <<"commit">>[1] = "commit"
          /\ <<"commit">> \in Seq(Stmt)
      BY CommitPlan, Zenon DEF Plan
    <3>4. CASE o.names = {}
      <4>1. MoveSteps \o <<>> = MoveSteps
        BY <3>2, ConcatEmptySeq
      <4>2. Steps(o) = MoveSteps \o <<"commit">>
        BY <3>1, <3>4, <4>1, Zenon
      <4>3. <<"commit">>[1] \in {"getNames", "commit"}
        BY <3>3, Zenon
      <4> QED
        BY <3>3, <4>2, <4>3, Zenon
    <3>5. CASE o.names # {}
      <4>1. Steps(o) = MoveSteps \o (RenameSteps \o <<"commit">>)
        <5>1. Steps(o) = (MoveSteps \o RenameSteps) \o <<"commit">>
          BY <3>1, <3>5, Zenon
        <5>2. \A c \in Seq(Stmt) : (MoveSteps \o RenameSteps) \o c = MoveSteps \o (RenameSteps \o c)
          BY <3>2, ConcatAssociative, SMTT(30)
        <5> QED
          BY <3>3, <5>1, <5>2, Zenon
      <4>2. <<RenameSteps[Len(RenameSteps)], <<"commit">>[1]>> \in Edges(o.kind)
        <5>1. <<"setPrimary", "commit">> \in Edges(o.kind)
          BY <1>6 DEF Edges, Stmt, Follows
        <5> QED
          BY <1>6, <3>3, <5>1, RenameLeads
      <4>3. Leads(o.kind, RenameSteps) /\ Len(RenameSteps) > 1
        BY <1>6, RenameLeads
      <4>4. \A u : u = RenameSteps \o <<"commit">> =>
              u # <<>> /\ Plan(o.kind, u) /\ Head(u) = "getNames"
        <5>1. Plan(o.kind, <<"commit">>) /\ <<"commit">> # <<>>
          BY CommitPlan, Zenon
        <5>2. \A u : u = RenameSteps \o <<"commit">> =>
                u # <<>> /\ Plan(o.kind, u) /\ Head(u) = RenameSteps[1]
          BY <4>2, <4>3, <5>1, PlanConcat, ZenonT(30)
        <5>3. RenameSteps[1] = "getNames"
          BY <1>6, RenameLeads
        <5> QED
          BY <5>2, <5>3, Zenon
      <4>5. PICK u : u = RenameSteps \o <<"commit">>
        BY Zenon
      <4>6. u # <<>> /\ Plan(o.kind, u) /\ Head(u) = "getNames" /\ u \in Seq(Stmt)
        BY <4>4, <4>5, Zenon DEF Plan
      <4>7. u[1] = "getNames"
        BY <4>6
      <4>8. Steps(o) = MoveSteps \o u
        BY <4>1, <4>5, Zenon
      <4> QED
        BY <4>6, <4>7, <4>8, Zenon
    <3> QED
      BY <3>4, <3>5
  <2>2. <<MoveSteps[Len(MoveSteps)], t[1]>> \in Edges(o.kind)
    <3>1. <<"inc", t[1]>> \in Edges(o.kind)
      BY <1>6, <2>1 DEF Edges, Stmt, Follows
    <3>2. MoveSteps[Len(MoveSteps)] = "inc"
      BY <1>6, MoveLeads, Zenon
    <3> QED
      BY <3>1, <3>2, Zenon
  <2>3. Leads(o.kind, MoveSteps) /\ Len(MoveSteps) > 1
    BY <1>6, MoveLeads
  <2>4. Plan(o.kind, t) /\ t # <<>>
    BY <2>1
  <2>5. \A u : u = MoveSteps \o t =>
          u # <<>> /\ Plan(o.kind, u) /\ Head(u) = "walk" /\ Head(Tail(u)) = "affected"
    <3>1. \A u : u = MoveSteps \o t =>
            u # <<>> /\ Plan(o.kind, u) /\ Head(u) = MoveSteps[1] /\ Head(Tail(u)) = MoveSteps[2]
      BY <2>2, <2>3, <2>4, PlanConcat, Zenon
    <3>2. MoveSteps[1] = "walk" /\ MoveSteps[2] = "affected"
      BY <1>6, MoveLeads
    <3> QED
      BY <3>1, <3>2, Zenon
  <2> QED
    BY <1>6, <2>1, <2>5, Zenon DEF StartsWith
<1> QED
  BY <1>1, <1>2, <1>3, <1>4, <1>5, <1>6

LEMMA StartLocals ==
  ASSUME NEW o \in AnyOp
  PROVE  LocalsOf(o) \in Local /\ Stage(o, LocalsOf(o), Steps(o))
<1>1. /\ o.kind \in {"create", "move", "rename", "delete", "tag"}
      /\ o.kind \in {"create", "move"} => o.par \in TagId
      /\ o.kind \in {"move", "rename", "delete"} => o.id \in TagId
      /\ o.kind \in {"create", "move", "rename"} => o.names \subseteq AnyName /\ o.first \in AnyName
      /\ o.kind = "tag" => o.b \in Taggable /\ o.list \in Seq(TagId)
  BY OpFields
<1>2. NoLocals \in Local
  BY EmptySeq DEF NoLocals, Local, AnyTag, AnyName
<1>3. StartsWith(o, Steps(o))
  BY StartPlan
<1>4. CASE o.kind = "create"
  <2>1. LocalsOf(o) = [NoLocals EXCEPT !.par = o.par, !.add = o.names]
    BY <1>4 DEF LocalsOf
  <2>2. LocalsOf(o) \in Local
    BY <1>1, <1>2, <1>4, <2>1, ZenonT(30) DEF Local, AnyTag
  <2> QED
    BY <1>3, <1>4, <2>2 DEF Stage, StartsWith
<1>5. CASE o.kind = "move"
  <2>1. LocalsOf(o) = [NoLocals EXCEPT !.id = o.id, !.todo = <<o.id, o.par>>]
    BY <1>5 DEF LocalsOf
  <2>2. <<o.id, o.par>> \in Seq(TagId)
    BY <1>1, <1>5
  <2>3. LocalsOf(o) \in Local /\ LocalsOf(o).id = o.id
    BY <1>1, <1>2, <1>5, <2>1, <2>2, ZenonT(30) DEF Local, AnyTag
  <2> QED
    BY <1>1, <1>3, <1>5, <2>3 DEF Stage, StartsWith
<1>6. CASE o.kind = "tag"
  <2>1. LocalsOf(o) = [NoLocals EXCEPT !.b = o.b, !.todo = o.list]
    BY <1>6 DEF LocalsOf
  <2>3. LocalsOf(o) \in Local /\ LocalsOf(o).b = o.b
    BY <1>1, <1>2, <1>6, <2>1, ZenonT(30) DEF Local, AnyTag
  <2> QED
    BY <1>1, <1>3, <1>6, <2>3 DEF Stage, StartsWith
<1>7. CASE o.kind \in {"rename", "delete"}
  <2>1. LocalsOf(o) = [NoLocals EXCEPT !.id = o.id]
    BY <1>7 DEF LocalsOf
  <2>3. LocalsOf(o) \in Local /\ LocalsOf(o).id = o.id
    BY <1>1, <1>2, <1>7, <2>1, ZenonT(30) DEF Local, AnyTag
  <2> QED
    BY <1>1, <1>3, <1>7, <2>3 DEF Stage, StartsWith
<1> QED
  BY <1>1, <1>4, <1>5, <1>6, <1>7

LEMMA OpsAreOps ==
  ASSUME NEW T \in SUBSET TagId
  PROVE  Ops(T) \subseteq AnyOp
<1>1. NameSet \subseteq SUBSET Name /\ {} \in SUBSET Name
  BY DEF NameSet
<1>2. TagLists(T) \subseteq Seq(TagId)
  <2> SUFFICES ASSUME NEW k \in 0..MaxTags, NEW s \in [1..k -> T] PROVE s \in Seq(TagId)
    BY DEF TagLists
  <2>1. k \in Nat
    BY BoundAssumption
  <2> QED
    BY <2>1
<1> SUFFICES ASSUME NEW o \in Ops(T) PROVE o \in AnyOp
  OBVIOUS
<1>3. CASE o \in [kind : {"create"}, par : T, names : NameSet, first : Name]
  BY <1>1, <1>3 DEF AnyOp
<1>4. CASE o \in [kind : {"move"}, id : T, par : T, policy : {"keep", "del"},
                  names : NameSet \cup {{}}, first : Name \cup {EmptyName}]
  BY <1>1, <1>4 DEF AnyOp, AnyName
<1>5. CASE o \in [kind : {"rename"}, id : T, names : NameSet, first : Name]
  BY <1>1, <1>5 DEF AnyOp
<1>6. CASE o \in [kind : {"delete"}, id : T \ {Root}]
  BY <1>6 DEF AnyOp
<1>7. CASE o \in [kind : {"tag"}, b : Taggable, list : TagLists(T)]
  BY <1>2, <1>7 DEF AnyOp
<1> QED
  BY <1>3, <1>4, <1>5, <1>6, <1>7 DEF Ops

LEMMA SelectParentShape ==
  ASSUME TypeOK, StageOK, NEW p \in Request, SelectParent(p)
  PROVE  ReadStep(p) \/ Fail(p)
<1> DEFINE s == Tail(steps[p])
<1>1. At(p, "select") /\ (Read(p, loc[p], s) \/ Fail(p))
  BY Zenon DEF SelectParent
<1>2. /\ op[p] \in AnyOp /\ s # <<>> /\ Plan(op[p].kind, s) /\ loc[p] \in Local
      /\ Follows(op[p].kind, "select", Head(s)) /\ Open(p)
  BY <1>1, Onward DEF TypeOK, At
<1>3. op[p].kind = "create" /\ Head(s) = "count"
  BY <1>2 DEF Follows
<1>4. Stage(op[p], loc[p], s)
  BY <1>3 DEF Stage
<1> QED
  BY <1>1, <1>2, <1>4, ReadGoesOn

LEMMA GetNamesShape ==
  ASSUME TypeOK, StageOK, NEW p \in Request, GetNames(p)
  PROVE  ReadStep(p) \/ (Panic(p) /\ op[p].kind \in {"move", "rename"})
<1> DEFINE s == Tail(steps[p])
           l == loc[p]
           now == NamesSeen(p, l.id)
<1>1. /\ op[p] \in AnyOp /\ s # <<>> /\ Plan(op[p].kind, s) /\ l \in Local
      /\ Follows(op[p].kind, "getNames", Head(s)) /\ Open(p) /\ Stage(op[p], l, steps[p])
  BY Onward DEF TypeOK, At, GetNames
<1>2. op[p].kind \in {"move", "rename"} /\ Head(s) = "getParent"
  BY <1>1 DEF Follows
<1>3. CASE now = {}
  BY <1>2, <1>3 DEF GetNames
<1>4. CASE now # {}
  <2>1. PICK first \in AnyName :
          Read(p, [l EXCEPT !.add = op[p].names \ now, !.del = now \ op[p].names,
                            !.set = {op[p].first} \ {first},
                            !.clear = (op[p].names \cap {first}) \ {op[p].first}], s)
    BY <1>4 DEF GetNames, NamesSeen, AnyName
  <2> DEFINE m == [l EXCEPT !.add = op[p].names \ now, !.del = now \ op[p].names,
                            !.set = {op[p].first} \ {first},
                            !.clear = (op[p].names \cap {first}) \ {op[p].first}]
  <2>2. now \subseteq AnyName /\ op[p].names \subseteq AnyName /\ op[p].first \in AnyName
    BY <1>1, <1>2, OpFields DEF NamesSeen, AnyName
  <2>3. m \in Local
    BY <1>1, <2>2 DEF Local
  <2>4. Stage(op[p], m, s)
    BY <1>1, <1>2 DEF Stage, Local
  <2> QED
    BY <1>1, <2>1, <2>3, <2>4, ReadGoesOn
<1> QED
  BY <1>3, <1>4

LEMMA CheckNameShape ==
  ASSUME TypeOK, StageOK, NEW p \in Request, CheckName(p)
  PROVE  ReadStep(p) \/ Fail(p)
<1> DEFINE s == Tail(steps[p])
           l == loc[p]
<1>1. /\ op[p] \in AnyOp /\ s # <<>> /\ Plan(op[p].kind, s) /\ l \in Local
      /\ Follows(op[p].kind, "addNames", Head(s)) /\ Open(p) /\ Stage(op[p], l, steps[p])
      /\ steps[p] # <<>> /\ Head(steps[p]) = "addNames" /\ Plan(op[p].kind, steps[p])
  BY Onward DEF TypeOK, At, CheckName
<1>2. op[p].kind \in {"create", "move", "rename"} /\ Head(s) \in {"commit", "delNames"}
  BY <1>1 DEF Follows
<1>3. CASE l.add = {}
  <2>1. Read(p, l, s)
    BY <1>3, Zenon DEF CheckName
  <2>2. Stage(op[p], l, s)
    BY <1>1, <1>2 DEF Stage
  <2> QED
    BY <1>1, <2>1, <2>2, ReadGoesOn
<1>4. CASE l.add # {} /\ ~Fail(p)
  <2>1. PICK n \in l.add : Read(p, [l EXCEPT !.name = n, !.add = @ \ {n}], <<"insertName">> \o steps[p])
    BY <1>4 DEF CheckName
  <2> DEFINE m == [l EXCEPT !.name = n, !.add = @ \ {n}]
             u == <<"insertName">> \o steps[p]
  <2>2. m \in Local
    BY <1>1 DEF Local
  <2>3. u # <<>> /\ Plan(op[p].kind, u) /\ Head(u) = "insertName" /\ Head(Tail(u)) = "addNames"
    <3>2. u = Push("insertName", steps[p])
      BY DEF Push
    <3>3. "insertName" \in Stmt /\ Follows(op[p].kind, "insertName", "addNames")
      BY <1>2 DEF Stmt, Follows
    <3>4. PlanFrom(op[p].kind, steps[p], "addNames")
      BY <1>1 DEF PlanFrom
    <3>5. /\ PlanFrom(op[p].kind, Push("insertName", steps[p]), "insertName")
          /\ Second(Push("insertName", steps[p]), "addNames")
      BY <3>3, <3>4, PushOn, Zenon
    <3> QED
      BY <3>2, <3>5, Zenon DEF PlanFrom, Second
  <2>4. m.id = l.id /\ m.b = l.b
    BY <1>1 DEF Local
  <2>5. Stage(op[p], m, u)
    BY <1>1, <1>2, <2>3, <2>4 DEF Stage
  <2> QED
    BY <1>1, <2>1, <2>2, <2>3, <2>5, ReadGoesOn
<1> QED
  BY <1>3, <1>4

LEMMA GetParentShape ==
  ASSUME TypeOK, StageOK, NEW p \in Request, GetParent(p)
  PROVE  ReadStep(p) \/ Fail(p)
<1> DEFINE s == Tail(steps[p])
           l == loc[p]
<1>1. /\ op[p] \in AnyOp /\ s # <<>> /\ Plan(op[p].kind, s) /\ l \in Local
      /\ Follows(op[p].kind, "getParent", Head(s)) /\ Open(p) /\ Stage(op[p], l, steps[p])
  BY Onward DEF TypeOK, At, GetParent
<1>2. op[p].kind \in {"move", "rename"} /\ Head(s) = "addNames"
  BY <1>1 DEF Follows
<1>3. PICK x \in AnyTag : Fail(p) \/ Read(p, [l EXCEPT !.par = x], s)
  <2>1. CASE l.add = {}
    <3>1. Read(p, l, s) /\ l.par \in AnyTag
      BY <1>1, <2>1, LocalFields DEF GetParent
    <3>2. [l EXCEPT !.par = l.par] = l
      BY <1>1 DEF Local
    <3> QED
      BY <3>1, <3>2
  <2>2. CASE l.id \in SeesTags(p)
    <3>1. l.id \in TagId /\ Sees(p, l.id) \in TagRecord
      BY <2>2, SeesOK, Rows DEF SeesTags
    <3>2. Sees(p, l.id).parent \in AnyTag
      BY <3>1 DEF TagRecord, AnyTag
    <3> QED
      BY <2>1, <2>2, <3>2 DEF GetParent
  <2>3. CASE l.add # {} /\ l.id \notin SeesTags(p)
    BY <2>3 DEF GetParent, AnyTag
  <2> QED
    BY <2>1, <2>2, <2>3
<1> DEFINE m == [l EXCEPT !.par = x]
<1>4. m \in Local /\ m.id = l.id /\ m.b = l.b
  BY <1>1 DEF Local
<1>5. Stage(op[p], m, s)
  BY <1>1, <1>2, <1>4 DEF Stage
<1> QED
  BY <1>1, <1>3, <1>4, <1>5, ReadGoesOn

-----------------------------------------------------------------------------
LEMMA NoBlock ==
  ASSUME NEW p \in Request, Blockers(p) = {}
  PROVE  \A r \in Needs(p).write \cup Needs(p).del : lock[r] \in {p, Nobody}
<1> DEFINE n == Needs(p)
<1> HIDE DEF n
<1>1. ({lock[r] : r \in n.write \cup n.del}
         \cup (UNION {share[r] : r \in n.del})
         \cup {lock[r] : r \in {x \in n.key : com[x] # NoRow /\ cur[x] = NoRow}}) \ {p, Nobody} = {}
  BY DEF Blockers, n
<1>2. \A r \in n.write \cup n.del : lock[r] \in {p, Nobody}
  BY <1>1, Zenon
<1> QED
  BY <1>2 DEF n

LEMMA NeedsOf ==
  ASSUME NEW p \in Request, Open(p)
  PROVE  LET h == Head(steps[p])
             n == Needs(p)
             l == loc[p]
         IN  /\ h \in {"count", "inc"} => n = [write |-> {op[p].par}, del |-> {}, key |-> {}]
             /\ h \in {"dec", "uncount"} => n = [write |-> {l.par} \ {NoTag}, del |-> {}, key |-> {}]
             /\ h = "setParent" => n = [write |-> {op[p].id}, del |-> {}, key |-> {op[p].par}]
             /\ h = "insert" => n = [write |-> {}, del |-> {}, key |-> {op[p].par}]
             /\ h = "insertName" => n = [write |-> {<<l.id, l.name>>}, del |-> {}, key |-> {l.id}]
             /\ h = "delNames" => n = [write |-> {<<l.id, x>> : x \in l.del}, del |-> {}, key |-> {}]
             /\ h = "setPrimary" =>
                  n = [write |-> {<<l.id, x>> : x \in l.set \cup l.clear}, del |-> {}, key |-> {}]
             /\ h = "bookmark" => n = [write |-> {op[p].b}, del |-> {}, key |-> {}]
             /\ h = "apply" =>
                  n = [write |-> {<<l.b, x>> : x \in (l.want \ l.have) \cup (l.have \ l.want)},
                       del |-> {}, key |-> l.want \ l.have]
             /\ h = "deleteRow" => n = [write |-> Cascades(p, l.id), del |-> {l.id}, key |-> {}]
             /\ h \notin {"count", "inc", "dec", "uncount", "setParent", "insert", "insertName",
                          "delNames", "setPrimary", "bookmark", "apply", "deleteRow"}
                  => n = [write |-> {}, del |-> {}, key |-> {}]
BY DEF Needs, At

\* What Update and the other statements that write come to: the values as a function.
LEMMA WriteGoesOn ==
  ASSUME TypeOK, StageOK, NEW p \in Request, Open(p),
         NEW W \in SUBSET Row, NEW K \in SUBSET TagId, NEW v,
         \A r \in W : v[r] \in Values(r) /\ lock[r] \in {p, Nobody},
         cur' = [r \in Row |-> IF r \in W THEN v[r] ELSE cur[r]],
         lock' = [r \in Row |-> IF r \in W THEN p ELSE lock[r]],
         share' = [x \in TagId |-> IF x \in K THEN share[x] \cup {p} ELSE share[x]],
         UNCHANGED <<com, op, out>>, fresh' \subseteq fresh, W \cap fresh' = {},
         NEW l \in Local, loc' = [loc EXCEPT ![p] = l],
         NEW s, steps' = [steps EXCEPT ![p] = s], s # <<>>, Plan(op[p].kind, s), Stage(op[p], l, s)
  PROVE  WriteStep(p)
<1>1. Writes(p, W, K, v)
  BY Zenon DEF Writes
<1>2. GoesOn(p, l, s)
  BY Zenon DEF GoesOn
<1> QED
  BY <1>1, <1>2, Zenon DEF WriteStep

LEMMA PresentRows ==
  ASSUME NEW p \in Request, NEW W \in SUBSET Row, FreshOK
  PROVE  Present(p, W) \in SUBSET Row /\ Present(p, W) \subseteq W /\ Present(p, W) \cap fresh = {}
BY RequestAssumption DEF Present, Sees, FreshOK

\* An UPDATE of the rows in W.
LEMMA UpdateGoesOn ==
  ASSUME TypeOK, StageOK, FreshOK, NEW p \in Request, Open(p),
         Tail(steps[p]) # <<>>, Plan(op[p].kind, Tail(steps[p])), Stage(op[p], loc[p], Tail(steps[p])),
         NEW W \in SUBSET Row, W \subseteq Needs(p).write, Blockers(p) = {}, NEW v,
         \A r \in Present(p, W) : v[r] \in Values(r),
         cur' = [r \in Row |-> IF r \in Present(p, W) THEN v[r] ELSE cur[r]],
         lock' = [r \in Row |-> IF r \in Present(p, W) THEN p ELSE lock[r]],
         share' = [x \in TagId |-> IF x \in {} THEN share[x] \cup {p} ELSE share[x]],
         UNCHANGED <<com, op, out, fresh, loc>>, Done(p)
  PROVE  WriteStep(p)
<1>1. \A r \in Present(p, W) : v[r] \in Values(r) /\ lock[r] \in {p, Nobody}
  BY NoBlock, PresentRows
<1>2. loc[p] \in Local /\ loc' = [loc EXCEPT ![p] = loc[p]]
  BY DEF TypeOK
<1>3. steps' = [steps EXCEPT ![p] = Tail(steps[p])]
  BY DEF Done, Go
<1>4. Present(p, W) \in SUBSET Row /\ Present(p, W) \cap fresh' = {}
  BY PresentRows
<1>5. Writes(p, Present(p, W), {}, v)
  BY <1>1, Zenon DEF Writes
<1>6. GoesOn(p, loc[p], Tail(steps[p]))
  BY <1>2, <1>3 DEF GoesOn
<1>7. fresh' \subseteq fresh /\ {} \in SUBSET TagId
  OBVIOUS
<1> QED
  BY <1>4, <1>5, <1>6, <1>7, Zenon DEF WriteStep

LEMMA CountUpShape ==
  ASSUME TypeOK, StageOK, FreshOK, NEW p \in Request, CountUp(p)
  PROVE  WriteStep(p)
<1> DEFINE s == Tail(steps[p])
           W == {op[p].par}
           v == [x \in W |-> CountedUp(p, x)]
<1>1. PICK h \in {"count", "inc"} : At(p, h)
  BY DEF CountUp
<1>2. /\ op[p] \in AnyOp /\ s # <<>> /\ Plan(op[p].kind, s) /\ Open(p) /\ Head(steps[p]) = h
      /\ Follows(op[p].kind, h, Head(s)) /\ Stage(op[p], loc[p], steps[p])
  BY <1>1, Onward DEF TypeOK, At
<1>3. /\ op[p].kind \in {"create", "move"} /\ Head(s) \in {"insert", "getNames", "commit"}
      /\ op[p].par \in TagId
  BY <1>1, <1>2, OpFields DEF Follows
<1>4. Stage(op[p], loc[p], s)
  BY <1>2, <1>3 DEF Stage
<1>5. /\ cur' = [r \in Row |-> IF r \in Present(p, W) THEN CountedUp(p, r) ELSE cur[r]]
      /\ lock' = [r \in Row |-> IF r \in Present(p, W) THEN p ELSE lock[r]]
      /\ share' = [x \in TagId |-> IF x \in {} THEN share[x] \cup {p} ELSE share[x]]
      /\ UNCHANGED <<com, op, out, fresh, loc>> /\ Done(p) /\ Blockers(p) = {}
  BY DEF CountUp, Update, Write
<1>6. W \in SUBSET Row /\ W \subseteq TagId /\ Present(p, W) \subseteq W
  BY <1>3, Rows DEF Present
<1>7. cur' = [r \in Row |-> IF r \in Present(p, W) THEN v[r] ELSE cur[r]]
  BY <1>5, <1>6
<1>8. \A r \in Present(p, W) : v[r] \in Values(r)
  <2> SUFFICES ASSUME NEW r \in Present(p, W) PROVE v[r] \in Values(r)
    OBVIOUS
  <2>1. r \in TagId /\ Sees(p, r) \in TagRecord /\ v[r] = CountedUp(p, r)
    BY <1>6, Rows, SeesOK DEF Present
  <2>2. CountedUp(p, r) \in TagRecord
    BY <2>1 DEF CountedUp, TagRecord
  <2> QED
    BY <2>1, <2>2, Rows
<1>9. W \subseteq Needs(p).write
  BY <1>2, NeedsOf
<1> HIDE DEF v, W
<1> QED
  BY <1>2, <1>4, <1>5, <1>6, <1>7, <1>8, <1>9, UpdateGoesOn

LEMMA CountDownShape ==
  ASSUME TypeOK, StageOK, FreshOK, NEW p \in Request, CountDown(p)
  PROVE  WriteStep(p)
<1> DEFINE s == Tail(steps[p])
           W == {loc[p].par} \ {NoTag}
           v == [x \in W |-> CountedDown(p, x)]
<1>1. PICK h \in {"dec", "uncount"} : At(p, h)
  BY DEF CountDown
<1>2. /\ op[p] \in AnyOp /\ s # <<>> /\ Plan(op[p].kind, s) /\ Open(p) /\ Head(steps[p]) = h
      /\ Follows(op[p].kind, h, Head(s)) /\ Stage(op[p], loc[p], steps[p])
  BY <1>1, Onward DEF TypeOK, At
<1>3. /\ op[p].kind \in {"move", "delete"} /\ Head(s) \in {"inc", "clean"}
      /\ loc[p].par \in AnyTag
  BY <1>1, <1>2, LocalFields DEF Follows, TypeOK
<1>4. Stage(op[p], loc[p], s)
  BY <1>2, <1>3 DEF Stage
<1>5. /\ cur' = [r \in Row |-> IF r \in Present(p, W) THEN CountedDown(p, r) ELSE cur[r]]
      /\ lock' = [r \in Row |-> IF r \in Present(p, W) THEN p ELSE lock[r]]
      /\ share' = [x \in TagId |-> IF x \in {} THEN share[x] \cup {p} ELSE share[x]]
      /\ UNCHANGED <<com, op, out, fresh, loc>> /\ Done(p) /\ Blockers(p) = {}
  BY DEF CountDown, Update, Write
<1>6. W \in SUBSET Row /\ W \subseteq TagId /\ Present(p, W) \subseteq W
  BY <1>3, Rows DEF Present, AnyTag
<1>7. cur' = [r \in Row |-> IF r \in Present(p, W) THEN v[r] ELSE cur[r]]
  BY <1>5, <1>6
<1>8. \A r \in Present(p, W) : v[r] \in Values(r)
  <2> SUFFICES ASSUME NEW r \in Present(p, W) PROVE v[r] \in Values(r)
    OBVIOUS
  <2>1. r \in TagId /\ Sees(p, r) \in TagRecord /\ v[r] = CountedDown(p, r)
    BY <1>6, Rows, SeesOK DEF Present
  <2>2. CountedDown(p, r) \in TagRecord
    BY <2>1 DEF CountedDown, TagRecord
  <2> QED
    BY <2>1, <2>2, Rows
<1>9. W \subseteq Needs(p).write
  BY <1>2, NeedsOf
<1> HIDE DEF v, W
<1> QED
  BY <1>2, <1>4, <1>5, <1>6, <1>7, <1>8, <1>9, UpdateGoesOn

LEMMA DeleteNamesShape ==
  ASSUME TypeOK, StageOK, FreshOK, NEW p \in Request, DeleteNames(p)
  PROVE  WriteStep(p)
<1> DEFINE s == Tail(steps[p])
           W == {<<loc[p].id, n>> : n \in loc[p].del}
           v == [r \in W |-> NoRow]
<1>1. /\ op[p] \in AnyOp /\ s # <<>> /\ Plan(op[p].kind, s) /\ Open(p) /\ Head(steps[p]) = "delNames"
      /\ Follows(op[p].kind, "delNames", Head(s)) /\ Stage(op[p], loc[p], steps[p]) /\ loc[p] \in Local
  BY Onward DEF TypeOK, At, DeleteNames
<1>2. op[p].kind \in {"move", "rename"} /\ Head(s) = "setPrimary"
  BY <1>1 DEF Follows
<1>3. Stage(op[p], loc[p], s) /\ loc[p].id \in TagId /\ loc[p].del \subseteq AnyName
  BY <1>1, <1>2, LocalFields DEF Stage
<1>4. /\ cur' = [r \in Row |-> IF r \in Present(p, W) THEN NoRow ELSE cur[r]]
      /\ lock' = [r \in Row |-> IF r \in Present(p, W) THEN p ELSE lock[r]]
      /\ share' = [x \in TagId |-> IF x \in {} THEN share[x] \cup {p} ELSE share[x]]
      /\ UNCHANGED <<com, op, out, fresh, loc>> /\ Done(p) /\ Blockers(p) = {}
  BY Zenon DEF DeleteNames, Update, Write
<1>5. W \in SUBSET Row
  BY <1>3, Rows, Zenon
<1>6. W \subseteq Needs(p).write
  BY <1>1, NeedsOf
<1>7. Present(p, W) \subseteq W
  BY DEF Present
<1> HIDE DEF W
<1>8. /\ cur' = [r \in Row |-> IF r \in Present(p, W) THEN v[r] ELSE cur[r]]
      /\ \A r \in Present(p, W) : v[r] \in Values(r)
  BY <1>4, <1>7 DEF Values
<1> HIDE DEF v
<1> QED
  BY <1>1, <1>3, <1>4, <1>5, <1>6, <1>8, UpdateGoesOn

LEMMA SetPrimaryShape ==
  ASSUME TypeOK, StageOK, FreshOK, NEW p \in Request, SetPrimary(p)
  PROVE  WriteStep(p)
<1> DEFINE s == Tail(steps[p])
           l == loc[p]
           W == {<<l.id, n>> : n \in l.set \cup l.clear}
           v == [r \in W |-> r[2] \in l.set]
<1>1. /\ op[p] \in AnyOp /\ s # <<>> /\ Plan(op[p].kind, s) /\ Open(p) /\ Head(steps[p]) = "setPrimary"
      /\ Follows(op[p].kind, "setPrimary", Head(s)) /\ Stage(op[p], l, steps[p]) /\ l \in Local
  BY Onward DEF TypeOK, At, SetPrimary
<1>2. op[p].kind \in {"move", "rename"} /\ Head(s) = "commit"
  BY <1>1 DEF Follows
<1>3. Stage(op[p], l, s) /\ l.id \in TagId /\ l.set \cup l.clear \subseteq AnyName
  BY <1>1, <1>2, LocalFields DEF Stage
<1>4. /\ cur' = [r \in Row |-> IF r \in Present(p, W) THEN r[2] \in l.set ELSE cur[r]]
      /\ lock' = [r \in Row |-> IF r \in Present(p, W) THEN p ELSE lock[r]]
      /\ share' = [x \in TagId |-> IF x \in {} THEN share[x] \cup {p} ELSE share[x]]
      /\ UNCHANGED <<com, op, out, fresh, loc>> /\ Done(p) /\ Blockers(p) = {}
  BY Zenon DEF SetPrimary, Update, Write
<1>5. W \in SUBSET Row /\ W \cap TagId = {}
  BY <1>3, Rows, Zenon
<1>6. W \subseteq Needs(p).write
  BY <1>1, NeedsOf
<1>7. Present(p, W) \subseteq W
  BY DEF Present
<1> HIDE DEF W
<1>8. /\ cur' = [r \in Row |-> IF r \in Present(p, W) THEN v[r] ELSE cur[r]]
      /\ \A r \in Present(p, W) : v[r] \in Values(r)
  <2>1. \A r \in Present(p, W) : v[r] = (r[2] \in l.set)
    BY <1>7, Zenon
  <2>2. [r \in Row |-> IF r \in Present(p, W) THEN r[2] \in l.set ELSE cur[r]]
          = [r \in Row |-> IF r \in Present(p, W) THEN v[r] ELSE cur[r]]
    BY <2>1, Zenon
  <2>3. \A r \in Present(p, W) : v[r] \in BOOLEAN
    <3>1. \A c \in BOOLEAN, r \in Present(p, W) : c = (r[2] \in l.set) => v[r] = c
      BY <2>1, Zenon
    <3>2. ASSUME NEW r PROVE \E c \in BOOLEAN : c = (r[2] \in l.set)
      <4>1. CASE r[2] \in l.set
        <5>1. TRUE = (r[2] \in l.set)
          BY <4>1, Zenon
        <5> QED
          BY <5>1, Zenon
      <4>2. CASE r[2] \notin l.set
        <5>1. FALSE = (r[2] \in l.set)
          BY <4>2
        <5> QED
          BY <5>1, Zenon
      <4> QED
        BY <4>1, <4>2, Zenon
    <3> QED
      BY <3>1, <3>2, Zenon
  <2>4. \A r \in Present(p, W) : Values(r) = BOOLEAN \cup {NoRow}
    BY <1>5, <1>7, Rows, Zenon DEF Values
  <2>5. cur' = [r \in Row |-> IF r \in Present(p, W) THEN v[r] ELSE cur[r]]
    BY <1>4, <2>2, Zenon
  <2> QED
    BY <2>3, <2>4, <2>5, Zenon
<1> HIDE DEF v
<1> QED
  BY <1>1, <1>3, <1>4, <1>5, <1>6, <1>8, UpdateGoesOn, SMTT(30)

LEMMA UpdateBookmarkShape ==
  ASSUME TypeOK, StageOK, FreshOK, NEW p \in Request, UpdateBookmark(p)
  PROVE  WriteStep(p)
<1> DEFINE s == Tail(steps[p])
           W == {op[p].b}
           v == [r \in W |-> TRUE]
<1>1. /\ op[p] \in AnyOp /\ s # <<>> /\ Plan(op[p].kind, s) /\ Open(p) /\ Head(steps[p]) = "bookmark"
      /\ Follows(op[p].kind, "bookmark", Head(s)) /\ Stage(op[p], loc[p], steps[p])
  BY Onward DEF TypeOK, At, UpdateBookmark
<1>2. op[p].kind = "tag" /\ Head(s) = "walk" /\ op[p].b \in Taggable
  BY <1>1, OpFields DEF Follows
<1>3. Stage(op[p], loc[p], s)
  BY <1>1, <1>2 DEF Stage
<1>4. /\ cur' = [r \in Row |-> IF r \in Present(p, W) THEN TRUE ELSE cur[r]]
      /\ lock' = [r \in Row |-> IF r \in Present(p, W) THEN p ELSE lock[r]]
      /\ share' = [x \in TagId |-> IF x \in {} THEN share[x] \cup {p} ELSE share[x]]
      /\ UNCHANGED <<com, op, out, fresh, loc>> /\ Done(p) /\ Blockers(p) = {}
  BY Zenon DEF UpdateBookmark, Update, Write
<1>5. W \in SUBSET Row /\ W \cap TagId = {}
  BY <1>2, Rows, Zenon
<1>6. W \subseteq Needs(p).write
  BY <1>1, NeedsOf
<1>7. Present(p, W) \subseteq W
  BY DEF Present
<1> HIDE DEF W
<1>8. /\ cur' = [r \in Row |-> IF r \in Present(p, W) THEN v[r] ELSE cur[r]]
      /\ \A r \in Present(p, W) : v[r] \in Values(r)
  BY <1>4, <1>5, <1>7 DEF Values
<1> HIDE DEF v
<1> QED
  BY <1>1, <1>3, <1>4, <1>5, <1>6, <1>8, UpdateGoesOn, ZenonT(30)

LEMMA InsertTagShape ==
  ASSUME TypeOK, StageOK, FreshOK, NEW p \in Request, InsertTag(p)
  PROVE  WriteStep(p) \/ Fail(p)
<1> SUFFICES ASSUME ~Fail(p) PROVE WriteStep(p)
  OBVIOUS
<1> DEFINE s == Tail(steps[p])
           par == op[p].par
<1>1. /\ op[p] \in AnyOp /\ s # <<>> /\ Plan(op[p].kind, s) /\ Open(p) /\ Head(steps[p]) = "insert"
      /\ Follows(op[p].kind, "insert", Head(s)) /\ Stage(op[p], loc[p], steps[p]) /\ loc[p] \in Local
  BY Onward DEF TypeOK, At, InsertTag
<1>2. op[p].kind = "create" /\ Head(s) = "addNames" /\ par \in TagId
  BY <1>1, OpFields DEF Follows
<1>3. PICK id \in fresh :
        /\ cur' = [r \in Row |-> IF r \in {id} THEN [parent |-> par, cnt |-> 0] ELSE cur[r]]
        /\ lock' = [r \in Row |-> IF r \in {id} THEN p ELSE lock[r]]
        /\ share' = [x \in TagId |-> IF x \in {par} THEN share[x] \cup {p} ELSE share[x]]
        /\ UNCHANGED <<com, op, out>>
        /\ fresh' = fresh \ {id}
        /\ loc' = [loc EXCEPT ![p].id = id]
        /\ Done(p)
  BY DEF InsertTag, Write
<1> DEFINE l == [loc[p] EXCEPT !.id = id]
           v == [r \in {id} |-> [parent |-> par, cnt |-> 0]]
<1>4. l \in Local /\ l.id \in TagId /\ l.b = loc[p].b /\ loc' = [loc EXCEPT ![p] = l]
  BY <1>1, <1>3 DEF TypeOK, Local, AnyTag
<1>5. Stage(op[p], l, s)
  BY <1>2, <1>4 DEF Stage
<1>6. Writes(p, {id}, {par}, v)
  <2>1. id \in TagId /\ lock[id] = Nobody
    BY DEF TypeOK, FreshOK
  <2> DEFINE rec == [parent |-> par, cnt |-> 0]
  <2>4. rec \in TagRecord
    BY <1>2 DEF TagRecord
  <2>5. v[id] = rec
    OBVIOUS
  <2> HIDE DEF v, rec
  <2>2. \A r \in {id} : v[r] \in Values(r) /\ lock[r] \in {p, Nobody}
    BY <2>1, <2>4, <2>5, Rows
  <2>3. cur' = [r \in Row |-> IF r \in {id} THEN v[r] ELSE cur[r]]
    <3>1. cur' = [r \in Row |-> IF r \in {id} THEN rec ELSE cur[r]]
      BY <1>3 DEF rec
    <3> QED
      BY <2>5, <3>1
  <2> QED
    BY <1>3, <2>2, <2>3 DEF Writes
<1>7. GoesOn(p, l, s)
  BY <1>1, <1>3, <1>4, <1>5 DEF GoesOn, Done, Go
<1>8. {id} \in SUBSET Row /\ {par} \in SUBSET TagId /\ fresh' \subseteq fresh /\ {id} \cap fresh' = {}
  BY <1>2, <1>3, Rows DEF TypeOK
<1> QED
  BY <1>1, <1>6, <1>7, <1>8, Zenon DEF WriteStep

LEMMA InsertNameShape ==
  ASSUME TypeOK, StageOK, FreshOK, NEW p \in Request, InsertName(p)
  PROVE  WriteStep(p) \/ Fail(p)
<1> SUFFICES ASSUME ~Fail(p) PROVE WriteStep(p)
  OBVIOUS
<1> DEFINE s == Tail(steps[p])
           l == loc[p]
           r0 == <<l.id, l.name>>
           b0 == (op[p].kind = "create" /\ l.name = op[p].first)
           v == [r \in {r0} |-> b0]
<1>1. /\ op[p] \in AnyOp /\ s # <<>> /\ Plan(op[p].kind, s) /\ Open(p) /\ Head(steps[p]) = "insertName"
      /\ Follows(op[p].kind, "insertName", Head(s)) /\ Stage(op[p], l, steps[p]) /\ l \in Local
  BY Onward DEF TypeOK, At, InsertName
<1>2. op[p].kind \in {"create", "move", "rename"} /\ Head(s) = "addNames"
  BY <1>1 DEF Follows
<1>3. l.id \in TagId /\ l.name \in AnyName /\ Stage(op[p], l, s)
  BY <1>1, <1>2, LocalFields DEF Stage
<1>4. /\ cur' = [r \in Row |-> IF r \in {r0} THEN b0 ELSE cur[r]]
      /\ lock' = [r \in Row |-> IF r \in {r0} THEN p ELSE lock[r]]
      /\ share' = [x \in TagId |-> IF x \in {l.id} THEN share[x] \cup {p} ELSE share[x]]
      /\ UNCHANGED <<com, op, out, fresh, loc>> /\ Done(p) /\ Blockers(p) = {}
  BY Zenon DEF InsertName, Write
<1>5. r0 \in Row /\ r0 \notin TagId /\ r0 \in Needs(p).write
  <2>1. Needs(p).write = {r0}
    BY <1>1, NeedsOf
  <2> QED
    BY <1>3, <2>1, Rows, Zenon
<1> HIDE DEF r0, b0
<1>6. Writes(p, {r0}, {l.id}, v)
  <2>1. cur' = [r \in Row |-> IF r \in {r0} THEN v[r] ELSE cur[r]]
    BY <1>4, Zenon
  <2>2. b0 \in BOOLEAN
    BY Zenon DEF b0
  <2>3. \A r \in {r0} : v[r] \in Values(r) /\ lock[r] \in {p, Nobody}
    BY <1>4, <1>5, <2>2, NoBlock, Zenon DEF Values
  <2> QED
    BY <1>4, <2>1, <2>3, Zenon DEF Writes
<1>7. GoesOn(p, l, s)
  BY <1>1, <1>3, <1>4 DEF GoesOn, Done, Go, TypeOK
<1>8. {r0} \in SUBSET Row /\ {l.id} \in SUBSET TagId /\ fresh' \subseteq fresh /\ {r0} \cap fresh' = {}
  BY <1>3, <1>4, <1>5 DEF TypeOK
<1> QED
  BY <1>1, <1>6, <1>7, <1>8, Zenon DEF WriteStep

LEMMA WalkShape ==
  ASSUME TypeOK, StageOK, NEW p \in Request, Walk(p)
  PROVE  ReadStep(p) \/ Fail(p)
<1> SUFFICES ASSUME ~Fail(p) PROVE ReadStep(p)
  OBVIOUS
<1> DEFINE s == Tail(steps[p])
           l == loc[p]
           x == Head(l.todo)
           par == Sees(p, x).parent
<1>1. /\ op[p] \in AnyOp /\ s # <<>> /\ Plan(op[p].kind, s) /\ Open(p) /\ Head(steps[p]) = "walk"
      /\ Follows(op[p].kind, "walk", Head(s)) /\ Stage(op[p], l, steps[p]) /\ l \in Local
      /\ Plan(op[p].kind, steps[p]) /\ steps[p] # <<>>
  BY Onward DEF TypeOK, At, Walk
<1>2. op[p].kind \in {"move", "tag"} /\ Head(s) \in {"affected", "current"}
  BY <1>1 DEF Follows
<1>3. CASE l.todo = <<>>
  <2>1. Stage(op[p], l, s)
    BY <1>1, <1>2 DEF Stage
  <2> QED
    BY <1>1, <1>3, <2>1, ReadGoesOn DEF Walk
<1>4. CASE l.todo # <<>>
  <2>1. l.todo \in Seq(TagId) /\ x \in TagId /\ Tail(l.todo) \in Seq(TagId)
    BY <1>1, <1>4, LocalFields, HeadTailProperties
  <2>2. CASE x \in l.known
    <3> DEFINE m == [l EXCEPT !.todo = Tail(@)]
    <3>1. m \in Local /\ m.id = l.id /\ m.b = l.b
      BY <1>1, <2>1 DEF Local
    <3>2. Stage(op[p], m, steps[p])
      BY <1>1, <3>1 DEF Stage
    <3>3. Read(p, m, steps[p])
      BY <1>4, <2>2 DEF Walk
    <3> QED
      BY <1>1, <3>1, <3>2, <3>3, ReadGoesOn
  <2>3. CASE x \notin l.known
    <3> DEFINE y == (IF par = NoTag THEN <<>> ELSE <<par>>) \o Tail(l.todo)
               m == [l EXCEPT !.known = @ \cup {x}, !.th[x] = par, !.todo = y]
    <3>1. x \in SeesTags(p) /\ Read(p, m, steps[p])
      BY <1>4, <2>3, Zenon DEF Walk
    <3>2. par \in AnyTag
      <4>1. Sees(p, x) \in TagRecord
        BY <2>1, <3>1, SeesOK, Rows DEF SeesTags
      <4> QED
        BY <4>1 DEF TagRecord, AnyTag
    <3>3. y \in Seq(TagId)
      <4>1. \A q \in AnyTag : (IF q = NoTag THEN <<>> ELSE <<q>>) \in Seq(TagId)
        BY EmptySeq DEF AnyTag
      <4> QED
        BY <2>1, <3>2, <4>1, ConcatProperties
    <3> HIDE DEF y, par, x
    <3>4. m \in Local /\ m.id = l.id /\ m.b = l.b
      BY <1>1, <2>1, <3>2, <3>3 DEF Local
    <3>5. Stage(op[p], m, steps[p])
      BY <1>1, <3>4 DEF Stage
    <3> QED
      BY <1>1, <3>1, <3>4, <3>5, ReadGoesOn
  <2> QED
    BY <2>2, <2>3
<1> QED
  BY <1>3, <1>4

LEMMA GetAffectedShape ==
  ASSUME TypeOK, StageOK, NEW p \in Request, GetAffected(p)
  PROVE  ReadStep(p) \/ Fail(p)
<1> SUFFICES ASSUME ~Fail(p) PROVE ReadStep(p)
  OBVIOUS
<1> DEFINE s == Tail(steps[p])
           l == loc[p]
           bs == {b \in Taggable : op[p].id \in TagsSeen(p, b)}
           m == [l EXCEPT !.par = l.th[op[p].id], !.proto = l.known, !.bs = bs]
<1>1. /\ op[p] \in AnyOp /\ s # <<>> /\ Plan(op[p].kind, s) /\ Open(p) /\ Head(steps[p]) = "affected"
      /\ Follows(op[p].kind, "affected", Head(s)) /\ Stage(op[p], l, steps[p]) /\ l \in Local
  BY Onward DEF TypeOK, At, GetAffected
<1>2. op[p].kind = "move" /\ Head(s) = "retag" /\ op[p].id \in TagId
  BY <1>1, OpFields DEF Follows
<1>3. Read(p, m, s)
  BY DEF GetAffected
<1>4. m \in Local /\ m.id = l.id
  <2>1. bs \subseteq Taggable
    OBVIOUS
  <2> HIDE DEF bs
  <2> QED
    BY <1>1, <1>2, <2>1 DEF Local
<1>5. Stage(op[p], m, s)
  BY <1>1, <1>2, <1>4 DEF Stage
<1> QED
  BY <1>1, <1>3, <1>4, <1>5, ReadGoesOn

LEMMA CurrentShape ==
  ASSUME TypeOK, StageOK, NEW p \in Request, Current(p)
  PROVE  ReadStep(p) \/ (Panic(p) /\ op[p].kind \in {"move", "rename"})
<1>0. CASE Panic(p) /\ op[p].kind \notin {"tag", "delete"}
  <2>1. op[p].kind \in {"move", "rename"}
    <3>1. Follows(op[p].kind, "current", Head(Tail(steps[p])))
      BY Onward DEF Current
    <3> QED
      BY <1>0, <3>1 DEF Follows
  <2> QED
    BY <1>0, <2>1
<1> SUFFICES ASSUME ~(Panic(p) /\ op[p].kind \notin {"tag", "delete"}) PROVE ReadStep(p)
  BY <1>0
<1> DEFINE s == Tail(steps[p])
           l == loc[p]
<1>1. /\ op[p] \in AnyOp /\ s # <<>> /\ Plan(op[p].kind, s) /\ Open(p) /\ Head(steps[p]) = "current"
      /\ Follows(op[p].kind, "current", Head(s)) /\ Stage(op[p], l, steps[p]) /\ l \in Local
  BY Onward DEF TypeOK, At, Current
<1>2. Head(s) = "apply" /\ l.b \in Taggable
  BY <1>1 DEF Follows, Stage
<1>3. PICK S \in SUBSET TagId : Read(p, [l EXCEPT !.want = S, !.have = TagsSeen(p, l.b)], s)
  <2>1. l.known \subseteq TagId
    BY <1>1, LocalFields
  <2>2. TagsAfterMove(l.th, l.known, op[p].id, op[p].par, op[p].policy = "del") \subseteq TagId
    BY <2>1 DEF TagsAfterMove
  <2> QED
    BY <2>1, <2>2 DEF Current
<1> DEFINE h == TagsSeen(p, l.b)
           m == [l EXCEPT !.want = S, !.have = h]
<1>4. h \subseteq TagId
  BY DEF TagsSeen
<1> HIDE DEF h
<1>5. m \in Local /\ m.id = l.id /\ m.b = l.b
  BY <1>1, <1>4 DEF Local
<1>6. Stage(op[p], m, s)
  BY <1>1, <1>2, <1>5 DEF Stage
<1> QED
  BY <1>1, <1>3, <1>5, <1>6, ReadGoesOn DEF h

LEMMA NextBookmarkShape ==
  ASSUME TypeOK, StageOK, NEW p \in Request, NextBookmark(p)
  PROVE  ReadStep(p)
<1> DEFINE s == Tail(steps[p])
           l == loc[p]
           New(b) == TagsSeen(p, b) \ l.proto
<1>1. /\ op[p] \in AnyOp /\ s # <<>> /\ Plan(op[p].kind, s) /\ Open(p) /\ Head(steps[p]) = "retag"
      /\ Follows(op[p].kind, "retag", Head(s)) /\ Stage(op[p], l, steps[p]) /\ l \in Local
      /\ Plan(op[p].kind, steps[p]) /\ steps[p] # <<>>
  BY Onward DEF TypeOK, At, NextBookmark
<1>2. op[p].kind = "move" /\ Head(s) = "setParent"
  BY <1>1 DEF Follows
<1>3. CASE l.bs = {}
  <2>1. Stage(op[p], l, s)
    BY <1>1, <1>2 DEF Stage
  <2> QED
    BY <1>1, <1>3, <2>1, ReadGoesOn DEF NextBookmark
<1>4. CASE l.bs # {}
  <2>1. PICK b \in l.bs : \E order \in [1..Cardinality(New(b)) -> New(b)] :
          Read(p, [l EXCEPT !.b = b, !.bs = @ \ {b}, !.todo = order, !.known = l.proto],
               <<"walk", "current", "apply">> \o steps[p])
    BY <1>4, Zenon DEF NextBookmark
  <2>2. PICK order \in [1..Cardinality(New(b)) -> New(b)] :
          Read(p, [l EXCEPT !.b = b, !.bs = @ \ {b}, !.todo = order, !.known = l.proto],
               <<"walk", "current", "apply">> \o steps[p])
    BY <2>1, Zenon
  <2>3. order \in Seq(TagId)
    <3>1. New(b) \subseteq TagId
      BY DEF TagsSeen
    <3>2. Cardinality(New(b)) \in Nat
      BY <3>1, TagIdAssumption, FS_Subset, FS_CardinalityType
    <3> HIDE DEF New
    <3> QED
      BY <3>1, <3>2
  <2> DEFINE m == [l EXCEPT !.b = b, !.bs = @ \ {b}, !.todo = order, !.known = l.proto]
             u == Push3("walk", "current", "apply", steps[p])
  <2>4. m \in Local /\ m.id = l.id /\ m.b = b /\ b \in Taggable
    <3>1. b \in Taggable /\ l.bs \ {b} \subseteq Taggable /\ l.proto \subseteq TagId
      BY <1>1, LocalFields
    <3> QED
      BY <1>1, <2>3, <3>1 DEF Local
  <2>5. u # <<>> /\ Plan(op[p].kind, u) /\ Head(u) = "walk" /\ Head(Tail(u)) = "current"
    <3>1. "walk" \in Stmt /\ "current" \in Stmt /\ "apply" \in Stmt
      BY DEF Stmt
    <3>2. /\ Follows(op[p].kind, "apply", "retag") /\ Follows(op[p].kind, "current", "apply")
          /\ Follows(op[p].kind, "walk", "current")
      BY <1>2 DEF Follows
    <3>3. PlanFrom(op[p].kind, steps[p], "retag")
      BY <1>1 DEF PlanFrom
    <3>4. PlanFrom(op[p].kind, u, "walk") /\ Second(u, "current")
      BY <3>1, <3>2, <3>3, PushThree, Zenon
    <3> QED
      BY <3>4, Zenon DEF PlanFrom, Second
  <2> HIDE DEF u
  <2>6. Stage(op[p], m, u)
    BY <1>1, <1>2, <2>4, <2>5 DEF Stage
  <2>7. Read(p, m, u)
    BY <2>2 DEF u, Push3
  <2> QED
    BY <1>1, <2>4, <2>5, <2>6, <2>7, ReadGoesOn
<1> QED
  BY <1>3, <1>4

LEMMA NextRootOnlyShape ==
  ASSUME TypeOK, StageOK, NEW p \in Request, NextRootOnly(p)
  PROVE  ReadStep(p)
<1> DEFINE s == Tail(steps[p])
           l == loc[p]
<1>1. /\ op[p] \in AnyOp /\ s # <<>> /\ Plan(op[p].kind, s) /\ Open(p) /\ Head(steps[p]) = "untag"
      /\ Follows(op[p].kind, "untag", Head(s)) /\ Stage(op[p], l, steps[p]) /\ l \in Local
      /\ Plan(op[p].kind, steps[p]) /\ steps[p] # <<>>
  BY Onward DEF TypeOK, At, NextRootOnly
<1>2. op[p].kind = "delete" /\ Head(s) = "commit"
  BY <1>1 DEF Follows
<1>3. CASE l.bs = {}
  <2>1. Stage(op[p], l, s)
    BY <1>1, <1>2 DEF Stage
  <2> QED
    BY <1>1, <1>3, <2>1, ReadGoesOn DEF NextRootOnly
<1>4. CASE l.bs # {}
  <2>1. PICK b \in l.bs : Read(p, [l EXCEPT !.b = b, !.bs = @ \ {b}], <<"current", "apply">> \o steps[p])
    BY <1>4, Zenon DEF NextRootOnly
  <2> DEFINE m == [l EXCEPT !.b = b, !.bs = @ \ {b}]
             u == Push2("current", "apply", steps[p])
  <2>4. m \in Local /\ m.id = l.id /\ m.b = b /\ b \in Taggable
    <3>1. b \in Taggable /\ l.bs \ {b} \subseteq Taggable
      BY <1>1, LocalFields
    <3> QED
      BY <1>1, <3>1 DEF Local
  <2>5. u # <<>> /\ Plan(op[p].kind, u) /\ Head(u) = "current"
    <3>1. "current" \in Stmt /\ "apply" \in Stmt
      BY DEF Stmt
    <3>2. Follows(op[p].kind, "apply", "untag") /\ Follows(op[p].kind, "current", "apply")
      BY <1>2 DEF Follows
    <3>3. PlanFrom(op[p].kind, steps[p], "untag")
      BY <1>1 DEF PlanFrom
    <3>4. PlanFrom(op[p].kind, u, "current")
      BY <3>1, <3>2, <3>3, PushTwo, Zenon
    <3> QED
      BY <3>4, Zenon DEF PlanFrom
  <2> HIDE DEF u
  <2>6. Stage(op[p], m, u)
    BY <1>1, <1>2, <2>4, <2>5 DEF Stage
  <2>7. Read(p, m, u)
    BY <2>1 DEF u, Push2
  <2> QED
    BY <1>1, <2>4, <2>5, <2>6, <2>7, ReadGoesOn
<1> QED
  BY <1>3, <1>4

LEMMA GetTagShape ==
  ASSUME TypeOK, StageOK, NEW p \in Request, GetTag(p)
  PROVE  ReadStep(p) \/ Fail(p)
<1> SUFFICES ASSUME ~Fail(p) PROVE ReadStep(p)
  OBVIOUS
<1> DEFINE s == Tail(steps[p])
           l == loc[p]
           id == op[p].id
           par == Sees(p, id).parent
           m == [l EXCEPT !.par = par, !.gone = {<<id, NoTag>>}]
<1>1. /\ op[p] \in AnyOp /\ s # <<>> /\ Plan(op[p].kind, s) /\ Open(p) /\ Head(steps[p]) = "getTag"
      /\ Follows(op[p].kind, "getTag", Head(s)) /\ Stage(op[p], l, steps[p]) /\ l \in Local
  BY Onward DEF TypeOK, At, GetTag
<1>2. op[p].kind = "delete" /\ Head(s) = "cascade" /\ id \in TagId
  BY <1>1, OpFields DEF Follows
<1>3. id \in SeesTags(p) /\ Read(p, m, s)
  BY DEF GetTag
<1>4. par \in AnyTag
  <2>1. Sees(p, id) \in TagRecord
    BY <1>2, <1>3, SeesOK, Rows DEF SeesTags
  <2> QED
    BY <2>1 DEF TagRecord, AnyTag
<1>5. m \in Local /\ m.id = l.id
  <2>1. {<<id, NoTag>>} \in SUBSET (TagId \X AnyTag)
    BY <1>2 DEF AnyTag
  <2> HIDE DEF par, id
  <2> QED
    BY <1>1, <1>4, <2>1 DEF Local
<1>6. Stage(op[p], m, s)
  BY <1>1, <1>2, <1>5 DEF Stage
<1> HIDE DEF m
<1> QED
  BY <1>1, <1>3, <1>5, <1>6, ReadGoesOn

LEMMA NextRowShape ==
  ASSUME TypeOK, StageOK, NEW p \in Request, NextRow(p)
  PROVE  ReadStep(p)
<1> DEFINE s == Tail(steps[p])
           l == loc[p]
<1>1. /\ op[p] \in AnyOp /\ s # <<>> /\ Plan(op[p].kind, s) /\ Open(p) /\ Head(steps[p]) = "cascade"
      /\ Follows(op[p].kind, "cascade", Head(s)) /\ Stage(op[p], l, steps[p]) /\ l \in Local
      /\ Plan(op[p].kind, steps[p]) /\ steps[p] # <<>>
  BY Onward DEF TypeOK, At, NextRow
<1>2. op[p].kind = "delete" /\ Head(s) = "uncount"
  BY <1>1 DEF Follows
<1>3. CASE l.gone = {}
  <2>1. Stage(op[p], l, s)
    BY <1>1, <1>2 DEF Stage
  <2> QED
    BY <1>1, <1>3, <2>1, ReadGoesOn DEF NextRow
<1>4. CASE l.gone # {}
  <2>1. PICK e \in l.gone : Read(p, [l EXCEPT !.id = e[1], !.via = e[2], !.gone = @ \ {e}],
                                <<"deleteRow">> \o steps[p])
    BY <1>4, Zenon DEF NextRow
  <2> DEFINE m == [l EXCEPT !.id = e[1], !.via = e[2], !.gone = @ \ {e}]
             u == Push("deleteRow", steps[p])
  <2>2. e[1] \in TagId /\ e[2] \in AnyTag /\ l.gone \ {e} \in SUBSET (TagId \X AnyTag)
    BY <1>1, LocalFields
  <2>3. m \in Local /\ m.id \in TagId
    <3>1. PICK x \in TagId, y \in AnyTag, z \in SUBSET (TagId \X AnyTag) :
            x = e[1] /\ y = e[2] /\ z = l.gone \ {e}
      BY <2>2, Zenon
    <3>2. m = [l EXCEPT !.id = x, !.via = y, !.gone = z]
      BY <3>1, Zenon
    <3>3. x \in TagId /\ x \in AnyTag /\ y \in AnyTag /\ z \in SUBSET (TagId \X AnyTag)
      BY <3>1 DEF AnyTag
    <3> HIDE DEF m
    <3> QED
      BY <1>1, <3>2, <3>3 DEF Local
  <2>4. u # <<>> /\ Plan(op[p].kind, u) /\ Head(u) = "deleteRow"
    <3>1. Follows(op[p].kind, "deleteRow", "cascade") /\ "deleteRow" \in Stmt
      BY <1>2 DEF Follows, Stmt
    <3>2. PlanFrom(op[p].kind, steps[p], "cascade")
      BY <1>1 DEF PlanFrom
    <3> QED
      BY <3>1, <3>2, PushOn, ZenonT(30) DEF PlanFrom
  <2>5. Read(p, m, u)
    BY <2>1 DEF Push
  <2> HIDE DEF u
  <2>6. Stage(op[p], m, u)
    BY <1>1, <1>2, <2>3, <2>4 DEF Stage
  <2> QED
    BY <1>1, <2>3, <2>4, <2>5, <2>6, ReadGoesOn
<1> QED
  BY <1>3, <1>4

LEMMA GetRootOnlyShape ==
  ASSUME TypeOK, StageOK, NEW p \in Request, GetRootOnly(p)
  PROVE  ReadStep(p)
<1> DEFINE s == Tail(steps[p])
           l == loc[p]
           only == {b \in Taggable : TagsSeen(p, b) = {Root}}
<1>1. /\ op[p] \in AnyOp /\ s # <<>> /\ Plan(op[p].kind, s) /\ Open(p) /\ Head(steps[p]) = "clean"
      /\ Follows(op[p].kind, "clean", Head(s)) /\ Stage(op[p], l, steps[p]) /\ l \in Local
  BY Onward DEF TypeOK, At, GetRootOnly
<1>2. op[p].kind = "delete" /\ Head(s) = "commit"
  BY <1>1 DEF Follows
<1>3. CASE l.par # Root
  <2>1. Stage(op[p], l, s)
    BY <1>1, <1>2 DEF Stage
  <2> QED
    BY <1>1, <1>3, <2>1, ReadGoesOn DEF GetRootOnly
<1>4. CASE l.par = Root
  <2> DEFINE m == [l EXCEPT !.bs = only]
             u == Push("untag", s)
  <2>1. Read(p, m, u)
    BY <1>4 DEF GetRootOnly, Push
  <2>2. only \subseteq Taggable
    OBVIOUS
  <2> HIDE DEF only
  <2>3. m \in Local /\ m.id = l.id
    BY <1>1, <2>2 DEF Local
  <2>4. u # <<>> /\ Plan(op[p].kind, u) /\ Head(u) = "untag"
    <3>1. Follows(op[p].kind, "untag", "commit") /\ "untag" \in Stmt
      BY <1>2 DEF Follows, Stmt
    <3>2. PlanFrom(op[p].kind, s, "commit")
      BY <1>1, <1>2 DEF PlanFrom
    <3> QED
      BY <3>1, <3>2, PushOn, ZenonT(30) DEF PlanFrom
  <2> HIDE DEF u
  <2>6. Stage(op[p], m, u)
    BY <1>1, <1>2, <2>3, <2>4 DEF Stage
  <2> QED
    BY <1>1, <2>1, <2>3, <2>4, <2>6, ReadGoesOn
<1> QED
  BY <1>3, <1>4

LEMMA ApplyShape ==
  ASSUME TypeOK, StageOK, FreshOK, NEW p \in Request, Apply(p)
  PROVE  WriteStep(p) \/ Fail(p)
<1> SUFFICES ASSUME ~Fail(p) PROVE WriteStep(p)
  OBVIOUS
<1> DEFINE s == Tail(steps[p])
           l == loc[p]
           added == l.want \ l.have
           new == {<<l.b, x>> : x \in added}
           old == {<<l.b, x>> : x \in l.have \ l.want}
           W == new \cup Present(p, old)
           v == [r \in W |-> IF r \in new THEN TRUE ELSE NoRow]
<1>1. /\ op[p] \in AnyOp /\ s # <<>> /\ Plan(op[p].kind, s) /\ Open(p) /\ Head(steps[p]) = "apply"
      /\ Follows(op[p].kind, "apply", Head(s)) /\ Stage(op[p], l, steps[p]) /\ l \in Local
  BY Onward DEF TypeOK, At, Apply
<1>2. Head(s) \in {"retag", "untag", "commit"} /\ l.b \in Taggable /\ Stage(op[p], l, s)
  BY <1>1 DEF Follows, Stage
<1>3. /\ cur' = [r \in Row |-> IF r \in W THEN (IF r \in new THEN TRUE ELSE NoRow) ELSE cur[r]]
      /\ lock' = [r \in Row |-> IF r \in W THEN p ELSE lock[r]]
      /\ share' = [x \in TagId |-> IF x \in added THEN share[x] \cup {p} ELSE share[x]]
      /\ UNCHANGED <<com, op, out, fresh, loc>> /\ Done(p) /\ Blockers(p) = {}
  BY Zenon DEF Apply, Write
<1>4. added \in SUBSET TagId /\ l.have \ l.want \in SUBSET TagId
  BY <1>1, LocalFields
<1>5. new \in SUBSET Row /\ old \in SUBSET Row /\ (new \cup old) \cap TagId = {}
  <2>1. \A x \in TagId : <<l.b, x>> \in Row /\ <<l.b, x>> \notin TagId
    BY <1>2, Rows, Zenon
  <2>2. \A r \in new \cup old : \E x \in TagId : r = <<l.b, x>>
    BY <1>4, Zenon
  <2>3. \A r \in new \cup old : r \in Row /\ r \notin TagId
    BY <2>1, <2>2, Zenon
  <2> HIDE DEF new, old
  <2> QED
    BY <2>3, Zenon
<1>6. new \subseteq Needs(p).write /\ old \subseteq Needs(p).write
  <2>1. Needs(p).write = {<<l.b, x>> : x \in (l.want \ l.have) \cup (l.have \ l.want)}
    BY <1>1, NeedsOf
  <2> QED
    BY <2>1, Zenon
<1> HIDE DEF new, old, added
<1>7. W \in SUBSET Row /\ W \cap TagId = {} /\ W \subseteq Needs(p).write
  BY <1>5, <1>6 DEF Present
<1>8. \A r \in W : v[r] \in Values(r) /\ lock[r] \in {p, Nobody}
  <2>1. \A r \in W : v[r] \in BOOLEAN \cup {NoRow}
    OBVIOUS
  <2> QED
    BY <1>3, <1>7, <2>1, NoBlock, Zenon DEF Values
<1>9. cur' = [r \in Row |-> IF r \in W THEN v[r] ELSE cur[r]]
  BY <1>3
<1> HIDE DEF W, v
<1>10. Writes(p, W, added, v)
  BY <1>3, <1>8, <1>9, Zenon DEF Writes
<1>11. GoesOn(p, l, s)
  BY <1>1, <1>2, <1>3 DEF GoesOn, Done, Go, TypeOK
<1>12. fresh' \subseteq fresh /\ W \cap fresh' = {}
  BY <1>3, <1>7 DEF TypeOK
<1> QED
  BY <1>1, <1>4, <1>7, <1>10, <1>11, <1>12, Zenon DEF WriteStep

LEMMA SetParentShape ==
  ASSUME TypeOK, StageOK, FreshOK, NEW p \in Request, SetParent(p)
  PROVE  WriteStep(p) \/ Fail(p)
<1> SUFFICES ASSUME ~Fail(p) PROVE WriteStep(p)
  OBVIOUS
<1> DEFINE s == Tail(steps[p])
           l == loc[p]
           o == op[p]
           W == Present(p, {o.id})
           K == IF W = {} THEN {} ELSE {o.par}
           v == [r \in W |-> [Sees(p, r) EXCEPT !.parent = o.par]]
<1>1. /\ o \in AnyOp /\ s # <<>> /\ Plan(o.kind, s) /\ Open(p) /\ Head(steps[p]) = "setParent"
      /\ Follows(o.kind, "setParent", Head(s)) /\ Stage(o, l, steps[p]) /\ l \in Local
  BY Onward DEF TypeOK, At, SetParent
<1>2. o.kind = "move" /\ Head(s) = "dec" /\ o.id \in TagId /\ o.par \in TagId
  BY <1>1, OpFields DEF Follows
<1>3. Stage(o, l, s)
  BY <1>1, <1>2 DEF Stage
<1>4. /\ cur' = [r \in Row |-> IF r \in W THEN [Sees(p, r) EXCEPT !.parent = o.par] ELSE cur[r]]
      /\ lock' = [r \in Row |-> IF r \in W THEN p ELSE lock[r]]
      /\ share' = [x \in TagId |-> IF x \in K THEN share[x] \cup {p} ELSE share[x]]
      /\ UNCHANGED <<com, op, out, fresh, loc>> /\ Done(p) /\ Blockers(p) = {}
  BY Zenon DEF SetParent, Write
<1>5. W \in SUBSET Row /\ W \subseteq {o.id} /\ W \cap fresh = {}
  BY <1>2, Rows, PresentRows
<1>6. \A r \in W : v[r] \in Values(r) /\ lock[r] \in {p, Nobody}
  <2>1. Needs(p).write = {o.id}
    BY <1>1, NeedsOf
  <2>2. \A r \in W : lock[r] \in {p, Nobody}
    BY <1>4, <1>5, <2>1, NoBlock
  <2>3. ASSUME NEW r \in W PROVE v[r] \in Values(r)
    <3>1. r \in TagId /\ Sees(p, r) \in TagRecord
      BY <1>2, <1>5, Rows, SeesOK DEF Present
    <3>2. [Sees(p, r) EXCEPT !.parent = o.par] \in TagRecord
      BY <1>2, <3>1 DEF TagRecord
    <3>3. v[r] = [Sees(p, r) EXCEPT !.parent = o.par]
      OBVIOUS
    <3> QED
      BY <3>1, <3>2, <3>3, Rows
  <2> QED
    BY <2>2, <2>3
<1>7. cur' = [r \in Row |-> IF r \in W THEN v[r] ELSE cur[r]]
  BY <1>4
<1>8. K \in SUBSET TagId
  BY <1>2
<1> HIDE DEF W, v, K
<1>9. Writes(p, W, K, v)
  BY <1>4, <1>6, <1>7, Zenon DEF Writes
<1>10. GoesOn(p, l, s)
  BY <1>1, <1>3, <1>4 DEF GoesOn, Done, Go, TypeOK
<1>11. fresh' \subseteq fresh /\ W \cap fresh' = {}
  BY <1>4, <1>5
<1> QED
  BY <1>1, <1>5, <1>8, <1>9, <1>10, <1>11, Zenon DEF WriteStep

LEMMA DeleteRowShape ==
  ASSUME TypeOK, StageOK, FreshOK, NEW p \in Request, DeleteRow(p)
  PROVE  ReadStep(p) \/ WriteStep(p)
<1> DEFINE s == Tail(steps[p])
           l == loc[p]
           x == l.id
           C == Cascades(p, x)
           W == {x} \cup C
           v == [r \in W |-> NoRow]
           g == {<<y, x>> : y \in KidsSeen(p, x)}
           m == [l EXCEPT !.gone = @ \cup g]
<1>1. /\ op[p] \in AnyOp /\ s # <<>> /\ Plan(op[p].kind, s) /\ Open(p) /\ Head(steps[p]) = "deleteRow"
      /\ Follows(op[p].kind, "deleteRow", Head(s)) /\ Stage(op[p], l, steps[p]) /\ l \in Local
  BY Onward DEF TypeOK, At, DeleteRow
<1>2. op[p].kind = "delete" /\ Head(s) = "cascade" /\ x \in TagId /\ Stage(op[p], l, s)
  BY <1>1 DEF Follows, Stage
<1>3. CASE x \notin SeesTags(p) \/ (l.via # NoTag /\ Sees(p, x).parent # l.via)
  <2>1. Done(p) /\ UNCHANGED <<rows, fresh, op, loc, out>>
    BY <1>3, Zenon DEF DeleteRow
  <2>2. Read(p, l, s)
    BY <1>1, <2>1 DEF Read, Set, Done, Go, TypeOK
  <2> QED
    BY <1>1, <1>2, <2>2, ReadGoesOn
<1>4. CASE x \in SeesTags(p) /\ ~(l.via # NoTag /\ Sees(p, x).parent # l.via)
  <2>1. /\ cur' = [r \in Row |-> IF r \in W THEN NoRow ELSE cur[r]]
        /\ lock' = [r \in Row |-> IF r \in W THEN p ELSE lock[r]]
        /\ share' = [y \in TagId |-> IF y \in {} THEN share[y] \cup {p} ELSE share[y]]
        /\ UNCHANGED <<com, op, out, fresh>> /\ Done(p) /\ Blockers(p) = {}
        /\ loc' = [loc EXCEPT ![p].gone = @ \cup g]
    BY <1>4, Zenon DEF DeleteRow, Write
  <2>2. C \in SUBSET Row /\ C \cap TagId = {}
    BY RowAssumption DEF Cascades, Row
  <2>3. W \in SUBSET Row /\ W \cap fresh = {}
    <3>1. x \notin fresh
      BY <1>4, RequestAssumption DEF SeesTags, Sees, FreshOK
    <3> QED
      BY <1>2, <2>2, <3>1, Rows, ZenonT(30) DEF TypeOK
  <2>4. Needs(p).write = C /\ Needs(p).del = {x}
    BY <1>1, NeedsOf
  <2>5. \A r \in W : v[r] \in Values(r) /\ lock[r] \in {p, Nobody}
    BY <2>1, <2>4, NoBlock DEF Values
  <2>6. cur' = [r \in Row |-> IF r \in W THEN v[r] ELSE cur[r]]
    BY <2>1
  <2> HIDE DEF W, v
  <2>7. Writes(p, W, {}, v)
    BY <2>1, <2>5, <2>6, Zenon DEF Writes
  <2>8. g \in SUBSET (TagId \X AnyTag)
    BY <1>2 DEF KidsSeen, SeesTags, AnyTag
  <2> HIDE DEF g
  <2>9. m \in Local /\ m.id = l.id /\ loc' = [loc EXCEPT ![p] = m]
    <3>1. l.gone \cup g \in SUBSET (TagId \X AnyTag)
      BY <1>1, <2>8, LocalFields
    <3> QED
      BY <1>1, <2>1, <3>1 DEF Local, TypeOK
  <2>10. Stage(op[p], m, s)
    BY <1>2, <2>9 DEF Stage
  <2>11. GoesOn(p, m, s)
    BY <1>1, <2>1, <2>9, <2>10 DEF GoesOn, Done, Go
  <2>12. fresh' \subseteq fresh /\ W \cap fresh' = {} /\ {} \in SUBSET TagId
    BY <2>1, <2>3
  <2> QED
    BY <1>1, <2>3, <2>7, <2>11, <2>12, Zenon DEF WriteStep
<1> QED
  BY <1>3, <1>4

LEMMA Shapes ==
  ASSUME TypeOK, StageOK, FreshOK, NEW p \in Request, RequestStep(p)
  PROVE  \/ Start(p)
         \/ ReadStep(p)
         \/ WriteStep(p)
         \/ Open(p) /\ Fail(p)
         \/ Open(p) /\ Panic(p) /\ op[p].kind \in {"move", "rename"}
         \/ Commit(p)
<1>1. CASE Start(p)
  BY <1>1
<1>2. CASE SelectParent(p)
  BY <1>2, SelectParentShape DEF SelectParent, At
<1>3. CASE CountUp(p)
  BY <1>3, CountUpShape
<1>4. CASE InsertTag(p)
  BY <1>4, InsertTagShape DEF InsertTag, At
<1>5. CASE CheckName(p)
  BY <1>5, CheckNameShape DEF CheckName, At
<1>6. CASE InsertName(p)
  BY <1>6, InsertNameShape DEF InsertName, At
<1>7. CASE GetNames(p)
  BY <1>7, GetNamesShape DEF GetNames, At
<1>8. CASE GetParent(p)
  BY <1>8, GetParentShape DEF GetParent, At
<1>9. CASE DeleteNames(p)
  BY <1>9, DeleteNamesShape
<1>10. CASE SetPrimary(p)
  BY <1>10, SetPrimaryShape
<1>11. CASE Walk(p)
  BY <1>11, WalkShape DEF Walk, At
<1>12. CASE GetAffected(p)
  BY <1>12, GetAffectedShape DEF GetAffected, At
<1>13. CASE NextBookmark(p)
  BY <1>13, NextBookmarkShape
<1>14. CASE Current(p)
  BY <1>14, CurrentShape DEF Current, At
<1>15. CASE Apply(p)
  BY <1>15, ApplyShape DEF Apply, At
<1>16. CASE SetParent(p)
  BY <1>16, SetParentShape DEF SetParent, At
<1>17. CASE CountDown(p)
  BY <1>17, CountDownShape
<1>18. CASE GetTag(p)
  BY <1>18, GetTagShape DEF GetTag, At
<1>19. CASE NextRow(p)
  BY <1>19, NextRowShape
<1>20. CASE DeleteRow(p)
  BY <1>20, DeleteRowShape
<1>21. CASE GetRootOnly(p)
  BY <1>21, GetRootOnlyShape
<1>22. CASE NextRootOnly(p)
  BY <1>22, NextRootOnlyShape
<1>23. CASE UpdateBookmark(p)
  BY <1>23, UpdateBookmarkShape
<1>24. CASE Commit(p)
  BY <1>24
<1>25. CASE DeadlockVictim(p)
  BY <1>25 DEF DeadlockVictim
<1> QED
  BY <1>1, <1>2, <1>3, <1>4, <1>5, <1>6, <1>7, <1>8, <1>9, <1>10, <1>11, <1>12, <1>13, <1>14, <1>15,
     <1>16, <1>17, <1>18, <1>19, <1>20, <1>21, <1>22, <1>23, <1>24, <1>25, Zenon DEF RequestStep

-----------------------------------------------------------------------------
(* The invariant is inductive.                                             *)

LEMMA InitIInv == Init => IInv
<1> SUFFICES ASSUME Init PROVE IInv
  OBVIOUS
<1>1. PICK T \in SUBSET TagId : \E p \in [TagId -> T \cup {NoTag}],
        nm \in [T -> Name \cup {EmptyName}], tg \in [Taggable -> SUBSET T] :
          com = RowsOf(T, p, nm, tg) /\ fresh = TagId \ T
  BY Zenon DEF Init
<1>2. PICK p \in [TagId -> T \cup {NoTag}] : \E
        nm \in [T -> Name \cup {EmptyName}], tg \in [Taggable -> SUBSET T] :
          com = RowsOf(T, p, nm, tg) /\ fresh = TagId \ T
  BY <1>1, Zenon
<1>3. PICK nm \in [T -> Name \cup {EmptyName}], tg \in [Taggable -> SUBSET T] :
          com = RowsOf(T, p, nm, tg) /\ fresh = TagId \ T
  BY <1>2, Zenon
<1>4. \A x \in TagId : /\ x \in T => com[x] = [parent |-> p[x], cnt |-> Cardinality(Kids(p, x))]
                       /\ x \notin T => com[x] = NoRow
  BY <1>3, Rows DEF RowsOf
<1>5. \A r \in Row \ TagId : com[r] \in {TRUE, NoRow}
  BY <1>3 DEF RowsOf
<1>6. com = [r \in Row |-> com[r]]
  BY <1>3 DEF RowsOf
<1>7. \A x \in T : com[x] \in TagRecord
  <2> SUFFICES ASSUME NEW x \in T PROVE com[x] \in TagRecord
    OBVIOUS
  <2>1. Kids(p, x) \subseteq TagId
    BY DEF Kids
  <2>2. Cardinality(Kids(p, x)) \in Int
    BY <2>1, TagIdAssumption, FS_Subset, FS_CardinalityType
  <2> DEFINE c == Cardinality(Kids(p, x))
  <2> HIDE DEF c
  <2>3. com[x] = [parent |-> p[x], cnt |-> c] /\ p[x] \in TagId \cup {NoTag}
    BY <1>2, <1>4 DEF c
  <2>4. c \in Int
    BY <2>2 DEF c
  <2> QED
    BY <2>3, <2>4 DEF TagRecord
<1>8. RowsOK(com)
  <2>1. \A r \in Row : com[r] \in Values(r)
    BY <1>4, <1>5, <1>7 DEF Values
  <2> QED
    BY <1>6, <2>1, Zenon DEF RowsOK
<1>9. /\ cur = com
      /\ lock = [r \in Row |-> Nobody]
      /\ share = [x \in TagId |-> {}]
      /\ op = [q \in Request |-> NoOp]
      /\ steps = [q \in Request |-> <<>>]
      /\ loc = [q \in Request |-> NoLocals]
      /\ out = [q \in Request |-> ""]
  BY DEF Init
<1>10. NoLocals \in Local
  BY EmptySeq DEF NoLocals, Local, AnyTag, AnyName
<1>11. <<>> \in Seq(Stmt)
  BY EmptySeq
<1>12. TypeOK
  <2>1. RowsOK(cur)
    BY <1>8, <1>9
  <2>2. lock \in [Row -> Request \cup {Nobody}] /\ share \in [TagId -> SUBSET Request]
    BY <1>9
  <2>3. op \in [Request -> AnyOp \cup {NoOp}] /\ loc \in [Request -> Local]
    BY <1>9, <1>10
  <2>4. steps \in [Request -> Seq(Stmt)]
    BY <1>9, <1>11
  <2>5. out \in [Request -> {"", "committed", "failed", "panicked"}]
    BY <1>9
  <2> QED
    BY <1>3, <1>8, <2>1, <2>2, <2>3, <2>4, <2>5 DEF TypeOK
<1>13. StageOK
  BY <1>9 DEF StageOK, Open
<1>14. LockOK
  BY <1>9 DEF LockOK
<1>15. FreshOK
  BY <1>3, <1>4, <1>9, Rows DEF FreshOK
<1> QED
  BY <1>12, <1>13, <1>14, <1>15 DEF IInv

LEMMA StartIInv ==
  ASSUME IInv, NEW p \in Request, Start(p)
  PROVE  IInv'
<1>1. PICK o \in Ops(Tags) :
        /\ op' = [op EXCEPT ![p] = o]
        /\ steps' = [steps EXCEPT ![p] = Steps(o)]
        /\ loc' = [loc EXCEPT ![p] = LocalsOf(o)]
  BY Zenon DEF Start, Go, Set
<1>2. out[p] = "" /\ ~Open(p) /\ UNCHANGED <<com, cur, lock, share, fresh, out>>
  BY DEF Start, rows
<1>3. o \in AnyOp
  BY OpsAreOps DEF Tags
<1> DEFINE s == Steps(o)
           l == LocalsOf(o)
<1>4. s # <<>> /\ Plan(o.kind, s) /\ s \in Seq(Stmt)
  BY <1>3, StartPlan, Zenon DEF StartsWith, Plan
<1>5. l \in Local /\ Stage(o, l, s)
  BY <1>3, StartLocals, Zenon
<1> HIDE DEF s, l
<1>6. TypeOK'
  BY <1>1, <1>2, <1>3, <1>4, <1>5 DEF IInv, TypeOK, RowsOK, s, l
<1>7. StageOK'
  <2> SUFFICES ASSUME NEW q \in Request, Open(q)'
               PROVE  (/\ op[q] \in AnyOp /\ Plan(op[q].kind, steps[q])
                       /\ Stage(op[q], loc[q], steps[q]) /\ out[q] = "")'
    BY Zenon DEF StageOK
  <2>1. CASE q = p
    <3>1. op'[q] = o /\ steps'[q] = s /\ loc'[q] = l /\ out'[q] = ""
      BY <1>1, <1>2, <2>1 DEF IInv, TypeOK, s, l
    <3> QED
      BY <1>3, <1>4, <1>5, <3>1 
  <2>2. CASE q # p
    <3>1. op'[q] = op[q] /\ steps'[q] = steps[q] /\ loc'[q] = loc[q] /\ out'[q] = out[q]
      BY <1>1, <1>2, <2>2 DEF IInv, TypeOK
    <3>2. Open(q)
      BY <3>1 DEF Open
    <3> QED
      BY <3>1, <3>2 DEF IInv, StageOK
  <2> QED
    BY <2>1, <2>2
<1>8. \A q \in Request : Holds(q) => Holds(q)'
  <2> SUFFICES ASSUME NEW q \in Request, Holds(q) PROVE Holds(q)'
    OBVIOUS
  <2>1. CASE q = p
    <3>1. steps'[q] = s
      BY <1>1, <2>1 DEF IInv, TypeOK, s
    <3> QED
      BY <1>4, <3>1 DEF Holds, Open
  <2>2. CASE q # p
    <3>1. steps'[q] = steps[q] /\ out'[q] = out[q]
      BY <1>1, <1>2, <2>2 DEF IInv, TypeOK
    <3> QED
      BY <3>1 DEF Holds, Open
  <2> QED
    BY <2>1, <2>2
<1>9. LockOK'
  BY <1>2, <1>8 DEF IInv, LockOK, TypeOK
<1>10. FreshOK'
  BY <1>2 DEF IInv, FreshOK
<1> QED
  BY <1>6, <1>7, <1>9, <1>10 DEF IInv

\* What a statement does to the request's own variables.
LEMMA GoesOnInv ==
  ASSUME IInv, NEW p \in Request, NEW l, NEW s, GoesOn(p, l, s)
  PROVE  /\ op' \in [Request -> AnyOp \cup {NoOp}] /\ steps' \in [Request -> Seq(Stmt)]
         /\ loc' \in [Request -> Local]
         /\ out' \in [Request -> {"", "committed", "failed", "panicked"}]
         /\ StageOK' \/ ~Open(p)
         /\ \A q \in Request : Holds(q) => Holds(q)'
         /\ Holds(p)'
<1>1. /\ loc' = [loc EXCEPT ![p] = l] /\ steps' = [steps EXCEPT ![p] = s]
      /\ op' = op /\ out' = out /\ l \in Local /\ s # <<>> /\ Plan(op[p].kind, s) /\ Stage(op[p], l, s)
  BY DEF GoesOn
<1>2. s \in Seq(Stmt)
  BY <1>1 DEF Plan
<1>3. /\ op' \in [Request -> AnyOp \cup {NoOp}] /\ steps' \in [Request -> Seq(Stmt)]
      /\ loc' \in [Request -> Local]
      /\ out' \in [Request -> {"", "committed", "failed", "panicked"}]
  BY <1>1, <1>2 DEF IInv, TypeOK
<1>4. \A q \in Request : /\ q = p => steps'[q] = s /\ loc'[q] = l
                         /\ q # p => steps'[q] = steps[q] /\ loc'[q] = loc[q]
  BY <1>1 DEF IInv, TypeOK
<1>5. ASSUME Open(p) PROVE StageOK'
  <2> SUFFICES ASSUME NEW q \in Request, Open(q)'
               PROVE  (/\ op[q] \in AnyOp /\ Plan(op[q].kind, steps[q])
                       /\ Stage(op[q], loc[q], steps[q]) /\ out[q] = "")'
    BY Zenon DEF StageOK
  <2>1. Open(q)
    BY <1>4, <1>5 DEF Open
  <2>2. op[q] \in AnyOp /\ Plan(op[q].kind, steps[q]) /\ Stage(op[q], loc[q], steps[q]) /\ out[q] = ""
    BY <2>1 DEF IInv, StageOK
  <2>3. CASE q = p
    BY <1>1, <1>4, <2>2, <2>3
  <2>4. CASE q # p
    BY <1>1, <1>4, <2>2, <2>4
  <2> QED
    BY <2>3, <2>4
<1>6. \A q \in Request : Holds(q) => Holds(q)'
  BY <1>1, <1>4 DEF Holds, Open
<1>7. Holds(p)'
  BY <1>1, <1>4 DEF Holds, Open
<1> QED
  BY <1>3, <1>5, <1>6, <1>7

LEMMA ReadIInv ==
  ASSUME IInv, NEW p \in Request, ReadStep(p)
  PROVE  IInv'
<1>1. PICK l, s : GoesOn(p, l, s)
  BY DEF ReadStep
<1>2. Open(p) /\ UNCHANGED <<com, cur, lock, share, fresh>>
  BY DEF ReadStep, rows
<1>3. TypeOK'
  BY <1>1, <1>2, GoesOnInv DEF IInv, TypeOK, RowsOK
<1>4. LockOK'
  BY <1>1, <1>2, GoesOnInv DEF IInv, TypeOK, LockOK
<1>5. FreshOK'
  BY <1>2 DEF IInv, FreshOK
<1> QED
  BY <1>1, <1>2, <1>3, <1>4, <1>5, GoesOnInv DEF IInv

LEMMA WriteIInv ==
  ASSUME IInv, NEW p \in Request, WriteStep(p)
  PROVE  IInv'
<1>1. PICK l, s : GoesOn(p, l, s)
  BY DEF WriteStep
<1>0. PICK W \in SUBSET Row, K \in SUBSET TagId : \E v : Writes(p, W, K, v) /\ W \cap fresh' = {}
  BY DEF WriteStep
<1>2. PICK v : Writes(p, W, K, v) /\ W \cap fresh' = {}
  BY <1>0
<1>3. Open(p) /\ fresh' \subseteq fresh /\ com' = com
  BY <1>1 DEF WriteStep, GoesOn
<1>4. /\ \A r \in W : v[r] \in Values(r) /\ lock[r] \in {p, Nobody}
      /\ cur' = [r \in Row |-> IF r \in W THEN v[r] ELSE cur[r]]
      /\ lock' = [r \in Row |-> IF r \in W THEN p ELSE lock[r]]
      /\ share' = [x \in TagId |-> IF x \in K THEN share[x] \cup {p} ELSE share[x]]
  BY <1>2, Zenon DEF Writes
<1>5. RowsOK(cur)'
  <2>1. \A r \in Row : cur'[r] \in Values(r)
    BY <1>4 DEF IInv, TypeOK, RowsOK
  <2>2. cur' = [r \in Row |-> cur'[r]]
    BY <1>4
  <2> QED
    BY <2>1, <2>2, Zenon DEF RowsOK
<1>6. TypeOK'
  <2>1. lock' \in [Row -> Request \cup {Nobody}] /\ share' \in [TagId -> SUBSET Request]
    BY <1>4 DEF IInv, TypeOK
  <2>2. RowsOK(com)' /\ (fresh \subseteq TagId)'
    BY <1>3 DEF IInv, TypeOK, RowsOK
  <2> QED
    BY <1>1, <1>5, <2>1, <2>2, GoesOnInv DEF TypeOK
<1>7. LockOK'
  <2>1. \A r \in Row : lock'[r] \in {lock[r], p}
    BY <1>4
  <2>2. \A x \in TagId : share'[x] \subseteq share[x] \cup {p}
    BY <1>4
  <2>3. \A r \in Row : lock[r] # Nobody => lock[r] \in Request /\ Holds(lock[r])
    BY DEF IInv, LockOK, TypeOK
  <2>4. \A x \in TagId : \A q \in share[x] : q \in Request /\ Holds(q)
    BY DEF IInv, LockOK, TypeOK
  <2>5. Holds(p)' /\ \A q \in Request : Holds(q) => Holds(q)'
    BY <1>1, GoesOnInv
  <2>6. (\A r \in Row : lock[r] # Nobody => Holds(lock[r]))'
    <3> SUFFICES ASSUME NEW r \in Row, lock'[r] # Nobody PROVE Holds(lock[r])'
      OBVIOUS
    <3>1. lock'[r] = p \/ (lock'[r] \in Request /\ Holds(lock'[r]))
      BY <2>1, <2>3
    <3>2. steps'[lock'[r]] # <<>> \/ out'[lock'[r]] = "panicked"
      BY <2>5, <3>1 DEF Holds, Open
    <3> QED
      BY <3>2 DEF Holds, Open
  <2>7. \A x \in TagId : \A q \in share'[x] : Holds(q)'
    BY <2>2, <2>4, <2>5
  <2> QED
    BY <2>6, <2>7, Zenon DEF LockOK
<1>8. FreshOK'
  <2> SUFFICES ASSUME NEW x \in fresh' PROVE com'[x] = NoRow /\ lock'[x] = Nobody
    BY DEF FreshOK
  <2>1. x \in fresh /\ x \notin W /\ x \in Row
    BY <1>2, <1>3, Rows DEF IInv, TypeOK
  <2> QED
    BY <1>3, <1>4, <2>1 DEF IInv, FreshOK
<1> QED
  BY <1>1, <1>3, <1>6, <1>7, <1>8, GoesOnInv DEF IInv

\* What becomes of a request that ends, with its locks.
LEMMA EndsInv ==
  ASSUME IInv, NEW p \in Request, Open(p), Free(p), Go(p, <<>>),
         NEW e \in {"committed", "failed"}, out' = [out EXCEPT ![p] = e]
  PROVE  /\ op' \in [Request -> AnyOp \cup {NoOp}] /\ steps' \in [Request -> Seq(Stmt)]
         /\ loc' \in [Request -> Local]
         /\ out' \in [Request -> {"", "committed", "failed", "panicked"}]
         /\ lock' \in [Row -> Request \cup {Nobody}] /\ share' \in [TagId -> SUBSET Request]
         /\ StageOK' /\ LockOK'
<1>1. /\ op' = [op EXCEPT ![p] = NoOp] /\ loc' = [loc EXCEPT ![p] = NoLocals]
      /\ lock' = [r \in Row |-> IF lock[r] = p THEN Nobody ELSE lock[r]]
      /\ share' = [x \in TagId |-> share[x] \ {p}]
      /\ steps' = [steps EXCEPT ![p] = <<>>]
  BY DEF Free, Set, Go
<1>2. NoLocals \in Local
  BY EmptySeq DEF NoLocals, Local, AnyTag, AnyName
<1>3. <<>> \in Seq(Stmt)
  BY EmptySeq
<1>4. op' \in [Request -> AnyOp \cup {NoOp}] /\ loc' \in [Request -> Local]
  BY <1>1, <1>2 DEF IInv, TypeOK
<1>5. steps' \in [Request -> Seq(Stmt)]
  BY <1>1, <1>3 DEF IInv, TypeOK
<1>6. out' \in [Request -> {"", "committed", "failed", "panicked"}]
  BY DEF IInv, TypeOK
<1>7. lock' \in [Row -> Request \cup {Nobody}] /\ share' \in [TagId -> SUBSET Request]
  BY <1>1 DEF IInv, TypeOK
<1>8. \A q \in Request : q # p => /\ op'[q] = op[q] /\ steps'[q] = steps[q]
                                  /\ loc'[q] = loc[q] /\ out'[q] = out[q]
  BY <1>1 DEF IInv, TypeOK
<1>9. StageOK'
  <2> SUFFICES ASSUME NEW q \in Request, Open(q)'
               PROVE  (/\ op[q] \in AnyOp /\ Plan(op[q].kind, steps[q])
                       /\ Stage(op[q], loc[q], steps[q]) /\ out[q] = "")'
    BY Zenon DEF StageOK
  <2>1. q # p
    BY <1>1 DEF Open, IInv, TypeOK
  <2>2. Open(q)
    BY <1>8, <2>1 DEF Open
  <2>3. op[q] \in AnyOp /\ Plan(op[q].kind, steps[q]) /\ Stage(op[q], loc[q], steps[q]) /\ out[q] = ""
    BY <2>2 DEF IInv, StageOK
  <2> QED
    BY <1>8, <2>1, <2>3
<1>10. LockOK'
  <2>1. \A r \in Row : lock'[r] # Nobody
          => lock'[r] # p /\ lock'[r] \in Request /\ Holds(lock'[r])
    BY <1>1 DEF IInv, LockOK, TypeOK
  <2>2. \A x \in TagId : \A q \in share'[x] : q # p /\ q \in Request /\ Holds(q)
    BY <1>1 DEF IInv, LockOK, TypeOK
  <2>3. \A r \in Row : lock'[r] # Nobody => steps'[lock'[r]] # <<>> \/ out'[lock'[r]] = "panicked"
    BY <1>8, <2>1 DEF Holds, Open
  <2>4. \A x \in TagId : \A q \in share'[x] : steps'[q] # <<>> \/ out'[q] = "panicked"
    BY <1>8, <2>2 DEF Holds, Open
  <2> QED
    BY <2>3, <2>4 DEF LockOK, Holds, Open
<1> QED
  BY <1>4, <1>5, <1>6, <1>7, <1>9, <1>10

LEMMA FailIInv ==
  ASSUME IInv, NEW p \in Request, Open(p), Fail(p)
  PROVE  IInv'
<1>1. /\ cur' = [r \in Row |-> IF lock[r] = p THEN com[r] ELSE cur[r]]
      /\ Free(p) /\ Go(p, <<>>) /\ out' = [out EXCEPT ![p] = "failed"] /\ com' = com /\ fresh' = fresh
  BY DEF Fail
<1>2. RowsOK(com)' /\ RowsOK(cur)' /\ (fresh \subseteq TagId)'
  BY <1>1 DEF IInv, TypeOK, RowsOK
<1>3. /\ op' \in [Request -> AnyOp \cup {NoOp}] /\ steps' \in [Request -> Seq(Stmt)]
      /\ loc' \in [Request -> Local]
      /\ out' \in [Request -> {"", "committed", "failed", "panicked"}]
      /\ lock' \in [Row -> Request \cup {Nobody}] /\ share' \in [TagId -> SUBSET Request]
      /\ StageOK' /\ LockOK'
  BY <1>1, EndsInv
<1>4. FreshOK'
  <2>1. lock' = [r \in Row |-> IF lock[r] = p THEN Nobody ELSE lock[r]]
    BY <1>1 DEF Free
  <2>2. fresh \subseteq Row
    BY Rows DEF IInv, TypeOK
  <2> QED
    BY <1>1, <2>1, <2>2 DEF IInv, FreshOK
<1> QED
  BY <1>2, <1>3, <1>4, Zenon DEF IInv, TypeOK

LEMMA CommitIInv ==
  ASSUME IInv, NEW p \in Request, Commit(p)
  PROVE  IInv'
<1>1. /\ com' = [r \in Row |-> IF lock[r] = p THEN cur[r] ELSE com[r]] /\ Open(p)
      /\ Free(p) /\ Go(p, <<>>) /\ out' = [out EXCEPT ![p] = "committed"] /\ cur' = cur /\ fresh' = fresh
  BY DEF Commit, At
<1>2. RowsOK(com)' /\ RowsOK(cur)' /\ (fresh \subseteq TagId)'
  BY <1>1 DEF IInv, TypeOK, RowsOK
<1>3. /\ op' \in [Request -> AnyOp \cup {NoOp}] /\ steps' \in [Request -> Seq(Stmt)]
      /\ loc' \in [Request -> Local]
      /\ out' \in [Request -> {"", "committed", "failed", "panicked"}]
      /\ lock' \in [Row -> Request \cup {Nobody}] /\ share' \in [TagId -> SUBSET Request]
      /\ StageOK' /\ LockOK'
  BY <1>1, EndsInv
<1>4. FreshOK'
  <2>1. lock' = [r \in Row |-> IF lock[r] = p THEN Nobody ELSE lock[r]]
    BY <1>1 DEF Free
  <2>2. fresh \subseteq Row
    BY Rows DEF IInv, TypeOK
  <2> QED
    BY <1>1, <2>1, <2>2, RequestAssumption DEF IInv, FreshOK
<1> QED
  BY <1>2, <1>3, <1>4, Zenon DEF IInv, TypeOK

LEMMA PanicIInv ==
  ASSUME IInv, NEW p \in Request, Open(p), Panic(p)
  PROVE  IInv'
<1>1. /\ steps' = [steps EXCEPT ![p] = <<>>] /\ out' = [out EXCEPT ![p] = "panicked"]
      /\ UNCHANGED <<com, cur, lock, share, fresh, op, loc>>
  BY DEF Panic, Go, rows
<1>2. <<>> \in Seq(Stmt)
  BY EmptySeq
<1>3. TypeOK'
  BY <1>1, <1>2 DEF IInv, TypeOK, RowsOK
<1>4. /\ \A q \in Request : q # p => steps'[q] = steps[q] /\ out'[q] = out[q]
      /\ steps'[p] = <<>> /\ out'[p] = "panicked"
  BY <1>1 DEF IInv, TypeOK
<1>5. StageOK'
  <2> SUFFICES ASSUME NEW q \in Request, Open(q)'
               PROVE  (/\ op[q] \in AnyOp /\ Plan(op[q].kind, steps[q])
                       /\ Stage(op[q], loc[q], steps[q]) /\ out[q] = "")'
    BY Zenon DEF StageOK
  <2>1. q # p
    BY <1>4 DEF Open
  <2>2. Open(q)
    BY <1>4, <2>1 DEF Open
  <2>3. op[q] \in AnyOp /\ Plan(op[q].kind, steps[q]) /\ Stage(op[q], loc[q], steps[q]) /\ out[q] = ""
    BY <2>2 DEF IInv, StageOK
  <2> QED
    BY <1>1, <1>4, <2>1, <2>3
<1>6. LockOK'
  <2>1. \A q \in Request : Holds(q) => Holds(q)'
    BY <1>4 DEF Holds, Open
  <2>2. \A r \in Row : lock[r] # Nobody => lock[r] \in Request /\ Holds(lock[r])
    BY DEF IInv, LockOK, TypeOK
  <2>3. \A x \in TagId : \A q \in share[x] : q \in Request /\ Holds(q)
    BY DEF IInv, LockOK, TypeOK
  <2>4. \A r \in Row : lock[r] # Nobody => steps'[lock[r]] # <<>> \/ out'[lock[r]] = "panicked"
    BY <2>1, <2>2 DEF Holds, Open
  <2>5. \A x \in TagId : \A q \in share[x] : steps'[q] # <<>> \/ out'[q] = "panicked"
    BY <2>1, <2>3 DEF Holds, Open
  <2> QED
    BY <1>1, <2>4, <2>5 DEF LockOK, Holds, Open
<1>7. FreshOK'
  BY <1>1 DEF IInv, FreshOK
<1> QED
  BY <1>3, <1>5, <1>6, <1>7 DEF IInv

LEMMA StepIInv == IInv /\ [Next]_vars => IInv'
<1> SUFFICES ASSUME IInv, [Next]_vars PROVE IInv'
  OBVIOUS
<1>1. CASE UNCHANGED vars
  BY <1>1 DEF vars, IInv, TypeOK, RowsOK, StageOK, LockOK, FreshOK, Holds, Open
<1>2. ASSUME NEW p \in Request, RequestStep(p) PROVE IInv'
  <2>1. \/ Start(p) \/ ReadStep(p) \/ WriteStep(p)
        \/ (Open(p) /\ Fail(p)) \/ (Open(p) /\ Panic(p)) \/ Commit(p)
    BY <1>2, Shapes, Zenon DEF IInv
  <2> QED
    BY <2>1, StartIInv, ReadIInv, WriteIInv, FailIInv, PanicIInv, CommitIInv, Zenon
<1> QED
  BY <1>1, <1>2, Zenon DEF Next, Finished

\* Who holds a lock, for every set of requests, tags, names and bookmarks: the
\* requests that are open, and those whose goroutine has panicked.
THEOREM LocksAreHeld == Spec => []IInv
<1>1. Init => IInv
  BY InitIInv
<1>2. IInv /\ [Next]_vars => IInv'
  BY StepIInv
<1> QED
  BY <1>1, <1>2, PTL DEF Spec

-----------------------------------------------------------------------------
(* Requests that panic.                                                    *)

NoPanic == \A p \in Request : out[p] # "panicked"
KindsOK == \A p \in Request : Open(p) => op[p].kind \in Kinds

\* Only updates of a tag panic: the other requests never leave a transaction behind.
LEMMA StepNoPanic ==
  ASSUME Kinds \cap {"move", "rename"} = {}, IInv, KindsOK, NoPanic, [Next]_vars
  PROVE  KindsOK' /\ NoPanic'
<1>1. CASE UNCHANGED vars
  BY <1>1 DEF vars, KindsOK, NoPanic, Open
<1>2. ASSUME NEW p \in Request, RequestStep(p) PROVE KindsOK' /\ NoPanic'
  <2>1. /\ steps \in [Request -> Seq(Stmt)] /\ op \in [Request -> AnyOp \cup {NoOp}]
        /\ out \in [Request -> {"", "committed", "failed", "panicked"}]
    BY DEF IInv, TypeOK
  <2>2. CASE Start(p)
    <3>1. PICK o \in Ops(Tags) : /\ o.kind \in Kinds /\ op' = [op EXCEPT ![p] = o]
                                 /\ steps' = [steps EXCEPT ![p] = Steps(o)]
      BY <2>2, Zenon DEF Start, Go
    <3>2. out' = out
      BY <2>2 DEF Start
    <3>3. \A q \in Request : q # p => steps'[q] = steps[q] /\ op'[q] = op[q]
      BY <2>1, <3>1
    <3>4. op'[p] = o
      BY <2>1, <3>1
    <3> QED
      BY <3>1, <3>2, <3>3, <3>4 DEF KindsOK, NoPanic, Open
  <2>3. ASSUME NEW l, NEW s, GoesOn(p, l, s), Open(p) PROVE KindsOK' /\ NoPanic'
    BY <2>1, <2>3 DEF GoesOn, KindsOK, NoPanic, Open
  <2>4. ASSUME NEW e \in {"committed", "failed"}, Free(p), Go(p, <<>>), out' = [out EXCEPT ![p] = e]
        PROVE  KindsOK' /\ NoPanic'
    <3>1. steps' = [steps EXCEPT ![p] = <<>>] /\ op' = [op EXCEPT ![p] = NoOp]
      BY <2>4 DEF Go, Free
    <3> QED
      BY <2>1, <2>4, <3>1 DEF KindsOK, NoPanic, Open
  <2>5. CASE Fail(p)
    BY <2>4, <2>5 DEF Fail
  <2>6. CASE Commit(p)
    BY <2>4, <2>6 DEF Commit
  <2>7. CASE Open(p) /\ op[p].kind \in {"move", "rename"}
    BY <2>7 DEF KindsOK
  <2> QED
    BY <1>2, <2>2, <2>3, <2>5, <2>6, <2>7, Shapes, Zenon DEF IInv, ReadStep, WriteStep
<1> QED
  BY <1>1, <1>2, Zenon DEF Next, Finished

-----------------------------------------------------------------------------
(* Waiting.                                                                *)

LEMMA NeedsRows ==
  ASSUME IInv, NEW p \in Request
  PROVE  Needs(p).write \subseteq Row /\ Needs(p).del \subseteq TagId /\ Needs(p).key \subseteq TagId
<1> DEFINE h == Head(steps[p])
           l == loc[p]
           o == op[p]
<1>1. CASE ~Open(p)
  <2>1. Needs(p) = [write |-> {}, del |-> {}, key |-> {}]
    BY <1>1 DEF Needs, At
  <2> QED
    BY <2>1
<1>2. CASE Open(p) /\ h \notin {"count", "inc", "dec", "uncount", "setParent", "insert", "insertName",
                                "delNames", "setPrimary", "bookmark", "apply", "deleteRow"}
  <2>1. Needs(p) = [write |-> {}, del |-> {}, key |-> {}]
    BY <1>2, NeedsOf
  <2> QED
    BY <2>1
<1>3. CASE Open(p) /\ h \in {"count", "inc", "dec", "uncount", "setParent", "insert", "insertName",
                             "delNames", "setPrimary", "bookmark", "apply", "deleteRow"}
  <2>1. /\ o \in AnyOp /\ l \in Local /\ Stage(o, l, steps[p])
        /\ Follows(o.kind, h, Head(Tail(steps[p])))
    BY <1>3, Onward DEF IInv, TypeOK, At
  <2>2. CASE h \in {"count", "inc"}
    <3>1. o.par \in TagId
      BY <2>1, <2>2, OpFields DEF Follows
    <3>2. Needs(p) = [write |-> {o.par}, del |-> {}, key |-> {}]
      BY <1>3, <2>2, NeedsOf
    <3> QED
      BY <3>1, <3>2, Rows
  <2>3. CASE h \in {"dec", "uncount"}
    <3>1. l.par \in AnyTag
      BY <2>1, LocalFields
    <3>2. Needs(p) = [write |-> {l.par} \ {NoTag}, del |-> {}, key |-> {}]
      BY <1>3, <2>3, NeedsOf
    <3> QED
      BY <3>1, <3>2, Rows DEF AnyTag
  <2>4. CASE h = "setParent"
    <3>1. o.id \in TagId /\ o.par \in TagId
      BY <2>1, <2>4, OpFields DEF Follows
    <3>2. Needs(p) = [write |-> {o.id}, del |-> {}, key |-> {o.par}]
      BY <1>3, <2>4, NeedsOf
    <3> QED
      BY <3>1, <3>2, Rows
  <2>5. CASE h = "insert"
    <3>1. o.par \in TagId
      BY <2>1, <2>5, OpFields DEF Follows
    <3>2. Needs(p) = [write |-> {}, del |-> {}, key |-> {o.par}]
      BY <1>3, <2>5, NeedsOf
    <3> QED
      BY <3>1, <3>2
  <2>6. CASE h = "insertName"
    <3>1. o.kind \in {"create", "move", "rename"}
      BY <2>1, <2>6 DEF Follows
    <3>2. l.id \in TagId /\ l.name \in AnyName
      BY <2>1, <2>6, <3>1, LocalFields DEF Stage
    <3>3. Needs(p) = [write |-> {<<l.id, l.name>>}, del |-> {}, key |-> {l.id}]
      BY <1>3, <2>6, NeedsOf
    <3>4. <<l.id, l.name>> \in Row
      BY <3>2, Rows, Zenon
    <3> QED
      BY <3>2, <3>3, <3>4
  <2>7. CASE h \in {"delNames", "setPrimary"}
    <3>1. o.kind \in {"move", "rename"}
      BY <2>1, <2>7 DEF Follows
    <3>2. l.id \in TagId /\ l.del \subseteq AnyName /\ l.set \cup l.clear \subseteq AnyName
      BY <2>1, <3>1, LocalFields DEF Stage
    <3>3. PICK N \in SUBSET AnyName : Needs(p) = [write |-> {<<l.id, x>> : x \in N}, del |-> {}, key |-> {}]
      BY <1>3, <2>7, <3>2, NeedsOf
    <3>4. {<<l.id, x>> : x \in N} \subseteq Row
      BY <3>2, Rows, Zenon
    <3> QED
      BY <3>3, <3>4
  <2>8. CASE h = "bookmark"
    <3>1. o.b \in Taggable
      BY <2>1, <2>8, OpFields DEF Follows
    <3>2. Needs(p) = [write |-> {o.b}, del |-> {}, key |-> {}]
      BY <1>3, <2>8, NeedsOf
    <3> QED
      BY <3>1, <3>2, Rows
  <2>9. CASE h = "apply"
    <3>1. l.b \in Taggable
      BY <2>1, <2>9 DEF Stage
    <3>2. l.want \subseteq TagId /\ l.have \subseteq TagId
      BY <2>1, LocalFields
    <3>3. PICK N \in SUBSET TagId, K \in SUBSET TagId :
            Needs(p) = [write |-> {<<l.b, x>> : x \in N}, del |-> {}, key |-> K]
      <4>1. Needs(p) = [write |-> {<<l.b, x>> : x \in (l.want \ l.have) \cup (l.have \ l.want)},
                        del |-> {}, key |-> l.want \ l.have]
        BY <1>3, <2>9, NeedsOf
      <4>2. (l.want \ l.have) \cup (l.have \ l.want) \in SUBSET TagId /\ l.want \ l.have \in SUBSET TagId
        BY <3>2
      <4> QED
        BY <4>1, <4>2, Zenon
    <3>4. {<<l.b, x>> : x \in N} \subseteq Row
      BY <3>1, Rows, Zenon
    <3> QED
      BY <3>3, <3>4
  <2>10. CASE h = "deleteRow"
    <3>1. l.id \in TagId
      BY <2>1, <2>10 DEF Stage, Follows
    <3>2. Needs(p) = [write |-> Cascades(p, l.id), del |-> {l.id}, key |-> {}]
      BY <1>3, <2>10, NeedsOf
    <3>3. Cascades(p, l.id) \subseteq Row
      BY Zenon DEF Cascades, Row
    <3> QED
      BY <3>1, <3>2, <3>3
  <2> QED
    BY <1>3, <2>2, <2>3, <2>4, <2>5, <2>6, <2>7, <2>8, <2>9, <2>10
<1> QED
  BY <1>1, <1>2, <1>3

\* A request waits only while it is open, and for others that hold a lock.
LEMMA BlockersHold ==
  ASSUME IInv, NEW p \in Request, NEW q \in Blockers(p)
  PROVE  Open(p) /\ q \in Request /\ Holds(q) /\ q # p
<1> DEFINE n == Needs(p)
<1>1. n.write \subseteq Row /\ n.del \subseteq TagId /\ n.key \subseteq TagId
  BY NeedsRows
<1>2. Open(p)
  <2> SUFFICES ASSUME ~Open(p) PROVE FALSE
    OBVIOUS
  <2>1. n = [write |-> {}, del |-> {}, key |-> {}]
    BY DEF Needs, At
  <2>2. n.write = {} /\ n.del = {} /\ n.key = {}
    BY <2>1
  <2> HIDE DEF n
  <2> QED
    BY <2>2 DEF Blockers, n
<1> HIDE DEF n
<1>3. /\ q # p /\ q # Nobody
      /\ \/ \E r \in n.write \cup n.del : q = lock[r]
         \/ \E r \in n.del : q \in share[r]
         \/ \E r \in n.key : q = lock[r]
  BY DEF Blockers, n
<1>4. TagId \subseteq Row
  BY Rows
<1>5. \/ \E r \in Row : q = lock[r]
      \/ \E r \in TagId : q \in share[r]
  BY <1>1, <1>3, <1>4
<1>6. /\ \A r \in Row : lock[r] # Nobody => lock[r] \in Request /\ Holds(lock[r])
      /\ \A x \in TagId : \A r \in share[x] : r \in Request /\ Holds(r)
  BY DEF IInv, LockOK, TypeOK
<1> QED
  BY <1>2, <1>3, <1>5, <1>6

\* Of finitely many requests that each wait for one of them, some wait in a circle.
LEMMA SomeCircle ==
  ASSUME IInv, NEW O \in SUBSET Request, O # {},
         \A q \in O : Blockers(q) \cap O # {}
  PROVE  \E q \in O : Deadlocked(q)
<1> DEFINE C == {S \in SUBSET O : S # {} /\ \A q \in S : Blockers(q) \cap S # {}}
<1>1. C \subseteq FiniteSubsetsOf(Request)
  BY RequestAssumption, FS_Subset DEF FiniteSubsetsOf
<1>2. O \in C
  OBVIOUS
<1>3. PICK S \in C : \A N \in C : ~(<<N, S>> \in StrictSubsetOrdering(Request))
  <2>1. IsWellFoundedOn(StrictSubsetOrdering(Request), FiniteSubsetsOf(Request))
    BY RequestAssumption, FS_StrictSubsetOrderingWellFounded
  <2>2. C # {}
    BY <1>2
  <2> HIDE DEF C
  <2> QED
    BY <1>1, <2>1, <2>2, WFMin
<1>4. \A q \in S : \E r \in S : q \in Blockers(r)
  <2> SUFFICES ASSUME NEW q \in S, \A r \in S : q \notin Blockers(r) PROVE FALSE
    OBVIOUS
  <2> DEFINE N == S \ {q}
  <2>1. \A r \in S : Blockers(r) \cap N # {}
    OBVIOUS
  <2>2. N # {}
    BY <2>1
  <2>3. N \in C
    BY <2>1, <2>2
  <2>4. <<N, S>> \in StrictSubsetOrdering(Request)
    BY DEF StrictSubsetOrdering
  <2> QED
    BY <1>3, <2>3, <2>4
<1>5. PICK q : q \in S
  OBVIOUS
<1>6. Deadlocked(q)
  BY <1>4, <1>5 DEF Deadlocked
<1> QED
  BY <1>5, <1>6

LEMMA WaitsFromIInv == IInv => WaitsForOpen
<1> SUFFICES ASSUME IInv PROVE WaitsForOpen
  OBVIOUS
<1>1. \A p \in Request : \A q \in Blockers(p) : Open(p) /\ Holds(q) /\ q \in Request
  BY BlockersHold
<1>2. ASSUME NEW p \in Request, Blockers(p) # {}, NEW S \in SUBSET Request,
             p \in S, \A q \in S : Blockers(q) \subseteq S,
             \A q \in S : out[q] # "panicked"
      PROVE  \E q \in S : Open(q) /\ (Blockers(q) = {} \/ Deadlocked(q))
  <2> SUFFICES ASSUME \A q \in S : Open(q) => Blockers(q) # {} /\ ~Deadlocked(q) PROVE FALSE
    OBVIOUS
  <2> DEFINE O == {q \in S : Open(q)}
  <2>1. O # {} /\ O \in SUBSET Request
    BY <1>1, <1>2
  <2>2. ASSUME NEW q \in O PROVE Blockers(q) \cap O # {}
    <3>1. PICK r \in Blockers(q) : TRUE
      OBVIOUS
    <3>2. r \in S /\ Holds(r)
      BY <1>1, <1>2, <3>1
    <3>3. Open(r)
      BY <1>2, <3>2 DEF Holds
    <3> QED
      BY <3>1, <3>2, <3>3
  <2>3. \E q \in O : Deadlocked(q)
    BY <2>1, <2>2, SomeCircle
  <2> QED
    BY <2>3
<1> QED
  BY <1>1, <1>2 DEF WaitsForOpen

\* A request waits only for requests whose transaction is open, and among those it waits
\* for, directly or not, one can go on, or is in a circle that PostgreSQL breaks, or has
\* panicked, whatever requests overlap (TxOpt: the locks go with a commit or a rollback).
THEOREM WaitingEnds == Spec => []WaitsForOpen
<1>1. IInv => WaitsForOpen
  BY WaitsFromIInv
<1> QED
  BY <1>1, LocksAreHeld, PTL

\* Only UpdateTag panics: where tags are not moved and not renamed, no transaction is left
\* open, and so, by WaitingEnds, no request waits for good.
THEOREM OnlyUpdatesPanic == Kinds \cap {"move", "rename"} = {} => (Spec => []NoPanic)
<1> SUFFICES ASSUME Kinds \cap {"move", "rename"} = {} PROVE Spec => []NoPanic
  OBVIOUS
<1>1. Init => KindsOK /\ NoPanic
  BY DEF Init, KindsOK, NoPanic, Open
<1>2. IInv /\ (KindsOK /\ NoPanic) /\ [Next]_vars => (KindsOK /\ NoPanic)'
  BY StepNoPanic
<1> QED
  BY <1>1, <1>2, LocksAreHeld, PTL DEF Spec

=============================================================================
