---------------------------- MODULE PostingProofs ----------------------------
(***************************************************************************)
(* Proofs about Posting, for any number of users, handlers, posts and      *)
(* subthreads and any posting policies.  A committed request acts on what  *)
(* it read before its transaction; the inductive invariant says what of it *)
(* is still true: a thread once seen published is published, and a post or *)
(* subthread once seen keeps what it is while the thread exists.           *)
(***************************************************************************)
EXTENDS Posting, FiniteSetTheorems, TLAPS

USE PostingAssumption

-----------------------------------------------------------------------------
(* Types of the rows that are written *)

Words == Texts \union {"plain"}

ThreadRow == [status : {"live", "removed", "gone"}, published : BOOLEAN, private : BOOLEAN, version : Nat]

\* The types, and that a request for a subthread carries a policy.
Types ==
    /\ thread \in ThreadRow
    /\ sub \in [Subs -> [status : {"none", "live", "deleted"}, policy : Policies]]
    /\ post \in [Posts -> Row]
    /\ member \in [Users -> Roles]
    /\ player \subseteq Users /\ blocked \subseteq Others
    /\ call \in [Calls -> Request]
    /\ \A c \in Calls : call[c].op = "create-sub" => call[c].was \in Policies

\* A new floor or reply is a row.
LEMMA NewRowType ==
    ASSUME thread.published \in BOOLEAN, NEW k \in Request, NEW n \in 1..MaxPosts
    PROVE  NewRow(k, n) \in Row
<1>1. n \in 0..MaxPosts
  OBVIOUS
<1>2. Dice(k.text) \in BOOLEAN
  BY DEF Dice
<1>3. /\ k.sub \in Subs /\ k.post \in Posts \union {0} /\ k.user \in Users
      /\ k.req \in Reqs \union {NoReq} /\ k.text \in Words
  BY DEF Request, Words
<1> QED
  BY <1>1, <1>2, <1>3 DEF NewRow, NoPost, Row, Words

\* A new body is a row.
LEMMA BodyRowType ==
    ASSUME NEW k \in Request, NEW s \in Subs, NEW published \in BOOLEAN
    PROVE  BodyRow(k, s, published) \in Row
<1>1. Dice(k.text) \in BOOLEAN /\ (published /\ Dice(k.text)) \in BOOLEAN
  BY DEF Dice
<1>2. k.user \in Users /\ k.text \in Words
  BY DEF Request, Words
<1>3. 0 \in Posts \union {0} /\ 0 \in 0..MaxPosts /\ NoReq \in Reqs \union {NoReq}
  OBVIOUS
<1> HIDE DEF Dice
<1> QED
  BY <1>1, <1>2, <1>3 DEF BodyRow, NoPost, Row, Words

\* An edited row is a row.
LEMMA EditedType ==
    ASSUME NEW row \in Row, NEW text \in Words, NEW published \in BOOLEAN
    PROVE  Edited(row, text, published) \in Row
<1> DEFINE rolled == IF published THEN Dice(text) ELSE row.rolled
<1>1. row.version + 1 \in Nat /\ row.rolled \in BOOLEAN /\ Dice(text) \in BOOLEAN
  BY DEF Dice, Row
<1>2. rolled \in BOOLEAN
  BY <1>1, Zenon
<1>3. Edited(row, text, published) = [row EXCEPT !.text = text, !.version = row.version + 1, !.rolled = rolled]
  BY DEF Edited
<1> HIDE DEF rolled
<1>4. [row EXCEPT !.text = text, !.version = row.version + 1, !.rolled = rolled] \in Row
  BY <1>1, <1>2 DEF Row, Words
<1> QED
  BY <1>3, <1>4

\* So is a removed one.
LEMMA RemovedType == ASSUME NEW row \in Row PROVE Removed(row) \in Row
BY DEF Removed, Row

\* So is one that is no longer pinned.
LEMMA UnpinnedType == ASSUME NEW row \in Row PROVE [row EXCEPT !.pinned = FALSE] \in Row
BY DEF Row

\* A thread stays a thread row when its flags and its version change.
LEMMA ThreadType ==
    ASSUME NEW t \in ThreadRow, NEW b \in BOOLEAN
    PROVE  /\ [t EXCEPT !.published = b, !.version = t.version + 1] \in ThreadRow
           /\ [t EXCEPT !.private = b, !.version = t.version + 1] \in ThreadRow
           /\ t.published \in BOOLEAN /\ t.private \in BOOLEAN
<1>1. t.version + 1 \in Nat
  BY DEF ThreadRow
<1> QED
  BY <1>1 DEF ThreadRow

\* Publication writes rows.
LEMMA SettledType ==
    ASSUME NEW rows \in [Posts -> Row]
    PROVE  Settled(rows) \in [Posts -> Row]
<1> SUFFICES ASSUME NEW p \in Posts PROVE Settled(rows)[p] \in Row
  BY DEF Settled
<1> DEFINE row == rows[p]
           rolled == Dice(row.text)
           version == IF rolled THEN row.version + 1 ELSE row.version
           settled == [row EXCEPT !.announced = row.announced + 1, !.rolled = rolled, !.version = version]
<1>1. rolled \in BOOLEAN /\ version \in Nat /\ row.announced + 1 \in Nat /\ row \in Row
  BY DEF Dice, Row
<1>2. Settled(rows)[p] \in {settled, row}
  BY DEF Settled
<1> HIDE DEF rolled, version, row
<1>3. settled \in Row
  BY <1>1 DEF Row
<1> QED
  BY <1>1, <1>2, <1>3 DEF row

\* Request records are typed.
LEMMA AskType ==
    ASSUME NEW u \in Users, NEW op \in Ops
    PROVE  Ask(op, u) \in Request
<1>1. 1 \in Subs /\ 0 \in Posts \union {0}
  BY DEF Subs
<1> QED
  BY <1>1 DEF Ask, Idle, Request

\* A request that is begun keeps the types.
LEMMA BeginTypes ==
    ASSUME Types, NEW c \in Calls, NEW k \in Request, k.op = "create-sub" => k.was \in Policies, Begin(c, k)
    PROVE  Types'
<1>1. call' \in [Calls -> Request]
  BY DEF Types, Begin
<1>2. \A d \in Calls : call'[d].op = "create-sub" => call'[d].was \in Policies
  BY DEF Types, Begin
<1> QED
  BY <1>1, <1>2 DEF Types, Begin, data

BeginNext(c) ==
    \/ BeginCreate(c) \/ BeginEdit(c) \/ BeginRemove(c) \/ BeginPin(c) \/ BeginBody(c) \/ BeginCreateSub(c)
    \/ BeginRemoveSub(c) \/ BeginPublish(c) \/ BeginSave(c) \/ BeginRemoveThread(c) \/ BeginInvite(c)

\* Whatever is begun is a request.
LEMMA BegunTypes ==
    ASSUME Types, NEW c \in Calls, BeginNext(c)
    PROVE  \E k \in Request : Begin(c, k) /\ (k.op = "create-sub" => k.was \in Policies)
<1>0. \A u \in Users, op \in Ops : Ask(op, u) \in Request /\ Ask(op, u).op = op
  BY AskType DEF Ask, Idle
<1>w. \A p \in Posts : post[p].text \in Words /\ post[p].version \in Nat /\ post[p].author \in Users
  BY DEF Types, Row, Words
<1>t. thread.published \in BOOLEAN /\ thread.version \in Nat
  BY DEF Types, ThreadRow
<1>o. Owner \in Users /\ Others \subseteq Users /\ 1 \in Subs
  BY DEF Users, Subs
<1>1. CASE BeginCreate(c)
  <2>1. PICK u \in Users, s \in Subs, parent \in Created \union {0}, r \in Reqs \union {NoReq}, t \in Texts :
            Begin(c, [Ask("create", u) EXCEPT !.sub = s, !.post = parent, !.req = r, !.text = t])
    BY <1>1 DEF BeginCreate
  <2>2. Ask("create", u) \in Request /\ Ask("create", u).op = "create"
    BY <1>0 DEF Ops
  <2>4. /\ [Ask("create", u) EXCEPT !.sub = s, !.post = parent, !.req = r, !.text = t] \in Request
        /\ [Ask("create", u) EXCEPT !.sub = s, !.post = parent, !.req = r, !.text = t].op = "create"
    BY <2>2, <1>w, <1>t DEF Request, Created, Words
  <2> QED
    BY <2>1, <2>4
<1>2. CASE BeginEdit(c)
  <2>1. PICK p \in Created, t \in Texts :
            Begin(c, [Ask("edit", post[p].author) EXCEPT !.post = p, !.text = t, !.was = post[p].text,
         !.published = thread.published, !.version = post[p].version])
    BY <1>2 DEF BeginEdit
  <2>2. Ask("edit", post[p].author) \in Request /\ Ask("edit", post[p].author).op = "edit"
    BY <1>0, <1>w DEF Ops, Created
  <2>4. /\ [Ask("edit", post[p].author) EXCEPT !.post = p, !.text = t, !.was = post[p].text,
         !.published = thread.published, !.version = post[p].version] \in Request
        /\ [Ask("edit", post[p].author) EXCEPT !.post = p, !.text = t, !.was = post[p].text,
         !.published = thread.published, !.version = post[p].version].op = "edit"
    BY <2>2, <1>w, <1>t DEF Request, Created, Words
  <2> QED
    BY <2>1, <2>4
<1>3. CASE BeginRemove(c)
  <2>1. PICK p \in Created, u \in Users :
            Begin(c, [Ask("remove", u) EXCEPT !.post = p])
    BY <1>3 DEF BeginRemove
  <2>2. Ask("remove", u) \in Request /\ Ask("remove", u).op = "remove"
    BY <1>0 DEF Ops
  <2>4. /\ [Ask("remove", u) EXCEPT !.post = p] \in Request
        /\ [Ask("remove", u) EXCEPT !.post = p].op = "remove"
    BY <2>2, <1>w, <1>t DEF Request, Created
  <2> QED
    BY <2>1, <2>4
<1>4. CASE BeginPin(c)
  <2>1. PICK p \in Created, u \in Users, pin \in BOOLEAN :
            Begin(c, [Ask("pin", u) EXCEPT !.post = p, !.flag = pin])
    BY <1>4 DEF BeginPin
  <2>2. Ask("pin", u) \in Request /\ Ask("pin", u).op = "pin"
    BY <1>0 DEF Ops
  <2>4. /\ [Ask("pin", u) EXCEPT !.post = p, !.flag = pin] \in Request
        /\ [Ask("pin", u) EXCEPT !.post = p, !.flag = pin].op = "pin"
    BY <2>2, <1>w, <1>t DEF Request, Created
  <2> QED
    BY <2>1, <2>4
<1>5. CASE BeginBody(c)
  <2>1. PICK s \in Subs, u \in Users, t \in Texts, p \in Posts \union {0} :
            Begin(c, [Ask("body", u) EXCEPT !.sub = s, !.post = p, !.text = t, !.published = thread.published,
         !.version = IF p = 0 THEN 0 ELSE post[p].version])
    BY <1>5 DEF BeginBody
  <2>2. Ask("body", u) \in Request /\ Ask("body", u).op = "body"
    BY <1>0 DEF Ops
  <2>3. (IF p = 0 THEN 0 ELSE post[p].version) \in Nat
    BY <1>w
  <2>4. /\ [Ask("body", u) EXCEPT !.sub = s, !.post = p, !.text = t, !.published = thread.published,
         !.version = IF p = 0 THEN 0 ELSE post[p].version] \in Request
        /\ [Ask("body", u) EXCEPT !.sub = s, !.post = p, !.text = t, !.published = thread.published,
         !.version = IF p = 0 THEN 0 ELSE post[p].version].op = "body"
    BY <2>2, <2>3, <1>w, <1>t DEF Request, Words
  <2> QED
    BY <2>1, <2>4
<1>6. CASE BeginCreateSub(c)
  <2>1. PICK u \in Users, pol \in Policies, t \in Texts, withBody \in BOOLEAN :
            Begin(c, [Ask("create-sub", u) EXCEPT !.text = t, !.flag = withBody, !.was = pol,
         !.published = thread.published])
    BY <1>6 DEF BeginCreateSub
  <2>2. Ask("create-sub", u) \in Request /\ Ask("create-sub", u).op = "create-sub"
    BY <1>0 DEF Ops
  <2>4. /\ [Ask("create-sub", u) EXCEPT !.text = t, !.flag = withBody, !.was = pol,
         !.published = thread.published] \in Request
        /\ [Ask("create-sub", u) EXCEPT !.text = t, !.flag = withBody, !.was = pol,
         !.published = thread.published].op = "create-sub"
        /\ [Ask("create-sub", u) EXCEPT !.text = t, !.flag = withBody, !.was = pol,
         !.published = thread.published].was \in Policies
    BY <2>2, <1>w, <1>t DEF Request, Words
  <2> QED
    BY <2>1, <2>4
<1>7. CASE BeginRemoveSub(c)
  <2>1. PICK u \in Users, s \in Subs \ {1} :
            Begin(c, [Ask("remove-sub", u) EXCEPT !.sub = s])
    BY <1>7 DEF BeginRemoveSub
  <2>2. Ask("remove-sub", u) \in Request /\ Ask("remove-sub", u).op = "remove-sub"
    BY <1>0 DEF Ops
  <2>4. /\ [Ask("remove-sub", u) EXCEPT !.sub = s] \in Request
        /\ [Ask("remove-sub", u) EXCEPT !.sub = s].op = "remove-sub"
    BY <2>2, <1>w, <1>t DEF Request
  <2> QED
    BY <2>1, <2>4
<1>8. CASE BeginPublish(c)
  <2>1. Begin(c, [Ask("publish", Owner) EXCEPT !.version = thread.version])
    BY <1>8 DEF BeginPublish
  <2>2. Ask("publish", Owner) \in Request /\ Ask("publish", Owner).op = "publish"
    BY <1>0, <1>o DEF Ops
  <2>4. /\ [Ask("publish", Owner) EXCEPT !.version = thread.version] \in Request
        /\ [Ask("publish", Owner) EXCEPT !.version = thread.version].op = "publish"
    BY <2>2, <1>w, <1>t DEF Request
  <2> QED
    BY <2>1, <2>4
<1>9. CASE BeginSave(c)
  <2> DEFINE seen(p) == IF p = 0 THEN 0 ELSE post[p].version
  <2>1. PICK u \in Users, t \in Texts, publishing \in BOOLEAN, p \in Posts \union {0} :
            Begin(c, [Ask("save", u) EXCEPT !.post = p, !.text = t, !.flag = publishing,
                          !.version = thread.version, !.bodyVersion = seen(p)])
    BY <1>9 DEF BeginSave
  <2>2. Ask("save", u) \in Request /\ Ask("save", u).op = "save"
    BY <1>0 DEF Ops
  <2>3. seen(p) \in Nat
    BY <1>w
  <2> HIDE DEF seen
  <2>4. /\ [Ask("save", u) EXCEPT !.post = p, !.text = t, !.flag = publishing,
               !.version = thread.version, !.bodyVersion = seen(p)] \in Request
        /\ [Ask("save", u) EXCEPT !.post = p, !.text = t, !.flag = publishing,
               !.version = thread.version, !.bodyVersion = seen(p)].op = "save"
    BY <2>2, <2>3, <1>t DEF Request, Words
  <2> QED
    BY <2>1, <2>4
<1>10. CASE BeginRemoveThread(c)
  <2>1. Begin(c, [Ask("remove-thread", Owner) EXCEPT !.published = thread.published])
    BY <1>10 DEF BeginRemoveThread
  <2>2. Ask("remove-thread", Owner) \in Request /\ Ask("remove-thread", Owner).op = "remove-thread"
    BY <1>0, <1>o DEF Ops
  <2>4. /\ [Ask("remove-thread", Owner) EXCEPT !.published = thread.published] \in Request
        /\ [Ask("remove-thread", Owner) EXCEPT !.published = thread.published].op = "remove-thread"
    BY <2>2, <1>w, <1>t DEF Request
  <2> QED
    BY <2>1, <2>4
<1>11. CASE BeginInvite(c)
  <2>1. PICK u \in Others :
            Begin(c, Ask("invite", u))
    BY <1>11 DEF BeginInvite
  <2>2. Ask("invite", u) \in Request /\ Ask("invite", u).op = "invite"
    BY <1>0, <1>o DEF Ops
  <2> QED
    BY <2>1, <2>2
<1> QED
  BY <1>1, <1>2, <1>3, <1>4, <1>5, <1>6, <1>7, <1>8, <1>9, <1>10, <1>11 DEF BeginNext

\* The rows after upsertBody are typed.
LEMMA BodyRowsType ==
    ASSUME Types, NEW k \in Request
    PROVE  BodyRows(k) \subseteq [Posts -> Row]
<1>1. k.text \in Words /\ k.published \in BOOLEAN /\ k.sub \in Subs /\ post \in [Posts -> Row]
  BY DEF Request, Words, Types
<1>2. ASSUME k.post \in Posts PROVE [post EXCEPT ![k.post] = Edited(post[k.post], k.text, k.published)] \in [Posts -> Row]
  BY <1>1, <1>2, EditedType
<1>3. ASSUME NEW p \in Posts PROVE [post EXCEPT ![p] = BodyRow(k, k.sub, k.published)] \in [Posts -> Row]
  BY <1>1, BodyRowType
<1>4. k.post # 0 => k.post \in Posts
  BY DEF Request
<1> QED
  BY <1>2, <1>3, <1>4 DEF BodyRows

\* So are the rows after an aggregate save.
LEMMA SavedRowsType ==
    ASSUME Types, NEW k \in Request
    PROVE  SavedRows(k) \subseteq [Posts -> Row]
<1>1. k.text \in Words /\ thread.published \in BOOLEAN /\ 1 \in Subs /\ post \in [Posts -> Row]
  BY DEF Request, Words, Types, Subs, ThreadRow
<1>2. ASSUME NEW p \in Posts PROVE [post EXCEPT ![p] = Edited(post[p], k.text, thread.published)] \in [Posts -> Row]
  BY <1>1, EditedType
<1>3. ASSUME NEW p \in Posts PROVE [post EXCEPT ![p] = BodyRow(k, 1, thread.published)] \in [Posts -> Row]
  BY <1>1, BodyRowType
<1>4. ASSUME NEW p \in Posts
      PROVE  [post EXCEPT ![p] = IF @.text = k.text THEN @ ELSE Edited(@, k.text, thread.published)] \in [Posts -> Row]
  <2>1. CASE post[p].text = k.text
    BY <1>1, <2>1
  <2>2. CASE post[p].text # k.text
    BY <1>1, <1>2, <2>2
  <2> QED
    BY <2>1, <2>2
<1>5. Bodies(1) \subseteq Posts
  BY DEF Bodies
<1> QED
  BY <1>3, <1>4, <1>5 DEF SavedRows

CommitNext(c) ==
    \/ CommitCreate(c) \/ Replay(c) \/ CommitEdit(c) \/ CommitRemove(c) \/ CommitPin(c) \/ CommitBody(c)
    \/ CommitCreateSub(c) \/ CommitRemoveSub(c) \/ CommitPublish(c) \/ CommitSave(c)
    \/ CommitRemoveThread(c) \/ CommitInvite(c)

\* A handler that is done is idle.
LEMMA DoneTypes ==
    ASSUME Types, NEW c \in Calls, Done(c)
    PROVE  call' \in [Calls -> Request] /\ \A d \in Calls : call'[d].op = "create-sub" => call'[d].was \in Policies
<1>1. Idle \in Request /\ Idle.op # "create-sub"
  BY DEF Idle, Request, Ops, Users, Subs
<1> QED
  BY <1>1 DEF Types, Done

\* A hard deletion leaves typed rows.
LEMMA EraseTypes ==
    ASSUME Types, Erase
    PROVE  /\ thread' \in ThreadRow
           /\ sub' \in [Subs -> [status : {"none", "live", "deleted"}, policy : Policies]]
           /\ post' \in [Posts -> Row] /\ member' \in [Users -> Roles]
           /\ player' \subseteq Users /\ blocked' \subseteq Others
<1>1. NoPost \in Row
  BY DEF NoPost, Row, Users, Subs
<1>2. NoSub \in [status : {"none", "live", "deleted"}, policy : Policies]
  BY DEF NoSub
<1> QED
  BY <1>1, <1>2 DEF Types, Erase, Roles, ThreadRow

\* Every commit keeps the types.
LEMMA CommitTypes ==
    ASSUME Types, NEW c \in Calls, CommitNext(c)
    PROVE  Types'
<1> DEFINE k == call[c]
<1>0. k \in Request /\ post \in [Posts -> Row] /\ thread.published \in BOOLEAN
  BY DEF Types, ThreadRow
<1>k. /\ k.user \in Users /\ k.sub \in Subs /\ k.post \in Posts \union {0} /\ k.text \in Words
      /\ k.flag \in BOOLEAN /\ k.published \in BOOLEAN
  BY <1>0 DEF Request, Words
<1>1. CASE CommitCreate(c)
  <2>1. CASE UNCHANGED data
    <3>1. \/ Done(c)
          \/ call' = [call EXCEPT ![c].op = "replay"]
      BY <1>1, <2>1 DEF CommitCreate, data
    <3>2. CASE Done(c)
      BY <3>2, <2>1, DoneTypes DEF Types, data
    <3>3. CASE call' = [call EXCEPT ![c].op = "replay"]
      <4>1. [k EXCEPT !.op = "replay"] \in Request /\ [k EXCEPT !.op = "replay"].op = "replay"
        BY <1>0 DEF Request, Ops
      <4>2. call' = [call EXCEPT ![c] = [k EXCEPT !.op = "replay"]]
        BY <3>3 DEF Types
      <4> QED
        BY <4>1, <4>2, <2>1 DEF Types, data
    <3> QED
      BY <3>1, <3>2, <3>3
  <2>2. CASE ~UNCHANGED data
    <3>1. PICK p \in Posts, n \in 1..MaxPosts :
              /\ Done(c)
              /\ post' = [post EXCEPT ![p] = NewRow(call[c], n)]
              /\ member' = [member EXCEPT ![call[c].user] = IF @ = "none" THEN "PARTICIPANT" ELSE @]
              /\ UNCHANGED <<thread, sub, player, blocked>>
      BY <1>1, <2>2 DEF CommitCreate
    <3>2. post' \in [Posts -> Row]
      BY <3>1, <1>0, NewRowType
    <3>3. member' \in [Users -> Roles]
      BY <3>1 DEF Types, Roles
    <3> QED
      BY <3>1, <3>2, <3>3, DoneTypes DEF Types
  <2> QED
    BY <2>1, <2>2
<1>2. CASE Replay(c)
  BY <1>2, DoneTypes DEF Types, Replay, data
<1>3. CASE CommitEdit(c)
  <2>1. post' \in [Posts -> Row]
    BY <1>3, <1>0, <1>k, EditedType DEF CommitEdit, Write, UnchangedSince, Live
  <2> QED
    BY <1>3, <2>1, DoneTypes DEF Types, CommitEdit, Write
<1>4. CASE CommitRemove(c)
  <2>1. post' \in [Posts -> Row]
    BY <1>4, <1>0, <1>k, RemovedType DEF CommitRemove, Write, Live
  <2> QED
    BY <1>4, <2>1, DoneTypes DEF Types, CommitRemove, Write
<1>5. CASE CommitPin(c)
  <2>1. ASSUME k.post \in Posts PROVE [post[k.post] EXCEPT !.pinned = k.flag] \in Row
    BY <1>0, <1>k, <2>1 DEF Row
  <2>2. post' \in [Posts -> Row]
    BY <1>5, <1>0, <2>1 DEF CommitPin, Write, Live
  <2> QED
    BY <1>5, <2>2, DoneTypes DEF Types, CommitPin, Write
<1>6. CASE CommitBody(c)
  <2>1. post' \in [Posts -> Row]
    BY <1>6, <1>0, BodyRowsType DEF CommitBody, Write
  <2> QED
    BY <1>6, <2>1, DoneTypes DEF Types, CommitBody, Write
<1>7. CASE CommitCreateSub(c)
  <2>1. post' \in [Posts -> Row]
    <3>1. \A s \in Subs : BodyRow(k, s, k.published) \in Row
      BY <1>0, <1>k, BodyRowType
    <3> QED
      BY <1>7, <1>0, <3>1 DEF CommitCreateSub
  <2>2. k.was \in Policies
    BY <1>7 DEF Types, CommitCreateSub, Running
  <2>3. sub' \in [Subs -> [status : {"none", "live", "deleted"}, policy : Policies]]
    BY <1>7, <2>2 DEF Types, CommitCreateSub
  <2> QED
    BY <1>7, <2>1, <2>3, DoneTypes DEF Types, CommitCreateSub
<1>8. CASE CommitRemoveSub(c)
  <2>1. \A p \in Posts : [post[p] EXCEPT !.pinned = FALSE] \in Row
    BY <1>0, UnpinnedType
  <2>2. post' \in [Posts -> Row]
    BY <1>8, <1>0, <2>1 DEF CommitRemoveSub
  <2>3. sub' \in [Subs -> [status : {"none", "live", "deleted"}, policy : Policies]]
    BY <1>8, <1>k DEF Types, CommitRemoveSub
  <2> QED
    BY <1>8, <2>2, <2>3, DoneTypes DEF Types, CommitRemoveSub
<1>9. CASE CommitPublish(c)
  <2>1. post' \in [Posts -> Row]
    BY <1>9, <1>0, SettledType DEF CommitPublish
  <2>2. thread' \in ThreadRow
    BY <1>9, <1>0, ThreadType DEF Types, CommitPublish
  <2> QED
    BY <1>9, <2>1, <2>2, DoneTypes DEF Types, CommitPublish
<1>10. CASE CommitSave(c)
  <2>1. post' \in [Posts -> Row]
    BY <1>10, <1>0, SettledType, SavedRowsType DEF CommitSave
  <2>2. (thread.published \/ k.flag) \in BOOLEAN
    BY <1>0, <1>k
  <2>3. thread' \in ThreadRow
    <3>1. [thread EXCEPT !.published = thread.published \/ k.flag, !.version = thread.version + 1] \in ThreadRow
      BY <2>2, ThreadType DEF Types
    <3>2. thread' \in {thread, [thread EXCEPT !.version = @ + 1, !.published = @ \/ k.flag]}
      BY <1>10 DEF CommitSave
    <3> QED
      BY <3>1, <3>2 DEF Types
  <2> QED
    BY <1>10, <2>1, <2>3, DoneTypes DEF Types, CommitSave
<1>11. CASE CommitRemoveThread(c)
  <2>1. Done(c)
    BY <1>11 DEF CommitRemoveThread
  <2>2. CASE Erase
    BY <2>1, <2>2, EraseTypes, DoneTypes DEF Types
  <2>3. CASE UNCHANGED data
    BY <2>1, <2>3, DoneTypes DEF Types, data
  <2>4. CASE /\ thread' = [thread EXCEPT !.status = "removed"]
             /\ post' = [p \in Posts |-> [post[p] EXCEPT !.pinned = FALSE]]
             /\ UNCHANGED <<sub, member, player, blocked>>
    <3>0. [thread EXCEPT !.status = "removed"] \in ThreadRow
      BY DEF Types, ThreadRow
    <3>1. \A p \in Posts : [post[p] EXCEPT !.pinned = FALSE] \in Row
      BY <1>0, UnpinnedType
    <3> QED
      BY <2>1, <2>4, <3>0, <3>1, DoneTypes DEF Types
  <2> QED
    BY <1>11, <2>2, <2>3, <2>4 DEF CommitRemoveThread
<1>12. CASE CommitInvite(c)
  <2>1. member' \in [Users -> Roles]
    BY <1>12, <1>k DEF Types, CommitInvite, Roles
  <2> QED
    BY <1>12, <2>1, DoneTypes DEF Types, CommitInvite
<1> QED
  BY <1>1, <1>2, <1>3, <1>4, <1>5, <1>6, <1>7, <1>8, <1>9, <1>10, <1>11, <1>12 DEF CommitNext

OtherNext == SetPolicy \/ SetVisibility \/ Cleanup \/ Join \/ UpdateMember \/ ExitMember \/ Block

\* So do the steps of one transaction.
LEMMA OtherTypes == ASSUME Types, OtherNext PROVE Types'
<1>o. Owner \in Users /\ Others \subseteq Users
  BY DEF Users
<1>1. CASE SetPolicy
  BY <1>1 DEF Types, SetPolicy, Occurs
<1>2. CASE SetVisibility
  <2>1. thread' \in ThreadRow
    <3>1. (~thread.private) \in BOOLEAN
      OBVIOUS
    <3>2. [thread EXCEPT !.private = ~thread.private, !.version = thread.version + 1] \in ThreadRow
      BY <3>1, ThreadType DEF Types
    <3> QED
      BY <1>2, <3>2 DEF SetVisibility
  <2> QED
    BY <1>2, <2>1 DEF Types, SetVisibility, Occurs
<1>3. CASE Cleanup
  BY <1>3, EraseTypes DEF Types, Cleanup, Occurs
<1>4. CASE Join
  BY <1>4, <1>o DEF Types, Join, Occurs, Roles
<1>5. CASE UpdateMember
  BY <1>5, <1>o DEF Types, UpdateMember, Occurs, Roles
<1>6. CASE ExitMember
  BY <1>6, <1>o DEF Types, ExitMember, Occurs
<1>7. CASE Block
  BY <1>7 DEF Types, Block, Occurs
<1> QED
  BY <1>1, <1>2, <1>3, <1>4, <1>5, <1>6, <1>7 DEF OtherNext

\* The types hold at first and are kept by every step.
LEMMA TypesInductive == (Init => Types) /\ (Types /\ [Next]_vars => Types')
<1>1. ASSUME Init PROVE Types
  <2>1. Idle \in Request /\ Idle.op # "create-sub"
    BY DEF Idle, Request, Ops, Users, Subs
  <2>2. NoPost \in Row
    BY DEF NoPost, Row, Users, Subs
  <2>3. \A t \in Texts : [NoPost EXCEPT !.status = "live", !.kind = "BODY", !.text = t, !.version = 1] \in Row
    BY <2>2 DEF Row
  <2>4. /\ NoSub \in [status : {"none", "live", "deleted"}, policy : Policies]
        /\ [NoSub EXCEPT !.status = "live"] \in [status : {"none", "live", "deleted"}, policy : Policies]
    BY DEF NoSub
  <2>5. post \in [Posts -> Row]
    <3>1. CASE post = [p \in Posts |-> NoPost]
      BY <2>2, <3>1
    <3>2. CASE \E t \in Texts : post = [p \in Posts |-> IF p = 1 THEN [NoPost EXCEPT !.status = "live", !.kind = "BODY",
                                                   !.text = t, !.version = 1] ELSE NoPost]
      BY <2>2, <2>3, <3>2
    <3> QED
      BY <1>1, <3>1, <3>2 DEF Init
  <2>6. sub \in [Subs -> [status : {"none", "live", "deleted"}, policy : Policies]]
    BY <1>1, <2>4 DEF Init
  <2>7. thread \in ThreadRow
    <3> DEFINE private == "invite" \in load.ops
    <3>1. private \in BOOLEAN
      OBVIOUS
    <3>2. thread \in [status : {"live"}, published : {FALSE}, private : {FALSE, private}, version : {1}]
      BY <1>1 DEF Init
    <3>3. {FALSE, private} \subseteq BOOLEAN
      BY <3>1, Zenon
    <3> HIDE DEF private
    <3>4. thread.private \in BOOLEAN
      BY <3>2, <3>3
    <3>5. /\ thread.status = "live" /\ thread.version = 1 /\ thread.published = FALSE
          /\ thread = [status |-> thread.status, published |-> thread.published,
                       private |-> thread.private, version |-> thread.version]
      BY <3>2
    <3>6. \A a, b \in BOOLEAN : [status |-> "live", published |-> a, private |-> b, version |-> 1] \in ThreadRow
      BY DEF ThreadRow
    <3> QED
      BY <3>4, <3>5, <3>6
  <2> QED
    BY <1>1, <2>1, <2>5, <2>6, <2>7 DEF Init, Types, Roles, Users
<1>2. ASSUME Types, [Next]_vars PROVE Types'
  <2>1. CASE UNCHANGED vars
    BY <1>2, <2>1 DEF Types, vars
  <2>2. ASSUME NEW c \in Calls, BeginNext(c) PROVE Types'
    BY <1>2, <2>2, BegunTypes, BeginTypes
  <2>3. ASSUME NEW c \in Calls, CommitNext(c) PROVE Types'
    BY <1>2, <2>3, CommitTypes
  <2>4. CASE OtherNext
    BY <1>2, <2>4, OtherTypes
  <2> QED
    BY <1>2, <2>1, <2>2, <2>3, <2>4 DEF Next, BeginNext, CommitNext, OtherNext
<1> QED
  BY <1>1, <1>2

-----------------------------------------------------------------------------
(* What no step undoes *)

\* A row keeps what it is.
Same(old, new) == /\ new.kind = old.kind /\ new.sub = old.sub /\ new.parent = old.parent
                  /\ new.author = old.author /\ new.req = old.req

KeepRows(old, new) == \A p \in Posts : old[p].status # "none" => new[p].status # "none" /\ Same(old[p], new[p])

\* Published stays published, gone stays gone, and while the thread exists nothing created is forgotten.
Kept ==
    /\ thread.published => thread'.published
    /\ thread.status = "gone" => thread'.status = "gone"
    /\ thread'.status # "gone" =>
        /\ KeepRows(post, post')
        /\ \A s \in Subs : sub[s].status # "none" => sub'[s].status # "none"
        /\ member[Owner] = "OWNER" => member'[Owner] = "OWNER"

\* The rows that replace others keep what they are.
LEMMA EditedSame ==
    ASSUME NEW row \in Row, NEW text, NEW published
    PROVE  Same(row, Edited(row, text, published)) /\ Edited(row, text, published).status = row.status
BY DEF Row, Same, Edited

LEMMA PinSame ==
    ASSUME NEW row \in Row, NEW b
    PROVE  Same(row, [row EXCEPT !.pinned = b]) /\ [row EXCEPT !.pinned = b].status = row.status
BY DEF Row, Same

LEMMA RemovedSame ==
    ASSUME NEW row \in Row
    PROVE  Same(row, Removed(row)) /\ Removed(row).status = "deleted"
BY DEF Row, Same, Removed

\* Replacing one row by one that is still there and keeps what it is.
LEMMA KeepOne ==
    ASSUME post \in [Posts -> Row], NEW p \in Posts, NEW row,
           post[p].status # "none" => row.status # "none" /\ Same(post[p], row)
    PROVE  KeepRows(post, [post EXCEPT ![p] = row])
<1>1. [post EXCEPT ![p] = row][p] = row
  OBVIOUS
<1>2. \A q \in Posts \ {p} : [post EXCEPT ![p] = row][q] = post[q]
  OBVIOUS
<1>3. \A q \in Posts : Same(post[q], post[q])
  BY DEF Same
<1> QED
  BY <1>1, <1>2, <1>3 DEF KeepRows

\* Publication keeps every row.
LEMMA SettledKeeps ==
    ASSUME NEW rows \in [Posts -> Row], NEW p \in Posts
    PROVE  /\ Same(rows[p], Settled(rows)[p])
           /\ Settled(rows)[p].status = rows[p].status
           /\ Settled(rows)[p].pinned = rows[p].pinned
           /\ Settled(rows)[p].announced =
                  IF rows[p].status = "live" /\ LiveSub(rows[p].sub) THEN rows[p].announced + 1 ELSE rows[p].announced
<1>1. rows[p] \in Row
  OBVIOUS
<1> QED
  BY <1>1 DEF Settled, Row, Same

\* A save edits the body or adds one where there was no row.
LEMMA SavedRowsKeep ==
    ASSUME Types, NEW k \in Request, NEW rows \in SavedRows(k)
    PROVE  \E p \in Posts :
              \/ /\ post[p].status = "none" /\ Bodies(1) = {}
                 /\ rows = [post EXCEPT ![p] = BodyRow(k, 1, thread.published)]
              \/ /\ Live(p) /\ Same(post[p], rows[p])
                 /\ \/ rows = post
                    \/ rows = [post EXCEPT ![p] = Edited(post[p], k.text, thread.published)]
<1>1. CASE Bodies(1) = {}
  <2>1. PICK p \in Posts : Fresh(p) /\ rows = [post EXCEPT ![p] = BodyRow(k, 1, thread.published)]
    BY <1>1 DEF SavedRows
  <2> QED
    BY <1>1, <2>1 DEF Fresh, Created
<1>2. CASE Bodies(1) # {}
  <2>1. PICK p \in Bodies(1) :
            rows = [post EXCEPT ![p] = IF @.text = k.text THEN @ ELSE Edited(@, k.text, thread.published)]
    BY <1>2 DEF SavedRows
  <2>2. p \in Posts /\ Live(p) /\ post \in [Posts -> Row] /\ post[p] \in Row
    BY DEF Bodies, Types
  <2>3. CASE post[p].text = k.text
    <3>1. rows = post
      BY <2>1, <2>2, <2>3
    <3> QED
      BY <2>2, <3>1 DEF Same
  <2>4. CASE post[p].text # k.text
    <3>1. rows = [post EXCEPT ![p] = Edited(post[p], k.text, thread.published)]
      BY <2>1, <2>2, <2>4
    <3>2. rows[p] = Edited(post[p], k.text, thread.published)
      BY <2>2, <3>1
    <3>3. Same(post[p], rows[p])
      BY <2>2, <3>2, EditedSame
    <3> QED
      BY <2>2, <3>1, <3>3
  <2> QED
    BY <2>3, <2>4
<1> QED
  BY <1>1, <1>2

\* The rows after upsertBody: an edited body, or a new one where there was none.
LEMMA BodyRowsKeep ==
    ASSUME Types, NEW k \in Request, NEW rows \in BodyRows(k)
    PROVE  /\ CanManage(k.user)
           /\ \/ /\ Live(k.post) /\ k.post \in Posts /\ post[k.post].version = k.version
                 /\ rows = [post EXCEPT ![k.post] = Edited(post[k.post], k.text, k.published)]
              \/ \E p \in Posts : /\ post[p].status = "none" /\ Bodies(k.sub) = {}
                                  /\ rows = [post EXCEPT ![p] = BodyRow(k, k.sub, k.published)]
BY DEF BodyRows, UnchangedSince, Live, Fresh, Created, Bodyless

\* No step undoes what Kept names.
LEMMA StepsKeep == ASSUME Types, [Next]_vars PROVE Kept
<1>p. post \in [Posts -> Row] /\ \A p \in Posts : post[p] \in Row
  BY DEF Types
<1>s. \A p \in Posts : Same(post[p], post[p])
  BY DEF Same
<1>o. Owner \in Users
  BY DEF Users
<1>1. CASE UNCHANGED data
  BY <1>1, <1>s DEF Kept, KeepRows, data
<1>2. CASE Erase
  BY <1>2 DEF Kept, Erase, Types, ThreadRow
<1>3. ASSUME NEW c \in Calls, CommitNext(c), ~UNCHANGED data, ~Erase PROVE Kept
  <2> DEFINE k == call[c]
  <2>k. k \in Request /\ k.published \in BOOLEAN /\ k.flag \in BOOLEAN
    BY DEF Types, Request
  <2>1. CASE CommitCreate(c)
    <3>1. PICK p \in Posts, n \in 1..MaxPosts :
              /\ Fresh(p)
              /\ post' = [post EXCEPT ![p] = NewRow(k, n)]
              /\ member' = [member EXCEPT ![k.user] = IF @ = "none" THEN "PARTICIPANT" ELSE @]
              /\ UNCHANGED <<thread, sub, player, blocked>>
      BY <2>1, <1>3 DEF CommitCreate
    <3>2. post[p].status = "none" /\ \A q \in Posts \ {p} : post'[q] = post[q]
      BY <3>1, <1>p DEF Fresh, Created
    <3>3. member[Owner] = "OWNER" => member'[Owner] = "OWNER"
      BY <3>1, <1>o DEF Types
    <3> QED
      BY <3>1, <3>2, <3>3, <1>s DEF Kept, KeepRows
  <2>2. CASE Replay(c)
    BY <2>2, <1>3 DEF Replay
  <2>3. CASE CommitEdit(c)
    <3>1. PICK p \in Posts : post' = [post EXCEPT ![p] = Edited(post[p], k.text, k.published)] /\ Live(p)
      BY <2>3, <1>3, <1>p DEF CommitEdit, Write, UnchangedSince, Live, data
    <3>2. KeepRows(post, post')
      BY <3>1, <1>p, EditedSame, KeepOne, Zenon DEF Live
    <3> QED
      BY <2>3, <3>2 DEF Kept, CommitEdit, Write
  <2>4. CASE CommitRemove(c)
    <3>1. PICK p \in Posts : post' = [post EXCEPT ![p] = Removed(post[p])] /\ Live(p)
      BY <2>4, <1>3, <1>p DEF CommitRemove, Write, Live, data
    <3>2. Removed(post[p]).status # "none" /\ Same(post[p], Removed(post[p]))
      BY <1>p, RemovedSame
    <3>3. KeepRows(post, post')
      BY <3>1, <3>2, <1>p, KeepOne, Zenon
    <3> QED
      BY <2>4, <3>3 DEF Kept, CommitRemove, Write
  <2>5. CASE CommitPin(c)
    <3>1. PICK p \in Posts : post' = [post EXCEPT ![p] = [post[p] EXCEPT !.pinned = k.flag]] /\ Live(p)
      BY <2>5, <1>3, <1>p DEF CommitPin, Write, Live, data
    <3>2. KeepRows(post, post')
      BY <3>1, <1>p, PinSame, KeepOne, Zenon DEF Live
    <3> QED
      BY <2>5, <3>2 DEF Kept, CommitPin, Write
  <2>6. CASE CommitBody(c)
    <3>1. post' \in BodyRows(k)
      BY <2>6, <1>3 DEF CommitBody, Write, data
    <3>2. KeepRows(post, post')
      <4>1. CASE /\ Live(k.post) /\ k.post \in Posts
                 /\ post' = [post EXCEPT ![k.post] = Edited(post[k.post], k.text, k.published)]
        <5>1. PICK p \in Posts : p = k.post
          BY <4>1
        <5>2. Live(p) /\ post' = [post EXCEPT ![p] = Edited(post[p], k.text, k.published)]
          BY <4>1, <5>1
        <5> QED
          BY <5>2, <1>p, EditedSame, KeepOne, Zenon DEF Live
      <4>2. ASSUME NEW p \in Posts, post[p].status = "none",
                   post' = [post EXCEPT ![p] = BodyRow(k, k.sub, k.published)]
            PROVE  KeepRows(post, post')
        BY <4>2, <1>p, <1>s DEF KeepRows
      <4> QED
        BY <3>1, <4>1, <4>2, <2>k, BodyRowsKeep
    <3> QED
      BY <2>6, <3>2 DEF Kept, CommitBody, Write
  <2>7. CASE CommitCreateSub(c)
    <3>1. KeepRows(post, post')
      <4>1. CASE UNCHANGED post
        BY <4>1, <1>s DEF KeepRows
      <4>2. CASE ~UNCHANGED post
        <5>1. PICK p \in Posts, s \in Subs : post[p].status = "none" /\ post' = [post EXCEPT ![p] = BodyRow(k, s, k.published)]
          BY <2>7, <4>2 DEF CommitCreateSub, Fresh, Created
        <5> QED
          BY <5>1, <1>p, <1>s DEF KeepRows
      <4> QED
        BY <4>1, <4>2
    <3>2. \A s \in Subs : sub[s].status # "none" => sub'[s].status # "none"
      BY <2>7 DEF CommitCreateSub, FreshSub, Types
    <3> QED
      BY <2>7, <3>1, <3>2 DEF Kept, CommitCreateSub
  <2>8. CASE CommitRemoveSub(c)
    <3>1. KeepRows(post, post')
      <4>1. \A p \in Posts : post'[p] \in {post[p], [post[p] EXCEPT !.pinned = FALSE]}
        BY <2>8, <1>p DEF CommitRemoveSub
      <4>2. \A p \in Posts : post[p].status # "none" => post'[p].status # "none" /\ Same(post[p], post'[p])
        BY <4>1, <1>p, <1>s DEF Same, Row
      <4> QED
        BY <4>2 DEF KeepRows
    <3>2. \A s \in Subs : sub[s].status # "none" => sub'[s].status # "none"
      BY <2>8 DEF CommitRemoveSub, Types
    <3> QED
      BY <2>8, <3>1, <3>2 DEF Kept, CommitRemoveSub
  <2>9. CASE CommitPublish(c)
    <3>1. KeepRows(post, post')
      BY <2>9, <1>p, <1>s, SettledKeeps DEF CommitPublish, KeepRows
    <3>2. /\ thread.published => thread'.published
          /\ thread.status = "gone" => thread'.status = "gone"
      BY <2>9 DEF CommitPublish, Types, ThreadRow
    <3> QED
      BY <2>9, <3>1, <3>2 DEF Kept, CommitPublish
  <2>10. CASE CommitSave(c)
    <3>1. PICK rows \in SavedRows(k) :
              /\ post' = IF k.flag THEN Settled(rows) ELSE rows
              /\ thread' = [thread EXCEPT !.version = @ + 1, !.published = @ \/ k.flag]
      BY <2>10, <1>3 DEF CommitSave, data
    <3>2. rows \in [Posts -> Row]
      BY <2>k, SavedRowsType
    <3>3. KeepRows(post, rows)
      <4>1. PICK p \in Posts :
              \/ /\ post[p].status = "none"
                 /\ rows = [post EXCEPT ![p] = BodyRow(k, 1, thread.published)]
              \/ /\ Live(p) /\ Same(post[p], rows[p])
                 /\ \/ rows = post
                    \/ rows = [post EXCEPT ![p] = Edited(post[p], k.text, thread.published)]
        BY <2>k, SavedRowsKeep
      <4>2. CASE rows = post
        BY <4>2, <1>s DEF KeepRows
      <4>3. CASE post[p].status = "none" /\ rows = [post EXCEPT ![p] = BodyRow(k, 1, thread.published)]
        BY <4>3, <1>p, KeepOne, Zenon
      <4>4. CASE Live(p) /\ rows = [post EXCEPT ![p] = Edited(post[p], k.text, thread.published)]
        BY <4>4, <1>p, EditedSame, KeepOne, Zenon DEF Live
      <4> QED
        BY <4>1, <4>2, <4>3, <4>4
    <3>4. KeepRows(post, post')
      <4>1. \A p \in Posts : Same(rows[p], post'[p]) /\ post'[p].status = rows[p].status
        BY <3>1, <3>2, SettledKeeps DEF Same
      <4> QED
        BY <3>3, <4>1 DEF KeepRows, Same
    <3>5. /\ thread.published => thread'.published
          /\ thread.status = "gone" => thread'.status = "gone"
      BY <3>1 DEF Types, ThreadRow
    <3> QED
      BY <2>10, <3>4, <3>5 DEF Kept, CommitSave
  <2>11. CASE CommitRemoveThread(c)
    <3>1. /\ thread.status = "live"
          /\ thread' = [thread EXCEPT !.status = "removed"]
          /\ post' = [p \in Posts |-> [post[p] EXCEPT !.pinned = FALSE]]
          /\ UNCHANGED <<sub, member, player, blocked>>
      BY <2>11, <1>3 DEF CommitRemoveThread
    <3>2. \A p \in Posts : post'[p] = [post[p] EXCEPT !.pinned = FALSE]
      BY <3>1
    <3>4. ASSUME NEW p \in Posts, post[p].status # "none"
          PROVE  post'[p].status # "none" /\ Same(post[p], post'[p])
      <4>1. Same(post[p], [post[p] EXCEPT !.pinned = FALSE])
            /\ [post[p] EXCEPT !.pinned = FALSE].status = post[p].status
        BY <1>p, PinSame, Zenon
      <4> QED
        BY <3>2, <3>4, <4>1
    <3>5. KeepRows(post, post')
      BY <3>4 DEF KeepRows
    <3>3. thread'.published = thread.published
      BY <3>1 DEF Types, ThreadRow
    <3> QED
      BY <3>1, <3>5, <3>3 DEF Kept
  <2>12. CASE CommitInvite(c)
    <3>1. member[Owner] = "OWNER" => member'[Owner] = "OWNER"
      BY <2>12, <1>o DEF CommitInvite, Types
    <3> QED
      BY <2>12, <3>1, <1>s DEF Kept, KeepRows, CommitInvite
  <2> QED
    BY <1>3, <2>1, <2>2, <2>3, <2>4, <2>5, <2>6, <2>7, <2>8, <2>9, <2>10, <2>11, <2>12 DEF CommitNext
<1>4. CASE OtherNext /\ ~Erase
  <2>1. thread'.published = thread.published /\ thread'.status = thread.status
    BY <1>4 DEF OtherNext, SetPolicy, SetVisibility, Cleanup, Join, UpdateMember, ExitMember, Block, Types, ThreadRow
  <2>2. UNCHANGED post
    BY <1>4 DEF OtherNext, SetPolicy, SetVisibility, Cleanup, Join, UpdateMember, ExitMember, Block
  <2>3. \A s \in Subs : sub'[s].status = sub[s].status
    BY <1>4 DEF OtherNext, SetPolicy, SetVisibility, Cleanup, Join, UpdateMember, ExitMember, Block, Types
  <2>4. member'[Owner] = member[Owner]
    BY <1>4, <1>o DEF OtherNext, SetPolicy, SetVisibility, Cleanup, Join, UpdateMember, ExitMember, Block, Types
  <2> QED
    BY <2>1, <2>2, <2>3, <2>4, <1>s DEF Kept, KeepRows
<1>5. ASSUME NEW c \in Calls, BeginNext(c) PROVE UNCHANGED data
  BY <1>5, BegunTypes DEF Begin
<1>6. UNCHANGED vars => UNCHANGED data
  BY DEF vars, data
<1> QED
  BY <1>1, <1>2, <1>3, <1>4, <1>5, <1>6 DEF Next, BeginNext, CommitNext, OtherNext

-----------------------------------------------------------------------------
(* What holds of the rows                                                  *)

SubRows == [Subs -> [status : {"none", "live", "deleted"}, policy : Policies]]
PinnedOf(rows, s) == {p \in Posts : rows[p].status = "live" /\ rows[p].pinned /\ rows[p].sub = s /\ rows[p].parent = 0}

\* Announced at most once, before publication never, after it every live floor that can be seen.
Announced(rows, subs, published) ==
    \A p \in Posts :
        /\ rows[p].announced <= 1
        /\ ~published => rows[p].announced = 0
        /\ published /\ rows[p].status = "live" /\ rows[p].kind = "FLOOR" /\ subs[rows[p].sub].status = "live"
               => rows[p].announced = 1

\* A live post has its subthread, if only a deleted one.
Housed(rows, subs) == \A p \in Posts : rows[p].status = "live" => subs[rows[p].sub].status # "none"

OneBody(rows) ==
    \A p, q \in Posts :
        rows[p].status = "live" /\ rows[q].status = "live" /\ rows[p].kind = "BODY" /\ rows[q].kind = "BODY"
        /\ rows[p].sub = rows[q].sub => p = q

PinsLive(rows) == \A p \in Posts : rows[p].pinned => rows[p].status = "live" /\ rows[p].kind = "FLOOR"
PinsFew(rows) == \A s \in Subs : Cardinality(PinnedOf(rows, s)) <= MaxPinned

Good(rows, subs, published) ==
    /\ Announced(rows, subs, published)
    /\ Housed(rows, subs)
    /\ OneBody(rows)
    /\ PinsLive(rows)
    /\ PinsFew(rows)

\* Sets of posts are finite, and a smaller one has no more members.
LEMMA PostsFinite ==
    ASSUME NEW A \in SUBSET Posts, NEW B \in SUBSET A
    PROVE  IsFiniteSet(A) /\ IsFiniteSet(B) /\ Cardinality(A) \in Nat /\ Cardinality(B) \in Nat
           /\ Cardinality(B) <= Cardinality(A)
<1>1. IsFiniteSet(Posts)
  BY FS_Interval DEF Posts
<1>2. IsFiniteSet(A) /\ IsFiniteSet(B)
  BY <1>1, FS_Subset
<1> QED
  BY <1>2, FS_CardinalityType, FS_Subset

\* A change that creates, announces and pins nothing.
LEMMA GoodMild ==
    ASSUME NEW rows \in [Posts -> Row], NEW new \in [Posts -> Row], NEW subs \in SubRows, NEW nsubs \in SubRows,
           NEW published, Good(rows, subs, published),
           \A p \in Posts : new[p].status = "live" => rows[p].status = "live" /\ Same(rows[p], new[p]),
           \A p \in Posts : new[p].announced = rows[p].announced,
           \A p \in Posts : new[p].pinned => rows[p].pinned /\ new[p].status = rows[p].status,
           \A s \in Subs : /\ nsubs[s].status = "live" => subs[s].status = "live"
                           /\ subs[s].status # "none" => nsubs[s].status # "none"
    PROVE  Good(new, nsubs, published)
<1>r. \A p \in Posts : rows[p] \in Row /\ new[p] \in Row /\ rows[p].sub \in Subs /\ new[p].sub \in Subs
  BY DEF Row
<1>1. Announced(new, nsubs, published)
  BY <1>r DEF Good, Announced, Same
<1>2. Housed(new, nsubs)
  BY <1>r DEF Good, Housed, Same
<1>3. OneBody(new)
  <2> SUFFICES ASSUME NEW p \in Posts, NEW q \in Posts, new[p].status = "live", new[q].status = "live",
                      new[p].kind = "BODY", new[q].kind = "BODY", new[p].sub = new[q].sub
               PROVE  p = q
    BY DEF OneBody
  <2>1. /\ rows[p].status = "live" /\ rows[q].status = "live"
        /\ rows[p].kind = "BODY" /\ rows[q].kind = "BODY" /\ rows[p].sub = rows[q].sub
    BY DEF Same
  <2>2. OneBody(rows)
    BY DEF Good
  <2> QED
    BY <2>1, <2>2, Zenon DEF OneBody
<1>4. PinsLive(new)
  BY DEF Good, PinsLive, Same
<1>5. PinsFew(new)
  <2> SUFFICES ASSUME NEW s \in Subs PROVE Cardinality(PinnedOf(new, s)) <= MaxPinned
    BY DEF PinsFew
  <2>1. PinnedOf(new, s) \subseteq PinnedOf(rows, s)
    BY DEF PinnedOf, Same
  <2>2. Cardinality(PinnedOf(rows, s)) <= MaxPinned
    BY DEF Good, PinsFew
  <2>3. PinnedOf(rows, s) \in SUBSET Posts
    BY DEF PinnedOf
  <2> QED
    BY <2>1, <2>2, <2>3, PostsFinite
<1> QED
  BY <1>1, <1>2, <1>3, <1>4, <1>5 DEF Good

\* A new row: a floor, or the body of a subthread that has none.
Addable(row, nsubs) ==
    /\ row.status = "live" /\ ~row.pinned
    /\ row.announced <= 1
    /\ ~thread.published => row.announced = 0
    /\ thread.published /\ row.kind = "FLOOR" => row.announced = 1
    /\ nsubs[row.sub].status # "none"
    /\ row.kind = "BODY" => \A q \in Posts : ~(post[q].status = "live" /\ post[q].kind = "BODY" /\ post[q].sub = row.sub)
    /\ \A s \in Subs : sub[s].status # "none" => nsubs[s].status = sub[s].status

LEMMA AddableFloor ==
    ASSUME NEW row, row.status = "live", ~row.pinned, row.kind = "FLOOR", row.announced <= 1,
           ~thread.published => row.announced = 0, thread.published => row.announced = 1,
           sub[row.sub].status # "none"
    PROVE  Addable(row, sub)
BY DEF Addable

LEMMA AddableBody ==
    ASSUME NEW row, NEW nsubs, row.status = "live", ~row.pinned, row.kind = "BODY", row.announced <= 1,
           ~thread.published => row.announced = 0, nsubs[row.sub].status # "none",
           \A q \in Posts : ~(post[q].status = "live" /\ post[q].kind = "BODY" /\ post[q].sub = row.sub),
           \A s \in Subs : sub[s].status # "none" => nsubs[s].status = sub[s].status
    PROVE  Addable(row, nsubs)
BY DEF Addable

LEMMA GoodAdd ==
    ASSUME Types, Good(post, sub, thread.published), NEW p \in Posts, NEW row \in Row, NEW nsubs \in SubRows,
           Addable(row, nsubs)
    PROVE  Good([post EXCEPT ![p] = row], nsubs, thread.published)
<1> DEFINE new == [post EXCEPT ![p] = row]
<1>t. post \in [Posts -> Row] /\ sub \in SubRows /\ thread.published \in BOOLEAN
  BY DEF Types, SubRows, ThreadRow
<1>r. \A q \in Posts : post[q] \in Row /\ post[q].sub \in Subs
  BY <1>t DEF Row
<1>n. new[p] = row /\ \A q \in Posts \ {p} : new[q] = post[q]
  BY <1>t
<1> HIDE DEF new
<1>1. Announced(new, nsubs, thread.published)
  BY <1>t, <1>r, <1>n DEF Good, Announced, Housed, Addable
<1>2. Housed(new, nsubs)
  BY <1>r, <1>n DEF Good, Housed, Addable
<1>3. OneBody(new)
  <2> SUFFICES ASSUME NEW a \in Posts, NEW b \in Posts, new[a].status = "live", new[b].status = "live",
                      new[a].kind = "BODY", new[b].kind = "BODY", new[a].sub = new[b].sub
               PROVE  a = b
    BY DEF OneBody
  <2>1. CASE a # p /\ b # p
    <3>1. new[a] = post[a] /\ new[b] = post[b]
      BY <1>n, <2>1
    <3>2. OneBody(post)
      BY DEF Good
    <3> QED
      BY <3>1, <3>2, Zenon DEF OneBody
  <2>2. CASE a = p
    BY <1>n, <2>2 DEF Addable
  <2>3. CASE b = p
    BY <1>n, <2>3 DEF Addable
  <2> QED
    BY <2>1, <2>2, <2>3
<1>4. PinsLive(new)
  BY <1>n DEF Good, PinsLive, Addable
<1>5. PinsFew(new)
  <2> SUFFICES ASSUME NEW s \in Subs PROVE Cardinality(PinnedOf(new, s)) <= MaxPinned
    BY DEF PinsFew
  <2>1. PinnedOf(new, s) \subseteq PinnedOf(post, s)
    BY <1>n DEF PinnedOf, Addable
  <2>2. Cardinality(PinnedOf(post, s)) <= MaxPinned
    BY DEF Good, PinsFew
  <2>3. PinnedOf(post, s) \in SUBSET Posts
    BY DEF PinnedOf
  <2> QED
    BY <2>1, <2>2, <2>3, PostsFinite
<1>6. Good(new, nsubs, thread.published)
  BY <1>1, <1>2, <1>3, <1>4, <1>5 DEF Good
<1> QED
  BY <1>6 DEF new

\* One pin more, counted before.
LEMMA GoodPin ==
    ASSUME Types, Good(post, sub, thread.published), NEW p \in Posts, Live(p), post[p].kind = "FLOOR", MayPin(p)
    PROVE  Good([post EXCEPT ![p] = [post[p] EXCEPT !.pinned = TRUE]], sub, thread.published)
<1> DEFINE row == [post[p] EXCEPT !.pinned = TRUE]
           new == [post EXCEPT ![p] = row]
<1>r. post \in [Posts -> Row] /\ \A q \in Posts : post[q] \in Row /\ post[q].sub \in Subs
  BY DEF Types, Row
<1>s. Same(post[p], row) /\ row.status = "live" /\ row.announced = post[p].announced
  BY <1>r DEF Live, Same, Row
<1>n. new[p] = row /\ \A q \in Posts \ {p} : new[q] = post[q]
  BY <1>r
<1> HIDE DEF new, row
<1>1. Announced(new, sub, thread.published)
  BY <1>s, <1>n DEF Good, Announced, Same, Live
<1>2. Housed(new, sub)
  BY <1>s, <1>n DEF Good, Housed, Same, Live
<1>3. OneBody(new)
  BY <1>s, <1>n DEF Good, OneBody, Same, Live
<1>4. PinsLive(new)
  BY <1>s, <1>n DEF Good, PinsLive, Same
<1>5. PinsFew(new)
  <2> SUFFICES ASSUME NEW s \in Subs PROVE Cardinality(PinnedOf(new, s)) <= MaxPinned
    BY DEF PinsFew
  <2>1. PinnedOf(post, s) \in SUBSET Posts /\ Cardinality(PinnedOf(post, s)) <= MaxPinned
    BY DEF Good, PinsFew, PinnedOf
  <2>2. IsFiniteSet(PinnedOf(post, s)) /\ Cardinality(PinnedOf(post, s)) \in Nat
    BY <2>1, PostsFinite
  <2>3. CASE s = post[p].sub
    <3>1. PinnedOf(post, s) = Pinned(s)
      BY DEF PinnedOf, Pinned, Live
    <3>2. Cardinality(PinnedOf(post, s)) < MaxPinned
      BY <2>3, <3>1 DEF MayPin
    <3>3. PinnedOf(new, s) \subseteq PinnedOf(post, s) \union {p}
      BY <1>n DEF PinnedOf
    <3>4. Cardinality(PinnedOf(post, s) \union {p}) <= Cardinality(PinnedOf(post, s)) + 1
      <4>1. Cardinality(PinnedOf(post, s) \union {p}) = IF p \in PinnedOf(post, s)
              THEN Cardinality(PinnedOf(post, s)) ELSE Cardinality(PinnedOf(post, s)) + 1
        BY <2>2, FS_AddElement, Zenon
      <4> QED
        BY <2>2, <4>1
    <3>5. Cardinality(PinnedOf(new, s)) <= Cardinality(PinnedOf(post, s) \union {p})
      <4>1. PinnedOf(post, s) \union {p} \in SUBSET Posts
        BY <2>1
      <4> QED
        BY <3>3, <4>1, PostsFinite
    <3>6. Cardinality(PinnedOf(new, s)) \in Nat /\ Cardinality(PinnedOf(post, s) \union {p}) \in Nat
      <4>1. PinnedOf(post, s) \union {p} \in SUBSET Posts
        BY <2>1
      <4> QED
        BY <3>3, <4>1, PostsFinite
    <3> QED
      BY <2>2, <3>2, <3>4, <3>5, <3>6, PostingAssumption
  <2>4. CASE s # post[p].sub
    <3>1. PinnedOf(new, s) \subseteq PinnedOf(post, s)
      BY <2>4, <1>s, <1>n DEF PinnedOf, Same
    <3> QED
      BY <2>1, <3>1, PostsFinite
  <2> QED
    BY <2>3, <2>4
<1>6. Good(new, sub, thread.published)
  BY <1>1, <1>2, <1>3, <1>4, <1>5 DEF Good
<1> QED
  BY <1>6 DEF new, row

\* Publication announces what was never announced.
LEMMA GoodSettle ==
    ASSUME NEW rows \in [Posts -> Row], sub \in SubRows, Good(rows, sub, FALSE)
    PROVE  Good(Settled(rows), sub, TRUE)
<1> DEFINE new == Settled(rows)
<1>s. \A p \in Posts :
         /\ Same(rows[p], new[p]) /\ new[p].status = rows[p].status /\ new[p].pinned = rows[p].pinned
         /\ new[p].announced = IF rows[p].status = "live" /\ LiveSub(rows[p].sub)
                               THEN rows[p].announced + 1 ELSE rows[p].announced
  BY SettledKeeps
<1>a. \A p \in Posts : rows[p].announced = 0
  BY DEF Good, Announced
<1> HIDE DEF new
<1>1. Announced(new, sub, TRUE)
  BY <1>s, <1>a DEF Announced, Same, LiveSub
<1>2. Housed(new, sub)
  BY <1>s DEF Good, Housed, Same
<1>3. OneBody(new)
  BY <1>s DEF Good, OneBody, Same
<1>4. PinsLive(new)
  BY <1>s DEF Good, PinsLive, Same
<1>5. PinsFew(new)
  <2>1. \A s \in Subs : PinnedOf(new, s) = PinnedOf(rows, s)
    BY <1>s DEF PinnedOf, Same
  <2> QED
    BY <2>1 DEF Good, PinsFew
<1>6. Good(new, sub, TRUE)
  BY <1>1, <1>2, <1>3, <1>4, <1>5 DEF Good
<1> QED
  BY <1>6 DEF new

\* Nothing holds of what is erased.
LEMMA GoodErased ==
    ASSUME NEW subs, NEW published PROVE Good([p \in Posts |-> NoPost], subs, published)
<1> DEFINE new == [p \in Posts |-> NoPost]
<1>n. \A p \in Posts : /\ new[p].status = "none" /\ new[p].announced = 0
                       /\ ~new[p].pinned
  BY DEF NoPost
<1> HIDE DEF new
<1>1. PinsFew(new)
  <2>1. \A s \in Subs : PinnedOf(new, s) = {}
    BY <1>n DEF PinnedOf
  <2> QED
    BY <2>1, FS_EmptySet, PostingAssumption DEF PinsFew
<1>2. Announced(new, subs, published)
  <2>1. \A p \in Posts : new[p].announced <= 1
    BY <1>n
  <2> QED
    BY <1>n, <2>1, Zenon DEF Announced
<1>3. Housed(new, subs) /\ OneBody(new) /\ PinsLive(new)
  BY <1>n, Zenon DEF Housed, OneBody, PinsLive
<1>4. Good(new, subs, published)
  BY <1>1, <1>2, <1>3 DEF Good
<1> QED
  BY <1>4 DEF new

\* A row replaced by one that is no livelier.
LEMMA GoodReplace ==
    ASSUME Types, Good(post, sub, thread.published), NEW p \in Posts, NEW row \in Row, Same(post[p], row),
           row.status = post[p].status \/ (row.status # "live" /\ ~row.pinned),
           row.announced = post[p].announced, row.pinned => post[p].pinned
    PROVE  Good([post EXCEPT ![p] = row], sub, thread.published)
<1> DEFINE new == [post EXCEPT ![p] = row]
<1>1. post \in [Posts -> Row] /\ new \in [Posts -> Row] /\ sub \in SubRows
  BY DEF Types, SubRows
<1>2. new[p] = row /\ \A q \in Posts \ {p} : new[q] = post[q]
  BY <1>1
<1> HIDE DEF new
<1>3. \A q \in Posts : new[q].status = "live" => post[q].status = "live" /\ Same(post[q], new[q])
  BY <1>2 DEF Same
<1>4. \A q \in Posts : new[q].announced = post[q].announced
  BY <1>2
<1>5. \A q \in Posts : new[q].pinned => post[q].pinned /\ new[q].status = post[q].status
  <2>1. row.pinned => post[p].pinned /\ row.status = post[p].status
    OBVIOUS
  <2> QED
    BY <1>2, <2>1, Zenon
<1>6. Good(new, sub, thread.published)
  BY <1>1, <1>3, <1>4, <1>5, GoodMild
<1> QED
  BY <1>6 DEF new

-----------------------------------------------------------------------------
(* The inductive invariant *)

\* What a request saw that is still true.
TrueIn(k, th, subs, rows) ==
    /\ k.published => th.published
    /\ k.op = "pin" /\ th.status # "gone" =>
           k.post \in Posts /\ rows[k.post].status # "none" /\ rows[k.post].kind = "FLOOR"
    /\ k.op = "body" /\ th.status # "gone" => subs[k.sub].status # "none"
    /\ k.op = "replay" /\ th.status # "gone" =>
           k.req # NoReq /\ \E p \in Posts : rows[p].status # "none" /\ rows[p].req = k.req /\ rows[p].author = k.user

CallTrue(k) == TrueIn(k, thread, sub, post)

Inv ==
    /\ Types
    /\ Good(post, sub, thread.published)
    /\ thread.status # "gone" => sub[1].status # "none" /\ member[Owner] = "OWNER"
    /\ \A c \in Calls : CallTrue(call[c])

\* The thread starts as a draft with at most a body.
LEMMA InvInit == ASSUME Init PROVE Inv
<1>1. Types
  BY TypesInductive
<1>2. Good(post, sub, thread.published)
  <2>1. thread.published = FALSE
    BY DEF Init
  <2>2. sub \in SubRows /\ 1 \in Subs /\ sub[1].status = "live"
    <3>1. 1 \in Subs
      BY DEF Subs
    <3> QED
      BY <1>1, <3>1 DEF Types, SubRows, Init, NoSub
  <2>3. CASE post = [p \in Posts |-> NoPost]
    BY <2>3, GoodErased
  <2>4. CASE \E t \in Texts : post = [p \in Posts |-> IF p = 1 THEN [NoPost EXCEPT !.status = "live", !.kind = "BODY",
                                                   !.text = t, !.version = 1] ELSE NoPost]
    <3>1. PICK t \in Texts : post = [p \in Posts |-> IF p = 1 THEN [NoPost EXCEPT !.status = "live", !.kind = "BODY",
                                                   !.text = t, !.version = 1] ELSE NoPost]
      BY <2>4
    <3>2. \A p \in Posts : /\ post[p].announced = 0 /\ ~post[p].pinned /\ post[p].sub = 1
                           /\ post[p].status \in {"none", "live"}
                           /\ p # 1 => post[p].status = "none"
      BY <3>1 DEF NoPost
    <3>3. \A p \in Posts : post[p].announced <= 1
      BY <3>2
    <3>4. PinsFew(post)
      <4>1. \A s \in Subs : PinnedOf(post, s) = {}
        BY <3>2 DEF PinnedOf
      <4> QED
        BY <4>1, FS_EmptySet, PostingAssumption DEF PinsFew
    <3>5. Announced(post, sub, thread.published)
      BY <2>1, <3>2, <3>3, Zenon DEF Announced
    <3>6. Housed(post, sub) /\ OneBody(post) /\ PinsLive(post)
      BY <2>2, <3>2 DEF Housed, OneBody, PinsLive
    <3> QED
      BY <3>4, <3>5, <3>6 DEF Good
  <2> QED
    BY <2>3, <2>4 DEF Init
<1>3. sub[1].status # "none" /\ member[Owner] = "OWNER"
  <2>1. 1 \in Subs /\ Owner \in Users
    BY DEF Users, Subs
  <2>2. sub[1] = [NoSub EXCEPT !.status = "live"]
    BY <2>1 DEF Init
  <2>3. member[Owner] = "OWNER"
    BY <2>1 DEF Init
  <2> QED
    BY <2>2, <2>3 DEF NoSub
<1>4. \A c \in Calls : CallTrue(call[c])
  BY DEF Init, CallTrue, TrueIn, Idle
<1> QED
  BY <1>1, <1>2, <1>3, <1>4 DEF Inv

\* One commit keeps the rows good.
LEMMA GoodCommits ==
    ASSUME Inv, NEW c \in Calls, CommitNext(c), Types', Kept, ~Erase
    PROVE  Good(post', sub', thread'.published)
<1> DEFINE k == call[c]
<1>k. /\ k \in Request /\ k.published \in BOOLEAN /\ k.flag \in BOOLEAN /\ k.sub \in Subs
      /\ k.text \in Words /\ CallTrue(k)
  BY DEF Inv, Types, Request, Words
<1>t. /\ Types /\ post \in [Posts -> Row] /\ post' \in [Posts -> Row] /\ sub \in SubRows /\ sub' \in SubRows
      /\ thread.published \in BOOLEAN /\ Good(post, sub, thread.published) /\ 1 \in Subs
  BY DEF Inv, Types, ThreadRow, SubRows, Subs
<1>r. \A p \in Posts : post[p] \in Row
  BY <1>t
<1>0. CASE UNCHANGED <<post, sub, thread>>
  BY <1>t, <1>0
<1>1. CASE CommitCreate(c) /\ ~UNCHANGED data
  <2>1. PICK p \in Posts, n \in 1..MaxPosts :
            /\ LiveSub(k.sub)
            /\ post' = [post EXCEPT ![p] = NewRow(k, n)]
            /\ UNCHANGED <<thread, sub>>
    BY <1>1 DEF CommitCreate, Admitted
  <2> DEFINE row == NewRow(k, n)
  <2>2. row \in Row
    BY <1>k, <1>t, NewRowType
  <2>3. /\ row.status = "live" /\ ~row.pinned /\ row.kind = "FLOOR" /\ row.sub = k.sub
    BY DEF NewRow, NoPost
  <2>4. /\ row.announced <= 1
        /\ ~thread.published => row.announced = 0
        /\ thread.published => row.announced = 1
    <3>1. row.announced = IF thread.published THEN 1 ELSE 0
      BY DEF NewRow, NoPost
    <3> QED
      BY <1>t, <3>1
  <2>5. sub[row.sub].status # "none"
    BY <2>1, <2>3 DEF LiveSub
  <2> HIDE DEF row
  <2>6. Addable(row, sub)
    BY <2>3, <2>4, <2>5, AddableFloor
  <2>7. Good([post EXCEPT ![p] = row], sub, thread.published)
    BY <1>t, <2>2, <2>6, GoodAdd
  <2> QED
    BY <2>1, <2>7 DEF row
<1>2. CASE CommitEdit(c) /\ ~UNCHANGED data
  <2>1. /\ k.post \in Posts /\ UNCHANGED <<thread, sub>>
        /\ post' = [post EXCEPT ![k.post] = Edited(post[k.post], k.text, k.published)]
    BY <1>2, <1>t DEF CommitEdit, Write, UnchangedSince, Live, data
  <2>2. Edited(post[k.post], k.text, k.published) \in Row
    BY <1>k, <1>t, <2>1, EditedType
  <2>3. /\ Same(post[k.post], Edited(post[k.post], k.text, k.published))
        /\ Edited(post[k.post], k.text, k.published).status = post[k.post].status
    BY <1>t, <2>1, EditedSame
  <2>4. /\ Edited(post[k.post], k.text, k.published).announced = post[k.post].announced
        /\ Edited(post[k.post], k.text, k.published).pinned = post[k.post].pinned
    BY <1>r, <2>1 DEF Edited, Row
  <2>5. Good([post EXCEPT ![k.post] = Edited(post[k.post], k.text, k.published)], sub, thread.published)
    BY <1>t, <2>1, <2>2, <2>3, <2>4, GoodReplace, Zenon
  <2> QED
    BY <2>1, <2>5
<1>3. CASE CommitRemove(c) /\ ~UNCHANGED data
  <2>1. /\ k.post \in Posts /\ UNCHANGED <<thread, sub>>
        /\ post' = [post EXCEPT ![k.post] = Removed(post[k.post])]
    BY <1>3, <1>t DEF CommitRemove, Write, Live, data
  <2>2. Removed(post[k.post]) \in Row
    BY <1>t, <2>1, RemovedType
  <2>3. Same(post[k.post], Removed(post[k.post])) /\ Removed(post[k.post]).status # "live"
    BY <1>t, <2>1, RemovedSame
  <2>4. Removed(post[k.post]).announced = post[k.post].announced /\ ~Removed(post[k.post]).pinned
    BY <1>r, <2>1 DEF Removed, Row
  <2>5. Good([post EXCEPT ![k.post] = Removed(post[k.post])], sub, thread.published)
    BY <1>t, <2>1, <2>2, <2>3, <2>4, GoodReplace, Zenon
  <2> QED
    BY <2>1, <2>5
<1>4. CASE CommitPin(c) /\ ~UNCHANGED data
  <2>1. /\ k.post \in Posts /\ Live(k.post) /\ (k.flag => MayPin(k.post)) /\ UNCHANGED <<thread, sub>>
        /\ thread.status # "gone" /\ k.op = "pin"
        /\ post' = [post EXCEPT ![k.post] = [post[k.post] EXCEPT !.pinned = k.flag]]
    BY <1>4, <1>t DEF CommitPin, Running, Write, CanManage, Accessible, Live, data
  <2>2. post[k.post].kind = "FLOOR"
    BY <1>k, <2>1 DEF CallTrue, TrueIn
  <2>3. CASE k.flag = TRUE
    BY <1>t, <2>1, <2>2, <2>3, GoodPin
  <2>4. CASE k.flag = FALSE
    <3>1. [post[k.post] EXCEPT !.pinned = FALSE] \in Row
      BY <1>r, <2>1, UnpinnedType
    <3>2. /\ Same(post[k.post], [post[k.post] EXCEPT !.pinned = FALSE])
          /\ [post[k.post] EXCEPT !.pinned = FALSE].status = post[k.post].status
      BY <1>r, <2>1, PinSame
    <3>3. /\ [post[k.post] EXCEPT !.pinned = FALSE].announced = post[k.post].announced
          /\ ~[post[k.post] EXCEPT !.pinned = FALSE].pinned
      BY <1>r, <2>1 DEF Row
    <3>4. Good([post EXCEPT ![k.post] = [post[k.post] EXCEPT !.pinned = FALSE]], sub, thread.published)
      BY <1>t, <2>1, <3>1, <3>2, <3>3, GoodReplace, Zenon
    <3> QED
      BY <2>1, <2>4, <3>4
  <2> QED
    BY <1>k, <2>3, <2>4
<1>b. ASSUME NEW p \in Posts, NEW s \in Subs, NEW published \in BOOLEAN, published => thread.published,
             sub'[s].status # "none",
             \A q \in Posts : ~(post[q].status = "live" /\ post[q].kind = "BODY" /\ post[q].sub = s),
             \A r \in Subs : sub[r].status # "none" => sub'[r].status = sub[r].status,
             post' = [post EXCEPT ![p] = BodyRow(k, s, published)]
      PROVE  Good(post', sub', thread.published)
  <2> DEFINE row == BodyRow(k, s, published)
  <2>1. row \in Row
    BY <1>b, <1>k, BodyRowType
  <2>2. /\ row.status = "live" /\ ~row.pinned /\ row.kind = "BODY" /\ row.sub = s
    BY DEF BodyRow, NoPost
  <2>3. row.announced <= 1 /\ (~thread.published => row.announced = 0)
    <3>1. row.announced = IF published THEN 1 ELSE 0
      BY DEF BodyRow, NoPost
    <3> QED
      BY <1>b, <3>1
  <2> HIDE DEF row
  <2>4. thread.published /\ row.kind = "FLOOR" => row.announced = 1
    BY <2>2
  <2>5. Addable(row, sub')
    <3>1. sub'[row.sub].status # "none"
      BY <1>b, <2>2
    <3>2. \A q \in Posts : ~(post[q].status = "live" /\ post[q].kind = "BODY" /\ post[q].sub = row.sub)
      BY <1>b, <2>2
    <3>3. \A r \in Subs : sub[r].status # "none" => sub'[r].status = sub[r].status
      BY <1>b
    <3> QED
      BY <2>2, <2>3, <3>1, <3>2, <3>3, AddableBody
  <2>6. Good([post EXCEPT ![p] = row], sub', thread.published)
    BY <1>t, <2>1, <2>5, GoodAdd
  <2> QED
    BY <1>b, <2>6 DEF row
<1>5. CASE CommitBody(c) /\ ~UNCHANGED data
  <2>1. post' \in BodyRows(k) /\ UNCHANGED <<thread, sub>> /\ k.op = "body"
    BY <1>5 DEF CommitBody, Running, Write, data
  <2>2. CASE /\ Live(k.post) /\ k.post \in Posts
             /\ post' = [post EXCEPT ![k.post] = Edited(post[k.post], k.text, k.published)]
    <3>2. Edited(post[k.post], k.text, k.published) \in Row
      BY <1>k, <1>t, <2>2, EditedType
    <3>3. /\ Same(post[k.post], Edited(post[k.post], k.text, k.published))
          /\ Edited(post[k.post], k.text, k.published).status = post[k.post].status
      BY <1>t, <2>2, EditedSame
    <3>4. /\ Edited(post[k.post], k.text, k.published).announced = post[k.post].announced
          /\ Edited(post[k.post], k.text, k.published).pinned = post[k.post].pinned
      BY <1>r, <2>2 DEF Edited, Row
    <3>5. Good([post EXCEPT ![k.post] = Edited(post[k.post], k.text, k.published)], sub, thread.published)
      BY <1>t, <2>2, <3>2, <3>3, <3>4, GoodReplace, Zenon
    <3> QED
      BY <2>1, <2>2, <3>5
  <2>3. ASSUME NEW p \in Posts, Bodies(k.sub) = {}, CanManage(k.user),
               post' = [post EXCEPT ![p] = BodyRow(k, k.sub, k.published)]
        PROVE  Good(post', sub', thread'.published)
    <3>1. sub[k.sub].status # "none"
      BY <1>k, <2>1, <2>3 DEF CallTrue, TrueIn, CanManage, Accessible
    <3>2. \A q \in Posts : ~(post[q].status = "live" /\ post[q].kind = "BODY" /\ post[q].sub = k.sub)
      BY <2>3 DEF Bodies, Live
    <3>3. k.published => thread.published
      BY <1>k DEF CallTrue, TrueIn
    <3> QED
      BY <1>k, <1>b, <2>1, <2>3, <3>1, <3>2, <3>3
  <2> QED
    BY <1>k, <1>t, <2>1, <2>2, <2>3, BodyRowsKeep
<1>6. CASE CommitCreateSub(c) /\ ~UNCHANGED data
  <2>1. PICK s \in Subs :
            /\ sub[s].status = "none" /\ UNCHANGED thread
            /\ sub' = [sub EXCEPT ![s] = [status |-> "live", policy |-> k.was]]
            /\ \/ \E p \in Posts : post' = [post EXCEPT ![p] = BodyRow(k, s, k.published)]
               \/ UNCHANGED post
    BY <1>6 DEF CommitCreateSub, FreshSub, data
  <2>2. \A q \in Posts : ~(post[q].status = "live" /\ post[q].sub = s)
    BY <1>t, <2>1 DEF Good, Housed
  <2>3. /\ sub'[s].status # "none"
        /\ \A r \in Subs : sub[r].status # "none" => sub'[r].status = sub[r].status
    BY <1>t, <2>1 DEF SubRows
  <2>4. CASE UNCHANGED post
    <3>1. Announced(post, sub', thread.published)
      BY <1>t, <1>r, <2>2, <2>3 DEF Good, Announced, Housed, Row
    <3>2. Housed(post, sub')
      BY <1>t, <1>r, <2>2, <2>3 DEF Good, Housed, Row
    <3> QED
      BY <1>t, <2>1, <2>4, <3>1, <3>2 DEF Good
  <2>5. ASSUME NEW p \in Posts, post' = [post EXCEPT ![p] = BodyRow(k, s, k.published)]
        PROVE  Good(post', sub', thread'.published)
    <3>1. k.published => thread.published
      BY <1>k DEF CallTrue, TrueIn
    <3>2. \A q \in Posts : ~(post[q].status = "live" /\ post[q].kind = "BODY" /\ post[q].sub = s)
      BY <2>2
    <3>3. Good(post', sub', thread.published)
      BY <1>k, <1>b, <2>3, <2>5, <3>1, <3>2, Zenon
    <3> QED
      BY <2>1, <3>3
  <2> QED
    BY <2>1, <2>4, <2>5
<1>7. CASE CommitRemoveSub(c) /\ ~UNCHANGED data
  <2>1. /\ UNCHANGED thread
        /\ sub' = [sub EXCEPT ![k.sub].status = "deleted"]
        /\ \A p \in Posts : post'[p] = post[p] \/ post'[p] = [post[p] EXCEPT !.pinned = FALSE]
    BY <1>7 DEF CommitRemoveSub, data
  <2>2. ASSUME NEW p \in Posts
        PROVE  /\ Same(post[p], post'[p]) /\ post'[p].status = post[p].status
               /\ post'[p].announced = post[p].announced
               /\ post'[p].pinned => post[p].pinned
    <3>1. CASE post'[p] = post[p]
      BY <3>1 DEF Same
    <3>2. CASE post'[p] = [post[p] EXCEPT !.pinned = FALSE]
      BY <1>r, <3>2 DEF Same, Row
    <3> QED
      BY <2>1, <3>1, <3>2
  <2>3. \A s \in Subs : /\ sub'[s].status = "live" => sub[s].status = "live"
                        /\ sub[s].status # "none" => sub'[s].status # "none"
    BY <1>t, <2>1 DEF SubRows
  <2>4. Good(post', sub', thread.published)
    BY <1>t, <2>2, <2>3, GoodMild
  <2> QED
    BY <2>1, <2>4
<1>8. CASE CommitPublish(c) /\ ~UNCHANGED data
  <2>1. /\ thread.published = FALSE /\ UNCHANGED sub
        /\ post' = Settled(post)
        /\ thread' = [thread EXCEPT !.published = TRUE, !.version = @ + 1]
    BY <1>8, <1>t DEF CommitPublish, Publishable, data
  <2>2. thread'.published = TRUE
    BY <1>t, <2>1 DEF Types, ThreadRow
  <2> QED
    BY <1>t, <2>1, <2>2, GoodSettle
<1>9. CASE CommitSave(c) /\ ~UNCHANGED data
  <2>1. PICK rows \in SavedRows(k) :
            /\ post' = IF k.flag THEN Settled(rows) ELSE rows
            /\ thread' = [thread EXCEPT !.version = @ + 1, !.published = @ \/ k.flag]
            /\ k.flag => ~thread.published
            /\ thread.status # "gone"
            /\ UNCHANGED sub
    BY <1>9 DEF CommitSave, SaveAllowed, CanManage, Accessible, data
  <2>2. rows \in [Posts -> Row]
    BY <1>k, <1>t, SavedRowsType
  <2>3. Good(rows, sub, thread.published)
    <3>1. PICK p \in Posts :
             \/ /\ post[p].status = "none" /\ Bodies(1) = {}
                /\ rows = [post EXCEPT ![p] = BodyRow(k, 1, thread.published)]
             \/ /\ Live(p) /\ Same(post[p], rows[p])
                /\ \/ rows = post
                   \/ rows = [post EXCEPT ![p] = Edited(post[p], k.text, thread.published)]
      BY <1>k, <1>t, SavedRowsKeep
    <3>2. CASE Bodies(1) = {} /\ rows = [post EXCEPT ![p] = BodyRow(k, 1, thread.published)]
      <4> DEFINE row == BodyRow(k, 1, thread.published)
      <4>1. row \in Row
        BY <1>t, <1>k, BodyRowType
      <4>2. /\ row.status = "live" /\ ~row.pinned /\ row.kind = "BODY" /\ row.sub = 1
        BY DEF BodyRow, NoPost
      <4>3. row.announced <= 1 /\ (~thread.published => row.announced = 0)
        <5>1. row.announced = IF thread.published THEN 1 ELSE 0
          BY DEF BodyRow, NoPost
        <5> QED
          BY <5>1
      <4> HIDE DEF row
      <4>4. \A q \in Posts : ~(post[q].status = "live" /\ post[q].kind = "BODY" /\ post[q].sub = row.sub)
        BY <3>2, <4>2 DEF Bodies, Live
      <4>5. sub[row.sub].status # "none"
        BY <2>1, <4>2 DEF Inv
      <4>6. thread.published /\ row.kind = "FLOOR" => row.announced = 1
        BY <4>2
      <4>7. Addable(row, sub)
        BY <4>2, <4>3, <4>4, <4>5, AddableBody
      <4>8. Good([post EXCEPT ![p] = row], sub, thread.published)
        BY <1>t, <4>1, <4>7, GoodAdd
      <4> QED
        BY <3>2, <4>8 DEF row
    <3>3. CASE rows = post
      BY <1>t, <3>3
    <3>4. CASE rows = [post EXCEPT ![p] = Edited(post[p], k.text, thread.published)]
      <4> DEFINE row == Edited(post[p], k.text, thread.published)
      <4>1. row \in Row
        BY <1>k, <1>t, EditedType
      <4>2. Same(post[p], row) /\ row.status = post[p].status
        BY <1>t, EditedSame
      <4>3. row.announced = post[p].announced /\ row.pinned = post[p].pinned
        BY <1>r DEF Edited, Row
      <4> HIDE DEF row
      <4>4. Good([post EXCEPT ![p] = row], sub, thread.published)
        BY <1>t, <4>1, <4>2, <4>3, GoodReplace, Zenon
      <4> QED
        BY <3>4, <4>4 DEF row
    <3> QED
      BY <3>1, <3>2, <3>3, <3>4
  <2>4. CASE k.flag = TRUE
    <3>1. thread.published = FALSE /\ thread'.published = TRUE
      BY <1>t, <2>1, <2>4 DEF Types, ThreadRow
    <3> QED
      BY <1>t, <2>1, <2>2, <2>3, <2>4, <3>1, GoodSettle
  <2>5. CASE k.flag = FALSE
    <3>1. thread'.published = thread.published
      BY <1>t, <2>1, <2>5 DEF Types, ThreadRow
    <3> QED
      BY <2>1, <2>3, <2>5, <3>1
  <2> QED
    BY <1>k, <2>4, <2>5
<1>10. CASE CommitRemoveThread(c) /\ ~UNCHANGED data
  <2>1. /\ thread' = [thread EXCEPT !.status = "removed"] /\ UNCHANGED sub
        /\ post' = [p \in Posts |-> [post[p] EXCEPT !.pinned = FALSE]]
    BY <1>10 DEF CommitRemoveThread
  <2>2. ASSUME NEW p \in Posts
        PROVE  /\ Same(post[p], post'[p]) /\ post'[p].status = post[p].status
               /\ post'[p].announced = post[p].announced
               /\ ~post'[p].pinned
    <3>1. post'[p] = [post[p] EXCEPT !.pinned = FALSE]
      BY <2>1
    <3> QED
      BY <1>r, <3>1 DEF Same, Row
  <2>3. thread'.published = thread.published
    BY <1>t, <2>1 DEF Types, ThreadRow
  <2>4. Good(post', sub, thread.published)
    BY <1>t, <2>2, GoodMild
  <2> QED
    BY <2>1, <2>3, <2>4
<1>11. Replay(c) \/ CommitInvite(c) => UNCHANGED <<post, sub, thread>>
  BY DEF Replay, CommitInvite, data
<1>12. UNCHANGED data => UNCHANGED <<post, sub, thread>>
  BY DEF data
<1> QED
  BY <1>0, <1>1, <1>2, <1>3, <1>4, <1>5, <1>6, <1>7, <1>8, <1>9, <1>10, <1>11, <1>12 DEF CommitNext

\* Every step keeps the rows good.
LEMMA GoodSteps == ASSUME Inv, [Next]_vars, Types', Kept PROVE Good(post', sub', thread'.published)
<1>t. /\ Types /\ post \in [Posts -> Row] /\ post' \in [Posts -> Row] /\ sub \in SubRows /\ sub' \in SubRows
      /\ Good(post, sub, thread.published)
  BY DEF Inv, Types, SubRows
<1>1. CASE UNCHANGED <<post, sub>> /\ thread'.published = thread.published
  BY <1>t, <1>1
<1>2. CASE Erase
  <2>1. post' = [p \in Posts |-> NoPost]
    BY <1>2 DEF Erase
  <2> QED
    BY <2>1, GoodErased
<1>3. ASSUME NEW c \in Calls, BeginNext(c) PROVE UNCHANGED <<post, sub, thread>>
  BY <1>t, <1>3, BegunTypes DEF Begin, data
<1>4. ASSUME NEW c \in Calls, CommitNext(c), ~Erase PROVE Good(post', sub', thread'.published)
  BY <1>4, GoodCommits
<1>5. CASE SetPolicy
  <2>1. \A s \in Subs : sub'[s].status = sub[s].status
    BY <1>t, <1>5 DEF SetPolicy, SubRows
  <2>2. UNCHANGED <<post, thread>>
    BY <1>5 DEF SetPolicy
  <2>3. \A p \in Posts : Same(post[p], post'[p])
    BY <2>2 DEF Same
  <2>4. Good(post', sub', thread.published)
    BY <1>t, <2>1, <2>2, <2>3, GoodMild
  <2> QED
    BY <2>2, <2>4
<1>6. CASE SetVisibility
  <2>1. UNCHANGED <<post, sub>> /\ thread'.published = thread.published
    BY <1>6 DEF SetVisibility, Inv, Types, ThreadRow
  <2> QED
    BY <1>1, <2>1
<1>7. CASE Join \/ UpdateMember \/ ExitMember \/ Block
  <2>1. UNCHANGED <<post, sub, thread>>
    BY <1>7 DEF Join, UpdateMember, ExitMember, Block
  <2> QED
    BY <1>1, <2>1
<1>8. Cleanup => Erase
  BY DEF Cleanup
<1>9. UNCHANGED vars => UNCHANGED <<post, sub, thread>>
  BY DEF vars
<1> QED
  BY <1>1, <1>2, <1>3, <1>4, <1>5, <1>6, <1>7, <1>8, <1>9 DEF Next, BeginNext, CommitNext

\* What a request saw stays true while it waits.
LEMMA CallKept ==
    ASSUME Types, Types', NEW k \in Request, CallTrue(k), Kept
    PROVE  TrueIn(k, thread', sub', post')
<1>1. k.published => thread'.published
  BY DEF CallTrue, TrueIn, Kept
<1>2. ASSUME k.op = "pin", thread'.status # "gone"
      PROVE  k.post \in Posts /\ post'[k.post].status # "none" /\ post'[k.post].kind = "FLOOR"
  BY <1>2 DEF CallTrue, TrueIn, Kept, KeepRows, Same
<1>3. ASSUME k.op = "body", thread'.status # "gone" PROVE sub'[k.sub].status # "none"
  BY <1>3 DEF CallTrue, TrueIn, Kept, Request
<1>4. ASSUME k.op = "replay", thread'.status # "gone"
      PROVE  k.req # NoReq /\ \E p \in Posts : post'[p].status # "none" /\ post'[p].req = k.req /\ post'[p].author = k.user
  <2>1. PICK p \in Posts : post[p].status # "none" /\ post[p].req = k.req /\ post[p].author = k.user
    BY <1>4 DEF CallTrue, TrueIn, Kept
  <2>2. post'[p].status # "none" /\ Same(post[p], post'[p])
    BY <1>4, <2>1 DEF Kept, KeepRows
  <2> QED
    BY <1>4, <2>1, <2>2 DEF CallTrue, TrueIn, Kept, Same
<1> QED
  BY <1>1, <1>2, <1>3, <1>4 DEF TrueIn

\* A request that begins has just seen what it says.
LEMMA CallBegun ==
    ASSUME Inv, NEW c \in Calls, BeginNext(c), NEW k, Begin(c, k)
    PROVE  CallTrue(k)
<1>c. c \in Calls /\ call' = [call EXCEPT ![c] = k] /\ call \in [Calls -> Request]
  BY DEF Begin, Inv, Types
<1>k. call'[c] = k
  BY <1>c
<1>p. \A p \in Posts : post[p] \in Row
  BY DEF Inv, Types
<1>a. \A op, u : Ask(op, u).op = op /\ Ask(op, u).published = FALSE
  BY DEF Ask, Idle
<1>q. ASSUME k.op \notin {"pin", "body", "replay"}, k.published => thread.published PROVE CallTrue(k)
  BY <1>q DEF CallTrue, TrueIn
<1>e. \A x : Begin(c, x) => x = k
  BY <1>c, <1>k DEF Begin
<1>1a. CASE BeginCreate(c)
  <2>1. PICK u \in Users, s \in Subs, parent \in Created \union {0}, r \in Reqs \union {NoReq}, t \in Texts :
            k = [Ask("create", u) EXCEPT !.sub = s, !.post = parent, !.req = r, !.text = t]
    BY <1>1a, <1>e DEF BeginCreate
  <2>2. k.op = "create" /\ k.published = FALSE
    BY <2>1 DEF Ask, Idle
  <2> QED
    BY <2>2, <1>q
<1>1b. CASE BeginRemove(c)
  <2>1. PICK p \in Created, u \in Users :
            k = [Ask("remove", u) EXCEPT !.post = p]
    BY <1>1b, <1>e DEF BeginRemove
  <2>2. k.op = "remove" /\ k.published = FALSE
    BY <2>1 DEF Ask, Idle
  <2> QED
    BY <2>2, <1>q
<1>1c. CASE BeginCreateSub(c)
  <2>1. PICK u \in Users, pol \in Policies, t \in Texts, withBody \in BOOLEAN :
            k = [Ask("create-sub", u) EXCEPT !.text = t, !.flag = withBody, !.was = pol,
                                                !.published = thread.published]
    BY <1>1c, <1>e DEF BeginCreateSub
  <2>2. k.op = "create-sub" /\ k.published = thread.published
    BY <2>1 DEF Ask, Idle
  <2> QED
    BY <2>2, <1>q
<1>1d. CASE BeginEdit(c)
  <2>1. PICK p \in Created, t \in Texts :
            k = [Ask("edit", post[p].author) EXCEPT !.post = p, !.text = t, !.was = post[p].text,
                           !.published = thread.published, !.version = post[p].version]
    BY <1>1d, <1>e DEF BeginEdit
  <2>2. k.op = "edit" /\ k.published = thread.published
    BY <2>1 DEF Ask, Idle
  <2> QED
    BY <2>2, <1>q
<1>1e. CASE BeginRemoveSub(c)
  <2>1. PICK u \in Users, s \in Subs \ {1} :
            k = [Ask("remove-sub", u) EXCEPT !.sub = s]
    BY <1>1e, <1>e DEF BeginRemoveSub
  <2>2. k.op = "remove-sub" /\ k.published = FALSE
    BY <2>1 DEF Ask, Idle
  <2> QED
    BY <2>2, <1>q
<1>1f. CASE BeginPublish(c)
  <2>1. k = [Ask("publish", Owner) EXCEPT !.version = thread.version]
    BY <1>1f, <1>e DEF BeginPublish
  <2>2. k.op = "publish" /\ k.published = FALSE
    BY <2>1 DEF Ask, Idle
  <2> QED
    BY <2>2, <1>q
<1>1g. CASE BeginSave(c)
  <2>1. PICK u \in Users, t \in Texts, publishing \in BOOLEAN, p \in Posts \union {0} :
            k = [Ask("save", u) EXCEPT !.post = p, !.text = t, !.flag = publishing,
                         !.version = thread.version, !.bodyVersion = IF p = 0 THEN 0 ELSE post[p].version]
    BY <1>1g, <1>e DEF BeginSave
  <2>2. k.op = "save" /\ k.published = FALSE
    <3> DEFINE v == IF p = 0 THEN 0 ELSE post[p].version
    <3>1. k = [Ask("save", u) EXCEPT !.post = p, !.text = t, !.flag = publishing,
                         !.version = thread.version, !.bodyVersion = v]
      BY <2>1
    <3> HIDE DEF v
    <3> QED
      BY <3>1 DEF Ask, Idle
  <2> QED
    BY <2>2, <1>q
<1>1h. CASE BeginRemoveThread(c)
  <2>1. k = [Ask("remove-thread", Owner) EXCEPT !.published = thread.published]
    BY <1>1h, <1>e DEF BeginRemoveThread
  <2>2. k.op = "remove-thread" /\ k.published = thread.published
    BY <2>1 DEF Ask, Idle
  <2> QED
    BY <2>2, <1>q
<1>1i. CASE BeginInvite(c)
  <2>1. PICK u \in Others :
            k = Ask("invite", u)
    BY <1>1i, <1>e DEF BeginInvite
  <2>2. k.op = "invite" /\ k.published = FALSE
    BY <2>1 DEF Ask, Idle
  <2> QED
    BY <2>2, <1>q
<1>2. CASE BeginPin(c)
  <2>1. PICK p \in Created, u \in Users, pin \in BOOLEAN :
            Live(p) /\ post[p].kind = "FLOOR" /\ Begin(c, [Ask("pin", u) EXCEPT !.post = p, !.flag = pin])
    BY <1>2 DEF BeginPin
  <2>2. k = [Ask("pin", u) EXCEPT !.post = p, !.flag = pin]
    BY <2>1, <1>c, <1>k DEF Begin
  <2>3. k.op = "pin" /\ k.post = p /\ k.published = FALSE
    BY <2>2 DEF Ask, Idle
  <2> QED
    BY <2>1, <2>3 DEF CallTrue, TrueIn, Live
<1>3. CASE BeginBody(c)
  <2>1. PICK s \in Subs, u \in Users, t \in Texts, p \in Posts \union {0} :
            LiveSub(s) /\ Begin(c, [Ask("body", u) EXCEPT !.sub = s, !.post = p, !.text = t, !.published = thread.published,
                           !.version = IF p = 0 THEN 0 ELSE post[p].version])
    BY <1>3 DEF BeginBody
  <2> DEFINE v == IF p = 0 THEN 0 ELSE post[p].version
  <2>2. k = [Ask("body", u) EXCEPT !.sub = s, !.post = p, !.text = t, !.published = thread.published, !.version = v]
    BY <2>1, <1>c, <1>k DEF Begin
  <2> HIDE DEF v
  <2>3. k.op = "body" /\ k.sub = s /\ k.published = thread.published
    BY <2>2 DEF Ask, Idle
  <2> QED
    BY <2>1, <2>3 DEF CallTrue, TrueIn, LiveSub
<1> QED
  BY <1>1a, <1>1b, <1>1c, <1>1d, <1>1e, <1>1f, <1>1g, <1>1h, <1>1i, <1>2, <1>3 DEF BeginNext

\* A commit ends its request, or leaves a replay that an earlier post explains.
LEMMA CallEnds ==
    ASSUME Inv, NEW c \in Calls, CommitNext(c)
    PROVE  \/ call' = [call EXCEPT ![c] = Idle]
           \/ /\ UNCHANGED data
              /\ call' = [call EXCEPT ![c].op = "replay"]
              /\ CallTrue([call[c] EXCEPT !.op = "replay"])
<1>c. call[c] \in Request /\ CallTrue(call[c])
  BY DEF Inv, Types
<1>1. CASE CommitCreate(c)
  <2>1. CASE Done(c)
    BY <2>1 DEF Done
  <2>2. CASE ~Done(c)
    <3>1. PICK n \in 1..MaxPosts :
              /\ NextNumber(n, call[c].sub, call[c].post) /\ Duplicate(call[c], n)
              /\ call' = [call EXCEPT ![c].op = "replay"] /\ UNCHANGED data
      BY <1>1, <2>2 DEF CommitCreate
    <3>2. ~\E p \in Scope(call[c].sub, call[c].post) : post[p].number = n
      <4> SUFFICES ASSUME NEW p \in Scope(call[c].sub, call[c].post), post[p].number = n PROVE FALSE
        OBVIOUS
      <4>1. post[p].number < n
        BY <3>1 DEF NextNumber
      <4> QED
        BY <4>1
    <3>3. call[c].req # NoReq /\ \E p \in Posts : post[p].status # "none" /\ post[p].author = call[c].user /\ post[p].req = call[c].req
      BY <3>1, <3>2 DEF Duplicate, Created
    <3> DEFINE k == [call[c] EXCEPT !.op = "replay"]
    <3>4. k.op = "replay" /\ k.req = call[c].req /\ k.user = call[c].user /\ k.published = call[c].published
      BY <1>c DEF Request
    <3> HIDE DEF k
    <3>5. CallTrue(k)
      BY <1>c, <3>3, <3>4 DEF CallTrue, TrueIn
    <3> QED
      BY <3>1, <3>5 DEF k
  <2> QED
    BY <2>1, <2>2
<1>2. CASE \/ Replay(c) \/ CommitEdit(c) \/ CommitRemove(c) \/ CommitPin(c) \/ CommitBody(c) \/ CommitCreateSub(c)
           \/ CommitRemoveSub(c) \/ CommitPublish(c) \/ CommitSave(c) \/ CommitRemoveThread(c) \/ CommitInvite(c)
  BY <1>2 DEF Replay, CommitEdit, CommitRemove, CommitPin, CommitBody, CommitCreateSub, CommitRemoveSub, CommitPublish,
     CommitSave, CommitRemoveThread, CommitInvite, Write, Done
<1> QED
  BY <1>1, <1>2 DEF CommitNext

\* Every step keeps every request's knowledge true.
LEMMA CallSteps == ASSUME Inv, [Next]_vars, Types', Kept PROVE \A c \in Calls : TrueIn(call'[c], thread', sub', post')
<1>t. Types /\ call \in [Calls -> Request] /\ \A c \in Calls : CallTrue(call[c])
  BY DEF Inv, Types
<1>k. \A k \in Request : CallTrue(k) => TrueIn(k, thread', sub', post')
  BY <1>t, CallKept
<1>o. \A c \in Calls : TrueIn(call[c], thread', sub', post')
  BY <1>t, <1>k
<1>i. TrueIn(Idle, thread', sub', post')
  BY DEF TrueIn, Idle
<1>1. CASE UNCHANGED call
  BY <1>o, <1>1
<1>2. ASSUME NEW c \in Calls, BeginNext(c) PROVE \A d \in Calls : TrueIn(call'[d], thread', sub', post')
  <2>1. PICK k \in Request : Begin(c, k)
    BY <1>t, <1>2, BegunTypes
  <2>2. CallTrue(k)
    BY <1>2, <2>1, CallBegun
  <2>3. TrueIn(k, thread', sub', post')
    BY <1>k, <2>2
  <2>4. call' = [call EXCEPT ![c] = k]
    BY <2>1 DEF Begin
  <2>5. \A d \in Calls : call'[d] = k \/ call'[d] = call[d]
    BY <1>t, <2>4
  <2> QED
    BY <1>o, <2>3, <2>5
<1>3. ASSUME NEW c \in Calls, CommitNext(c) PROVE \A d \in Calls : TrueIn(call'[d], thread', sub', post')
  <2>1. CASE call' = [call EXCEPT ![c] = Idle]
    <3>1. \A d \in Calls : call'[d] = Idle \/ call'[d] = call[d]
      BY <1>t, <2>1
    <3> QED
      BY <1>i, <1>o, <3>1
  <2>2. CASE /\ UNCHANGED data
             /\ call' = [call EXCEPT ![c].op = "replay"]
             /\ CallTrue([call[c] EXCEPT !.op = "replay"])
    <3> DEFINE k == [call[c] EXCEPT !.op = "replay"]
    <3>1. CallTrue(k) /\ k \in Request
      BY <1>t, <2>2 DEF Request, Ops
    <3>2. \A d \in Calls : call'[d] = k \/ call'[d] = call[d]
      BY <1>t, <2>2
    <3> HIDE DEF k
    <3>3. TrueIn(k, thread', sub', post')
      BY <1>k, <3>1
    <3> QED
      BY <1>o, <3>2, <3>3
  <2> QED
    BY <1>3, <2>1, <2>2, CallEnds
<1>4. CASE OtherNext \/ UNCHANGED vars
  <2>1. UNCHANGED call
    BY <1>4 DEF OtherNext, SetPolicy, SetVisibility, Cleanup, Join, UpdateMember, ExitMember, Block, Occurs, vars
  <2> QED
    BY <1>1, <2>1
<1> QED
  BY <1>2, <1>3, <1>4 DEF Next, BeginNext, CommitNext, OtherNext

\* Inv is inductive.
LEMMA InvInductive == (Init => Inv) /\ (Inv /\ [Next]_vars => Inv')
<1>1. ASSUME Inv, [Next]_vars PROVE Inv'
  <2>1. Types /\ Types'
    BY <1>1, TypesInductive DEF Inv
  <2>2. Kept
    BY <1>1, <2>1, StepsKeep
  <2>3. Good(post', sub', thread'.published)
    BY <1>1, <2>1, <2>2, GoodSteps
  <2>4. \A c \in Calls : TrueIn(call'[c], thread', sub', post')
    BY <1>1, <2>1, <2>2, CallSteps
  <2>5. thread'.status # "gone" => sub'[1].status # "none" /\ member'[Owner] = "OWNER"
    <3>1. 1 \in Subs
      BY DEF Subs
    <3> QED
      BY <1>1, <2>2, <3>1 DEF Inv, Kept
  <2>6. Good(post, sub, thread.published)'
    BY <2>3
  <2>7. (\A c \in Calls : CallTrue(call[c]))'
    BY <2>4 DEF CallTrue
  <2>8. (thread.status # "gone" => sub[1].status # "none" /\ member[Owner] = "OWNER")'
    BY <2>5
  <2> QED
    BY <2>1, <2>6, <2>7, <2>8 DEF Inv
<1> QED
  BY <1>1, InvInit

LEMMA InvHolds == Spec => []Inv
BY InvInductive, PTL DEF Spec

-----------------------------------------------------------------------------
(* Theorems                                                                *)

\* TypeOK: the shape of rows and requests; nothing deleted is pinned (posts.service.ts remove,
\* post-pin.service.ts).
THEOREM Typed == Spec => []TypeOK
<1>1. Inv => TypeOK
  BY DEF Inv, Types, TypeOK, ThreadRow, Good, PinsLive
<1> QED
  BY <1>1, InvHolds, PTL

\* A new post is refused by a unique index only when its author already sent this clientRequestId
\* (posts.service.ts create).
THEOREM RetriesConflict == Spec => []ConflictsAreRetries
<1>1. Inv => ConflictsAreRetries
  BY DEF Inv, CallTrue, TrueIn, ConflictsAreRetries, Created
<1> QED
  BY <1>1, InvHolds, PTL

\* After publication every live floor of a live subthread has been announced exactly once
\* (posts.service.ts create, thread-aggregate.service.ts settleDraftPosts).
THEOREM FloorsAreAnnounced == Spec => []FloorsAnnounced
<1>1. Inv => FloorsAnnounced
  BY DEF Inv, Good, Announced, FloorsAnnounced, Live, LiveSub
<1> QED
  BY <1>1, InvHolds, PTL

\* No subthread shows more pinned floors than the limit (post-pin.service.ts).
THEOREM FewPinned == Spec => []PinnedWithinLimit
<1>1. ASSUME Inv PROVE PinnedWithinLimit
  <2>1. \A s \in Subs : Pinned(s) = PinnedOf(post, s)
    BY DEF Pinned, PinnedOf, Live
  <2> QED
    BY <1>1, <2>1 DEF Inv, Good, PinsFew, PinnedWithinLimit
<1> QED
  BY <1>1, InvHolds, PTL

\* A subthread never has two live bodies (posts.service.ts upsertBody, thread-aggregate.service.ts save).
THEOREM OneBodyOnly == Spec => []OneBodyEach
<1>1. Inv => OneBodyEach
  BY DEF Inv, Good, OneBody, OneBodyEach, Live
<1> QED
  BY <1>1, InvHolds, PTL

-----------------------------------------------------------------------------
(* What a step does to one post *)

\* Publication keeps the words.
LEMMA SettledText ==
    ASSUME NEW rows \in [Posts -> Row], NEW p \in Posts
    PROVE  Settled(rows)[p].text = rows[p].text
<1>1. rows[p] \in Row
  OBVIOUS
<1> QED
  BY <1>1 DEF Settled, Row

\* Only create makes a floor, from a request that is admitted.
LEMMA FloorsCreated ==
    ASSUME Inv, [Next]_vars, NEW p \in Posts,
           post[p].status = "none", post'[p].status = "live", post'[p].kind = "FLOOR"
    PROVE  \E c \in Calls, n \in 1..MaxPosts : Admitted(call[c]) /\ post'[p] = NewRow(call[c], n)
<1>t. Types /\ post \in [Posts -> Row] /\ call \in [Calls -> Request] /\ \A q \in Posts : post[q] \in Row
  BY DEF Inv, Types
<1>b. \A k, s, published : BodyRow(k, s, published).kind = "BODY"
  BY DEF BodyRow, NoPost
<1>0. post'[p] # post[p]
  OBVIOUS
<1>1. ~UNCHANGED data /\ ~UNCHANGED post
  BY <1>0 DEF data
<1>2. ~Erase
  BY DEF Erase, NoPost
<1>3. PICK c \in Calls : CommitNext(c)
  <2>1. ~OtherNext
    BY <1>1, <1>2 DEF OtherNext, SetPolicy, SetVisibility, Cleanup, Join, UpdateMember, ExitMember, Block
  <2>2. \A c \in Calls : ~BeginNext(c)
    BY <1>t, <1>1, BegunTypes DEF Begin
  <2>3. ~UNCHANGED vars
    BY <1>1 DEF vars
  <2> QED
    BY <2>1, <2>2, <2>3 DEF Next, BeginNext, CommitNext, OtherNext
<1> DEFINE k == call[c]
<1>k. k \in Request
  BY <1>t
<1>4. CASE CommitCreate(c)
  <2>1. PICK q \in Posts, n \in 1..MaxPosts : Admitted(k) /\ post' = [post EXCEPT ![q] = NewRow(k, n)]
    BY <1>1, <1>4 DEF CommitCreate
  <2>2. p = q
    BY <1>0, <1>t, <2>1
  <2> QED
    BY <1>t, <2>1, <2>2
<1>5. CASE CommitEdit(c) \/ CommitRemove(c) \/ CommitPin(c)
  <2>1. PICK row : post' = [post EXCEPT ![k.post] = row] /\ Live(k.post)
    BY <1>1, <1>5 DEF CommitEdit, CommitRemove, CommitPin, Write, UnchangedSince, Live
  <2>2. k.post # p
    BY <2>1 DEF Live
  <2> QED
    BY <1>0, <1>t, <2>1, <2>2
<1>6. CASE CommitBody(c)
  <2>1. post' \in BodyRows(k)
    BY <1>1, <1>6 DEF CommitBody, Write
  <2>2. CASE Live(k.post) /\ post' = [post EXCEPT ![k.post] = Edited(post[k.post], k.text, k.published)]
    <3>1. k.post # p
      BY <2>2 DEF Live
    <3> QED
      BY <1>0, <1>t, <2>2, <3>1
  <2>3. ASSUME NEW q \in Posts, post' = [post EXCEPT ![q] = BodyRow(k, k.sub, k.published)] PROVE FALSE
    <3>1. post'[p] = post[p] \/ post'[p] = BodyRow(k, k.sub, k.published)
      BY <1>t, <2>3
    <3> QED
      BY <1>0, <1>b, <3>1
  <2> QED
    BY <1>k, <1>t, <2>1, <2>2, <2>3, BodyRowsKeep
<1>7. CASE CommitCreateSub(c)
  <2>1. PICK q \in Posts, s \in Subs : post' = [post EXCEPT ![q] = BodyRow(k, s, k.published)]
    BY <1>1, <1>7 DEF CommitCreateSub
  <2>2. post'[p] = post[p] \/ post'[p] = BodyRow(k, s, k.published)
    BY <1>t, <2>1
  <2> QED
    BY <1>0, <1>b, <2>2
<1>8. CASE CommitRemoveSub(c) \/ CommitRemoveThread(c)
  <2>1. post'[p] = [post[p] EXCEPT !.pinned = FALSE]
    BY <1>0, <1>1, <1>2, <1>8 DEF CommitRemoveSub, CommitRemoveThread, data
  <2> QED
    BY <1>t, <2>1, PinSame
<1>9. CASE CommitPublish(c)
  <2>1. post' = Settled(post)
    BY <1>1, <1>9 DEF CommitPublish
  <2> QED
    BY <1>t, <2>1, SettledKeeps
<1>10. CASE CommitSave(c)
  <2>1. PICK rows \in SavedRows(k) : post' = IF k.flag THEN Settled(rows) ELSE rows
    BY <1>1, <1>10 DEF CommitSave
  <2>2. rows \in [Posts -> Row]
    BY <1>k, <1>t, <2>1, SavedRowsType
  <2>3. rows[p].status = "live" /\ rows[p].kind = "FLOOR"
    <3>1. CASE k.flag
      BY <2>1, <2>2, <3>1, SettledKeeps DEF Same
    <3>2. CASE ~k.flag
      BY <2>1, <3>2
    <3> QED
      BY <3>1, <3>2
  <2>4. PICK q \in Posts :
             \/ rows = [post EXCEPT ![q] = BodyRow(k, 1, thread.published)]
             \/ Live(q) /\ (rows = post \/ rows = [post EXCEPT ![q] = Edited(post[q], k.text, thread.published)])
    BY <1>k, <1>t, <2>1, SavedRowsKeep
  <2>5. CASE rows = [post EXCEPT ![q] = BodyRow(k, 1, thread.published)]
    <3>1. rows[p] = post[p] \/ rows[p] = BodyRow(k, 1, thread.published)
      BY <1>t, <2>5
    <3> QED
      BY <1>b, <2>3, <3>1
  <2>6. CASE Live(q) /\ (rows = post \/ rows = [post EXCEPT ![q] = Edited(post[q], k.text, thread.published)])
    <3>1. q # p
      BY <2>6 DEF Live
    <3>2. rows[p] = post[p]
      BY <1>t, <2>6, <3>1
    <3> QED
      BY <2>3, <3>2
  <2> QED
    BY <2>4, <2>5, <2>6
<1>11. ~Replay(c) /\ ~CommitInvite(c)
  BY <1>1 DEF Replay, CommitInvite
<1> QED
  BY <1>3, <1>4, <1>5, <1>6, <1>7, <1>8, <1>9, <1>10, <1>11 DEF CommitNext

\* Only an edit, a body or a save changes words, and only over the version it read.
LEMMA WordsChanged ==
    ASSUME Inv, [Next]_vars, NEW p \in Posts,
           post[p].status = "live", post'[p].status = "live", post'[p].text # post[p].text
    PROVE  \E c \in Calls : /\ call[c].post = p
                            /\ \/ call[c].op \in {"edit", "body"} /\ call[c].version = post[p].version
                               \/ call[c].op = "save" /\ call[c].bodyVersion = post[p].version
<1>t. Types /\ post \in [Posts -> Row] /\ call \in [Calls -> Request] /\ \A q \in Posts : post[q] \in Row
  BY DEF Inv, Types
<1>0. post'[p] # post[p]
  OBVIOUS
<1>1. ~UNCHANGED data /\ ~UNCHANGED post
  BY <1>0 DEF data
<1>2. ~Erase
  BY DEF Erase, NoPost
<1>3. PICK c \in Calls : CommitNext(c)
  <2>1. ~OtherNext
    BY <1>1, <1>2 DEF OtherNext, SetPolicy, SetVisibility, Cleanup, Join, UpdateMember, ExitMember, Block
  <2>2. \A c \in Calls : ~BeginNext(c)
    BY <1>t, <1>1, BegunTypes DEF Begin
  <2>3. ~UNCHANGED vars
    BY <1>1 DEF vars
  <2> QED
    BY <2>1, <2>2, <2>3 DEF Next, BeginNext, CommitNext, OtherNext
<1> DEFINE k == call[c]
<1>k. k \in Request
  BY <1>t
<1>n. ASSUME NEW q \in Posts, NEW row, post[q].status = "none", post' = [post EXCEPT ![q] = row] PROVE FALSE
  <2>1. q # p
    BY <1>n
  <2> QED
    BY <1>0, <1>t, <1>n, <2>1
<1>4. ~CommitCreate(c)
  <2>1. CASE CommitCreate(c)
    <3>1. PICK q \in Posts, n \in 1..MaxPosts : Fresh(q) /\ post' = [post EXCEPT ![q] = NewRow(k, n)]
      BY <1>1, <2>1 DEF CommitCreate
    <3> QED
      BY <1>n, <3>1 DEF Fresh, Created
  <2> QED
    BY <2>1
<1>5. CASE CommitEdit(c)
  <2>1. /\ k.op = "edit" /\ k.post \in Posts /\ post[k.post].version = k.version
        /\ post' = [post EXCEPT ![k.post] = Edited(post[k.post], k.text, k.published)]
    BY <1>1, <1>5 DEF CommitEdit, Running, Write, UnchangedSince, Live
  <2>2. k.post = p
    BY <1>0, <1>t, <2>1
  <2> QED
    BY <2>1, <2>2
<1>6. ~CommitRemove(c) /\ ~CommitPin(c)
  <2>1. CASE CommitRemove(c)
    <3>1. k.post \in Posts /\ post' = [post EXCEPT ![k.post] = Removed(post[k.post])]
      BY <1>1, <2>1 DEF CommitRemove, Write, Live
    <3>2. post'[p] = Removed(post[p])
      BY <1>0, <1>t, <3>1
    <3> QED
      BY <1>t, <3>2, RemovedSame
  <2>2. CASE CommitPin(c)
    <3>1. k.post \in Posts /\ post' = [post EXCEPT ![k.post] = [post[k.post] EXCEPT !.pinned = k.flag]]
      BY <1>1, <1>t, <2>2 DEF CommitPin, Write, Live
    <3>2. post'[p] = [post[p] EXCEPT !.pinned = k.flag]
      BY <1>0, <1>t, <3>1
    <3> QED
      BY <1>t, <3>2 DEF Row
  <2> QED
    BY <2>1, <2>2
<1>7. CASE CommitBody(c)
  <2>1. post' \in BodyRows(k) /\ k.op = "body"
    BY <1>1, <1>7 DEF CommitBody, Running, Write
  <2>2. CASE /\ Live(k.post) /\ k.post \in Posts /\ post[k.post].version = k.version
             /\ post' = [post EXCEPT ![k.post] = Edited(post[k.post], k.text, k.published)]
    <3>1. k.post = p
      BY <1>0, <1>t, <2>2
    <3> QED
      BY <2>1, <2>2, <3>1
  <2> QED
    BY <1>k, <1>n, <1>t, <2>1, <2>2, BodyRowsKeep
<1>8. ~CommitCreateSub(c)
  <2>1. CASE CommitCreateSub(c)
    <3>1. PICK q \in Posts, s \in Subs : Fresh(q) /\ post' = [post EXCEPT ![q] = BodyRow(k, s, k.published)]
      BY <1>1, <2>1 DEF CommitCreateSub
    <3> QED
      BY <1>n, <3>1 DEF Fresh, Created
  <2> QED
    BY <2>1
<1>9. ~CommitRemoveSub(c) /\ ~CommitRemoveThread(c)
  <2>1. CASE CommitRemoveSub(c) \/ CommitRemoveThread(c)
    <3>1. post'[p] = [post[p] EXCEPT !.pinned = FALSE]
      BY <1>0, <1>1, <1>2, <2>1 DEF CommitRemoveSub, CommitRemoveThread, data
    <3> QED
      BY <1>t, <3>1 DEF Row
  <2> QED
    BY <2>1
<1>10. ~CommitPublish(c)
  <2>1. CASE CommitPublish(c)
    <3>1. post' = Settled(post)
      BY <1>1, <2>1 DEF CommitPublish
    <3> QED
      BY <1>t, <3>1, SettledText
  <2> QED
    BY <2>1
<1>11. CASE CommitSave(c)
  <2>1. PICK rows \in SavedRows(k) : /\ post' = IF k.flag THEN Settled(rows) ELSE rows
                                     /\ SaveAllowed(k) /\ k.op = "save"
    BY <1>1, <1>11 DEF CommitSave, Running
  <2>2. rows \in [Posts -> Row]
    BY <1>k, <1>t, <2>1, SavedRowsType
  <2>3. rows[p].text # post[p].text
    <3>1. CASE k.flag
      BY <2>1, <2>2, <3>1, SettledText
    <3>2. CASE ~k.flag
      BY <2>1, <3>2
    <3> QED
      BY <3>1, <3>2
  <2>4. CASE Bodies(1) = {}
    <3>1. PICK q \in Posts : Fresh(q) /\ rows = [post EXCEPT ![q] = BodyRow(k, 1, thread.published)]
      BY <2>1, <2>4 DEF SavedRows
    <3>2. q # p
      BY <3>1 DEF Fresh, Created
    <3> QED
      BY <1>t, <2>3, <3>1, <3>2
  <2>5. CASE Bodies(1) # {}
    <3>1. PICK q \in Bodies(1) :
              rows = [post EXCEPT ![q] = IF @.text = k.text THEN @ ELSE Edited(@, k.text, thread.published)]
      BY <2>1, <2>5 DEF SavedRows
    <3>2. q = p
      BY <1>t, <2>3, <3>1 DEF Bodies
    <3>3. q = k.post /\ post[q].version = k.bodyVersion
      BY <2>1, <2>5 DEF SaveAllowed
    <3> QED
      BY <2>1, <3>2, <3>3
  <2> QED
    BY <2>4, <2>5
<1>12. ~Replay(c) /\ ~CommitInvite(c)
  BY <1>1 DEF Replay, CommitInvite
<1> QED
  BY <1>3, <1>4, <1>5, <1>6, <1>7, <1>8, <1>9, <1>10, <1>11, <1>12 DEF CommitNext

\* A floor enters only where and from whom it is admitted at that moment
\* (post-create-guard.ts lockAndValidatePostCreate).
THEOREM FloorsAdmitted == Spec => PostsAdmitted
<1>1. ASSUME Inv, [Next]_vars, NEW p \in Posts,
             post[p].status = "none", post'[p].status = "live", post'[p].kind = "FLOOR"
      PROVE  LET row == post'[p] IN
              /\ thread.status = "live" /\ sub[row.sub].status = "live"
              /\ row.author \notin blocked
              /\ thread.published \/ row.author = Owner
              /\ thread.private => member[row.author] # "none"
              /\ sub[row.sub].policy = "PLAYERS" => row.author \in player \/ Manages(row.author) \/ row.author = Owner
              /\ row.parent # 0 => /\ post[row.parent].status = "live" /\ post[row.parent].parent = 0
                                   /\ post[row.parent].sub = row.sub
  <2>1. PICK c \in Calls, n \in 1..MaxPosts : Admitted(call[c]) /\ post'[p] = NewRow(call[c], n)
    BY <1>1, FloorsCreated
  <2> DEFINE k == call[c]
             row == post'[p]
  <2>2. row.sub = k.sub /\ row.author = k.user /\ row.parent = k.post
    BY <2>1 DEF NewRow, NoPost
  <2> HIDE DEF row
  <2>3. /\ thread.status = "live" /\ k.user \notin blocked /\ sub[k.sub].status = "live"
        /\ thread.published \/ k.user = Owner
    BY <2>1 DEF Admitted, Accessible, LiveSub
  <2>4. thread.private => member[k.user] # "none"
    BY <1>1, <2>1, <2>3 DEF Admitted, Accessible, Inv
  <2>5. sub[k.sub].policy = "PLAYERS" => k.user \in player \/ Manages(k.user) \/ k.user = Owner
    BY <2>1 DEF Admitted, CanPost
  <2>6. k.post # 0 => post[k.post].status = "live" /\ post[k.post].parent = 0 /\ post[k.post].sub = k.sub
    BY <2>1 DEF Admitted, Live
  <2>7. /\ thread.status = "live" /\ sub[row.sub].status = "live"
        /\ row.author \notin blocked
        /\ thread.published \/ row.author = Owner
        /\ thread.private => member[row.author] # "none"
        /\ sub[row.sub].policy = "PLAYERS" => row.author \in player \/ Manages(row.author) \/ row.author = Owner
        /\ row.parent # 0 => /\ post[row.parent].status = "live" /\ post[row.parent].parent = 0
                             /\ post[row.parent].sub = row.sub
    BY <2>2, <2>3, <2>4, <2>5, <2>6
  <2> QED
    BY <2>7 DEF row
<1>2. Inv /\ [Next]_vars =>
          \A p \in Posts :
             post[p].status = "none" /\ post'[p].status = "live" /\ post'[p].kind = "FLOOR" =>
                 LET row == post'[p] IN
                 /\ thread.status = "live" /\ sub[row.sub].status = "live"
                 /\ row.author \notin blocked
                 /\ thread.published \/ row.author = Owner
                 /\ thread.private => member[row.author] # "none"
                 /\ sub[row.sub].policy = "PLAYERS" => row.author \in player \/ Manages(row.author) \/ row.author = Owner
                 /\ row.parent # 0 => /\ post[row.parent].status = "live" /\ post[row.parent].parent = 0
                                      /\ post[row.parent].sub = row.sub
  BY <1>1
<1> QED
  BY <1>2, InvHolds, PTL DEF PostsAdmitted, Spec

\* Nobody overwrites a content he has not seen (posts.service.ts update and upsertBody,
\* thread-aggregate.service.ts save).
THEOREM NothingLost == Spec => NoLostUpdate
<1>1. Inv /\ [Next]_vars =>
          \A p \in Posts :
             post[p].status = "live" /\ post'[p].status = "live" /\ post'[p].text # post[p].text =>
                 \E c \in Calls : /\ call[c].post = p
                                  /\ \/ call[c].op \in {"edit", "body"} /\ call[c].version = post[p].version
                                     \/ call[c].op = "save" /\ call[c].bodyVersion = post[p].version
  BY WordsChanged
<1> QED
  BY <1>1, InvHolds, PTL DEF NoLostUpdate, Spec
=============================================================================
