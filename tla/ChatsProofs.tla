----------------------------- MODULE ChatsProofs -----------------------------
(***************************************************************************)
(* Theorems about the table "chats", for any accounts, groups and dialogs  *)
(* and any number of events.                                               *)
(***************************************************************************)
EXTENDS Chats, FiniteSetTheorems, WellFoundedInduction, TLAPS

(* What the proofs need of a row: that it has its columns.                 *)
IsRow(r) == r = [chat |-> r.chat, pos |-> r.pos, ids |-> r.ids, active |-> r.active,
                 by |-> r.by, loaded |-> r.loaded]
RowsOK == (\E S : rows \in Seq(S)) /\ \A i \in DOMAIN rows : IsRow(rows[i])

(* The three ways in which rows change: not at all, ...                    *)
Same == rows' = rows
(* ... rows of a chat go out of use, ...                                   *)
Disabled(chat, pos) == rows' = DisableOtherRows(chat, pos)
(* ... and a row is added, with or without that.                           *)
Added(chat, pos, kept) ==
  /\ kept \in {rows, DisableOtherRows(chat, pos)}
  /\ \E ids, by, loaded :
       rows' = Append(kept, [chat |-> chat, pos |-> pos, ids |-> ids, active |-> TRUE,
                             by |-> by, loaded |-> loaded])

(* A step in which no statement fails keeps the rows, or disables the rows of
   a chat and a position and adds one for them; a failing one leaves out one
   of the two.                                                             *)
StepOnRows ==
  \/ Same
  \/ \E chat, pos : Disabled(chat, pos) /\ busy'
  \/ \E chat, pos : Added(chat, pos, rows) /\ busy'
  \/ \E chat, pos : Added(chat, pos, DisableOtherRows(chat, pos))

LEMMA AddStep ==
  ASSUME NEW chat, NEW pos, NEW ids, NEW fail,
         rows' = AddChatParams(chat, pos, ids, fail), fail # "none" => busy'
  PROVE  StepOnRows
<1>1. CASE fail = "update"
  <2>1. Added(chat, pos, rows)
    BY <1>1 DEF AddChatParams, Added
  <2> QED
    BY <1>1, <2>1 DEF StepOnRows
<1>2. CASE fail = "insert"
  <2>1. Disabled(chat, pos)
    BY <1>2 DEF AddChatParams, Disabled
  <2> QED
    BY <1>2, <2>1 DEF StepOnRows
<1>3. CASE fail # "update" /\ fail # "insert"
  <2>1. Added(chat, pos, DisableOtherRows(chat, pos))
    BY <1>3 DEF AddChatParams, Added
  <2> QED
    BY <2>1 DEF StepOnRows
<1> QED
  BY <1>1, <1>2, <1>3

LEMMA SetStep ==
  ASSUME NEW stage, NEW fail, SetChatMembersInfo(stage, fail), fail # "none" => busy'
  PROVE  StepOnRows
<1> DEFINE ids == SortedIds(PeersOf(open))
           pos == Position(ids, account)
<1>1. Same \/ rows' = UpdateChatMembers(open, ids, pos, fail)
  BY DEF SetChatMembersInfo, Same
<1> HIDE DEF ids, pos
<1>2. Same \/ rows' = AddChatParams(open, pos, ids, fail)
  BY <1>1 DEF UpdateChatMembers, Same
<1> QED
  BY <1>2, AddStep DEF StepOnRows

LEMMA NextOnRows ==
  ASSUME [Next]_vars
  PROVE  StepOnRows /\ (busy => busy')
<1> USE DEF Same, StepOnRows
<1>1. CASE UNCHANGED vars
  BY <1>1 DEF vars, seenSoFar
<1>2. CASE \E a \in Accounts : ShowMain(a)
  BY <1>2 DEF ShowMain, seenSoFar
<1>3. CASE \E c \in Chats : OpenChat(c)
  BY <1>3 DEF OpenChat, seenSoFar
<1>4. CASE OpenSection \/ CloseSection \/ Restart
  BY <1>4 DEF OpenSection, CloseSection, Restart, seenSoFar
<1>5. CASE \E g \in Groups : Load(g) \/ \E u \in Others : Change(g, u)
  BY <1>5 DEF Load, Change, seenSoFar
<1>6. CASE \E fail \in Fails : PressStart(fail) \/ PressStop(fail)
  <2>1. PICK fail \in Fails : PressStart(fail) \/ PressStop(fail)
    BY <1>6
  <2>2. busy' = (busy \/ fail # "none")
    BY <2>1 DEF PressStart, PressStop
  <2>3. \E stage : SetChatMembersInfo(stage, fail)
    BY <2>1 DEF PressStart, PressStop, Start
  <2>4. StepOnRows
    BY <2>2, <2>3, SetStep
  <2> QED
    BY <2>2, <2>4
<1>7. CASE \E m \in Messages, fail \in Fails : Receive(m, fail)
  <2>1. PICK m \in Messages, fail \in Fails : Receive(m, fail)
    BY <1>7
  <2>2. busy' = (busy \/ fail # "none")
    BY <2>1 DEF Receive
  <2>3. Same \/ \E stage : SetChatMembersInfo(stage, fail)
    BY <2>1 DEF Receive, Start
  <2>4. StepOnRows
    BY <2>2, <2>3, SetStep
  <2> QED
    BY <2>2, <2>4
<1>8. CASE ReadMyIdOutside
  BY <1>8 DEF ReadMyIdOutside, End, seenSoFar
<1>9. CASE \E fail \in Fails \cap {"none", "select", "insert"} :
             RsaStage(fail) \/ \E stores, sends \in BOOLEAN : AesStage(stores, sends, fail)
  <2>1. PICK fail : RsaStage(fail) \/ \E stores, sends \in BOOLEAN : AesStage(stores, sends, fail)
    BY <1>9
  <2>2. \/ \E m, stage, stores, sends : Round(m, stage, stores, sends, fail)
        \/ \E with : End(with)
    <3>1. CASE RsaStage(fail)
      BY <3>1, Zenon DEF RsaStage
    <3>2. CASE \E stores, sends \in BOOLEAN : AesStage(stores, sends, fail)
      <4>1. PICK stores, sends \in BOOLEAN : AesStage(stores, sends, fail)
        BY <3>2
      <4>2. End("division") \/ Round(mail[1], "aes", stores, sends, fail)
        BY <4>1, Zenon DEF AesStage
      <4>3. CASE End("division")
        BY <4>3, Zenon
      <4>4. CASE Round(mail[1], "aes", stores, sends, fail)
        BY <4>4, Zenon
      <4> QED
        BY <4>2, <4>3, <4>4, Zenon
    <3> QED
      BY <2>1, <3>1, <3>2
  <2>3. ASSUME NEW m, NEW stage, NEW stores, NEW sends, Round(m, stage, stores, sends, fail)
        PROVE  StepOnRows /\ (busy => busy')
    BY <2>3, Zenon DEF Round
  <2>4. ASSUME NEW with, End(with)
        PROVE  StepOnRows /\ (busy => busy')
    BY <2>4, Zenon DEF End, seenSoFar
  <2> QED
    BY <2>2, <2>3, <2>4, Zenon
<1>10. CASE Stop
  BY <1>10 DEF Stop, seenSoFar
<1>11. CASE \E p \in posts : Deliver(p)
  BY <1>11 DEF Deliver
<1> QED
  BY <1>1, <1>2, <1>3, <1>4, <1>5, <1>6, <1>7, <1>8, <1>9, <1>10, <1>11 DEF Next

-----------------------------------------------------------------------------
(* What disabling and adding do to a table of rows.                        *)

LEMMA DisabledRows ==
  ASSUME NEW chat, NEW pos, RowsOK
  PROVE  LET kept == DisableOtherRows(chat, pos)
         IN /\ \E S : kept \in Seq(S)
            /\ Len(kept) = Len(rows) /\ DOMAIN kept = DOMAIN rows
            /\ \A i \in DOMAIN rows :
                 /\ IsRow(kept[i])
                 /\ kept[i].chat = rows[i].chat /\ kept[i].pos = rows[i].pos
                 /\ kept[i].ids = rows[i].ids
                 /\ kept[i].by = rows[i].by /\ kept[i].loaded = rows[i].loaded
                 /\ kept[i].active => rows[i].active
                 /\ kept[i].active => ~(rows[i].chat = chat /\ rows[i].pos = pos)
<1> DEFINE kept == DisableOtherRows(chat, pos)
<1>1. PICK S : rows \in Seq(S)
  BY DEF RowsOK
<1>2. Len(rows) \in Nat /\ DOMAIN rows = 1 .. Len(rows)
  BY <1>1
<1>3. ASSUME NEW i \in DOMAIN rows
      PROVE  /\ IsRow(kept[i])
             /\ kept[i].chat = rows[i].chat /\ kept[i].pos = rows[i].pos
             /\ kept[i].ids = rows[i].ids
             /\ kept[i].by = rows[i].by /\ kept[i].loaded = rows[i].loaded
             /\ kept[i].active => rows[i].active
             /\ kept[i].active => ~(rows[i].chat = chat /\ rows[i].pos = pos)
  <2>1. rows[i] = [chat |-> rows[i].chat, pos |-> rows[i].pos, ids |-> rows[i].ids,
                   active |-> rows[i].active, by |-> rows[i].by, loaded |-> rows[i].loaded]
    BY DEF RowsOK, IsRow
  <2>2. CASE rows[i].chat = chat /\ rows[i].pos = pos
    <3>1. kept[i] = [chat |-> rows[i].chat, pos |-> rows[i].pos, ids |-> rows[i].ids,
                     active |-> FALSE, by |-> rows[i].by, loaded |-> rows[i].loaded]
      BY <2>1, <2>2 DEF DisableOtherRows
    <3> HIDE DEF kept
    <3> QED
      BY <3>1 DEF IsRow
  <2>3. CASE ~(rows[i].chat = chat /\ rows[i].pos = pos)
    <3>1. kept[i] = rows[i]
      BY <2>3 DEF DisableOtherRows
    <3> HIDE DEF kept
    <3> QED
      BY <2>1, <2>3, <3>1 DEF IsRow
  <2> QED
    BY <2>2, <2>3
<1>4. DOMAIN kept = 1 .. Len(rows)
  BY <1>2 DEF DisableOtherRows
<1>5. kept \in Seq({kept[i] : i \in 1 .. Len(rows)}) /\ Len(kept) = Len(rows)
  <2>1. kept = [i \in 1 .. Len(rows) |-> kept[i]]
    BY <1>2 DEF DisableOtherRows
  <2> DEFINE T == {kept[i] : i \in 1 .. Len(rows)}
  <2> HIDE DEF kept
  <2>2. [i \in 1 .. Len(rows) |-> kept[i]] \in Seq(T)
    BY <1>2
  <2>3. kept \in Seq(T)
    BY <2>1, <2>2
  <2> QED
    BY <1>2, <1>4, <2>3
<1> QED
  BY <1>2, <1>3, <1>4, <1>5

LEMMA AppendedRow ==
  ASSUME NEW kept, NEW row, \E S : kept \in Seq(S)
  PROVE  /\ \E S : Append(kept, row) \in Seq(S)
         /\ DOMAIN Append(kept, row) = 1 .. Len(kept) + 1 /\ DOMAIN kept = 1 .. Len(kept)
         /\ Len(kept) \in Nat
         /\ \A i \in 1 .. Len(kept) : Append(kept, row)[i] = kept[i]
         /\ Append(kept, row)[Len(kept) + 1] = row
<1>1. PICK S : kept \in Seq(S)
  OBVIOUS
<1>2. kept \in Seq(S \cup {row})
  BY <1>1
<1>3. Append(kept, row) \in Seq(S \cup {row})
  BY <1>2
<1> QED
  BY <1>2, <1>3

-----------------------------------------------------------------------------
LEMMA InitRows == Init => RowsOK
<1> SUFFICES ASSUME Init PROVE RowsOK
  OBVIOUS
<1>1. rows = <<>> /\ <<>> \in Seq({})
  BY DEF Init
<1> QED
  BY <1>1 DEF RowsOK

(* A row that is added comes last, behind rows that keep what they are but
   may go out of use.                                                      *)
LEMMA AddedRows ==
  ASSUME NEW chat, NEW pos, NEW kept, RowsOK, Added(chat, pos, kept)
  PROVE  /\ (\E S : rows' \in Seq(S)) /\ Len(rows) \in Nat
         /\ DOMAIN rows = 1 .. Len(rows) /\ DOMAIN rows' = 1 .. Len(rows) + 1
         /\ \A i \in DOMAIN rows :
              /\ IsRow(rows'[i])
              /\ rows'[i].chat = rows[i].chat /\ rows'[i].pos = rows[i].pos
              /\ rows'[i].ids = rows[i].ids /\ (rows'[i].active => rows[i].active)
              /\ kept = DisableOtherRows(chat, pos) /\ rows'[i].active
                    => ~(rows[i].chat = chat /\ rows[i].pos = pos)
         /\ IsRow(rows'[Len(rows) + 1])
         /\ rows'[Len(rows) + 1].chat = chat /\ rows'[Len(rows) + 1].pos = pos
<1>1. PICK ids, by, loaded :
        rows' = Append(kept, [chat |-> chat, pos |-> pos, ids |-> ids, active |-> TRUE,
                              by |-> by, loaded |-> loaded])
  BY DEF Added
<1> DEFINE row == [chat |-> chat, pos |-> pos, ids |-> ids, active |-> TRUE,
                   by |-> by, loaded |-> loaded]
<1>2. IsRow(row) /\ row.chat = chat /\ row.pos = pos
  BY DEF IsRow
<1>3. /\ \E S : kept \in Seq(S)
      /\ Len(kept) = Len(rows) /\ DOMAIN kept = DOMAIN rows
      /\ \A i \in DOMAIN rows :
           /\ IsRow(kept[i])
           /\ kept[i].chat = rows[i].chat /\ kept[i].pos = rows[i].pos
           /\ kept[i].ids = rows[i].ids /\ (kept[i].active => rows[i].active)
           /\ kept = DisableOtherRows(chat, pos) /\ kept[i].active
                 => ~(rows[i].chat = chat /\ rows[i].pos = pos)
  <2>1. CASE kept = DisableOtherRows(chat, pos)
    BY <2>1, DisabledRows
  <2>2. CASE kept = rows /\ kept # DisableOtherRows(chat, pos)
    BY <2>2 DEF RowsOK
  <2> QED
    BY <2>1, <2>2 DEF Added
<1> HIDE DEF row
<1>4. /\ \E S : rows' \in Seq(S)
      /\ DOMAIN rows' = 1 .. Len(rows) + 1 /\ DOMAIN rows = 1 .. Len(rows) /\ Len(rows) \in Nat
      /\ \A i \in 1 .. Len(rows) : rows'[i] = kept[i]
      /\ rows'[Len(rows) + 1] = row
  <2>1. rows' = Append(kept, row)
    BY <1>1 DEF row
  <2>2. /\ \E S : rows' \in Seq(S)
        /\ DOMAIN rows' = 1 .. Len(kept) + 1 /\ DOMAIN kept = 1 .. Len(kept)
        /\ Len(kept) \in Nat
        /\ \A i \in 1 .. Len(kept) : rows'[i] = kept[i]
        /\ rows'[Len(kept) + 1] = row
    <3>1. \E S : kept \in Seq(S)
      BY <1>3
    <3> DEFINE new == Append(kept, row)
    <3>2. /\ \E S : new \in Seq(S)
          /\ DOMAIN new = 1 .. Len(kept) + 1 /\ DOMAIN kept = 1 .. Len(kept)
          /\ Len(kept) \in Nat
          /\ \A i \in 1 .. Len(kept) : new[i] = kept[i]
          /\ new[Len(kept) + 1] = row
      BY <3>1, AppendedRow, Zenon
    <3> HIDE DEF new
    <3>3. rows' = new
      BY <2>1 DEF new
    <3> QED
      BY <3>2, <3>3, Zenon
  <2>3. Len(kept) = Len(rows) /\ DOMAIN kept = DOMAIN rows
    BY <1>3
  <2> QED
    BY <2>2, <2>3
<1> QED
  BY <1>2, <1>3, <1>4

LEMMA RowsStay ==
  ASSUME RowsOK, StepOnRows
  PROVE  RowsOK'
<1>1. CASE Same
  BY <1>1 DEF Same, RowsOK, IsRow
<1>2. ASSUME NEW chat, NEW pos, Disabled(chat, pos) PROVE RowsOK'
  BY <1>2, DisabledRows DEF Disabled, RowsOK
<1>3. ASSUME NEW chat, NEW pos, NEW kept, Added(chat, pos, kept) PROVE RowsOK'
  <2>1. \A i \in DOMAIN rows' : i \in DOMAIN rows \/ i = Len(rows) + 1
    BY <1>3, AddedRows
  <2> QED
    BY <1>3, <2>1, AddedRows DEF RowsOK
<1> QED
  BY <1>1, <1>2, <1>3 DEF StepOnRows

(* Every row of the table has the columns that add_chat_params writes.     *)
THEOREM RowsHaveColumns == Spec => []RowsOK
<1>1. RowsOK /\ [Next]_vars => RowsOK'
  BY NextOnRows, RowsStay
<1> QED
  BY <1>1, InitRows, PTL DEF Spec

-----------------------------------------------------------------------------
(* get_my_id reads the first row, and nothing but whether it is in use ever
   changes in it.                                                          *)
LEMMA FirstRowStays ==
  ASSUME RowsOK, StepOnRows, rows # <<>>
  PROVE  rows' # <<>> /\ rows'[1].pos = rows[1].pos /\ rows'[1].ids = rows[1].ids
<1>1. PICK S : rows \in Seq(S)
  BY DEF RowsOK
<1>2. Len(rows) \in Nat /\ Len(rows) # 0 /\ DOMAIN rows = 1 .. Len(rows)
  BY <1>1
<1>3. 1 \in DOMAIN rows
  BY <1>2
<1>4. CASE Same
  BY <1>4 DEF Same
<1>5. ASSUME NEW chat, NEW pos, Disabled(chat, pos)
      PROVE  rows' # <<>> /\ rows'[1].pos = rows[1].pos /\ rows'[1].ids = rows[1].ids
  <2>1. /\ Len(rows') = Len(rows)
        /\ rows'[1].pos = rows[1].pos /\ rows'[1].ids = rows[1].ids
    BY <1>3, <1>5, DisabledRows DEF Disabled
  <2> QED
    BY <1>2, <2>1
<1>6. ASSUME NEW chat, NEW pos, NEW kept, Added(chat, pos, kept)
      PROVE  rows' # <<>> /\ rows'[1].pos = rows[1].pos /\ rows'[1].ids = rows[1].ids
  <2>1. /\ DOMAIN rows' = 1 .. Len(rows) + 1
        /\ rows'[1].pos = rows[1].pos /\ rows'[1].ids = rows[1].ids
    BY <1>3, <1>6, AddedRows
  <2>2. 1 \in DOMAIN rows'
    BY <1>2, <2>1
  <2>3. rows' # <<>>
    BY <2>2
  <2> QED
    BY <2>1, <2>3
<1> QED
  BY <1>4, <1>5, <1>6 DEF StepOnRows

(* The own id, under which encrypted messages are marked and looked up, stays
   what it is once the table has a row, whoever is logged in, joins, leaves,
   and whichever statements fail.                                          *)
THEOREM OwnIdFixed == Spec => OwnIdStays
<1>1. RowsOK /\ [Next]_vars => RowsOK'
  BY NextOnRows, RowsStay
<1>2. RowsOK /\ [Next]_vars => (GetMyId # <<>> => GetMyId' = GetMyId)
  <2> SUFFICES ASSUME RowsOK, [Next]_vars, GetMyId # <<>>
               PROVE  GetMyId' = GetMyId
    OBVIOUS
  <2>1. rows # <<>>
    BY DEF GetMyId
  <2>2. rows' # <<>> /\ rows'[1].pos = rows[1].pos /\ rows'[1].ids = rows[1].ids
    BY <2>1, NextOnRows, FirstRowStays
  <2> QED
    BY <2>1, <2>2 DEF GetMyId
<1> QED
  BY <1>1, <1>2, InitRows, PTL DEF Spec, OwnIdStays

-----------------------------------------------------------------------------
(* Adding a row for a chat and a position disables the others of them first,
   so that a second one in use takes a statement that fails.               *)
LEMMA OneRowStays ==
  ASSUME RowsOK, StepOnRows, busy => busy', OneRowInUse
  PROVE  OneRowInUse'
<1> SUFFICES ASSUME ~busy', NEW i \in DOMAIN rows', NEW j \in DOMAIN rows',
                    rows'[i].active, rows'[j].active, rows'[i].chat = rows'[j].chat,
                    rows'[i].pos = rows'[j].pos
             PROVE  i = j
  BY DEF OneRowInUse
<1>1. \A k, l \in DOMAIN rows :
        rows[k].active /\ rows[l].active /\ rows[k].chat = rows[l].chat
          /\ rows[k].pos = rows[l].pos => k = l
  BY DEF OneRowInUse
<1>2. CASE Same
  BY <1>1, <1>2 DEF Same
<1>3. ASSUME NEW chat, NEW pos, Added(chat, pos, DisableOtherRows(chat, pos))
      PROVE  i = j
  <2> DEFINE last == Len(rows) + 1
  <2>1. /\ Len(rows) \in Nat
        /\ DOMAIN rows = 1 .. Len(rows) /\ DOMAIN rows' = 1 .. last
        /\ \A k \in DOMAIN rows :
             /\ rows'[k].chat = rows[k].chat /\ rows'[k].pos = rows[k].pos
             /\ rows'[k].active => rows[k].active
             /\ rows'[k].active => ~(rows[k].chat = chat /\ rows[k].pos = pos)
        /\ rows'[last].chat = chat /\ rows'[last].pos = pos
    BY <1>3, AddedRows
  <2> HIDE DEF last
  <2>2. \A k \in DOMAIN rows' : k \in DOMAIN rows \/ k = last
    BY <2>1 DEF last
  <2>3. CASE i \in DOMAIN rows /\ j \in DOMAIN rows
    BY <1>1, <2>1, <2>3
  <2>4. CASE i \in DOMAIN rows /\ j = last
    BY <2>1, <2>4
  <2>5. CASE i = last /\ j \in DOMAIN rows
    BY <2>1, <2>5
  <2> QED
    BY <2>2, <2>3, <2>4, <2>5
<1> QED
  BY <1>2, <1>3 DEF StepOnRows

(* add_chat_params leaves one row in use for each own position in a chat, as
   long as no statement of it fails.                                       *)
THEOREM RowsInUse == Spec => []OneRowInUse
<1>1. Init => RowsOK /\ OneRowInUse
  BY InitRows DEF Init, OneRowInUse
<1>2. RowsOK /\ OneRowInUse /\ [Next]_vars => (RowsOK /\ OneRowInUse)'
  BY NextOnRows, RowsStay, OneRowStays
<1> QED
  BY <1>1, <1>2, PTL DEF Spec

-----------------------------------------------------------------------------
(* The sorted list of the members.                                         *)

(* A nonempty set of naturals has a least element, which Min chooses.      *)
LEMMA LeastElement ==
  ASSUME NEW S \in SUBSET Nat, S # {}
  PROVE  Min(S) \in S
<1>1. PICK x \in S : \A y \in S : ~(<<y, x>> \in OpToRel(<, Nat))
  BY WFMin, NatLessThanWellFounded
<1>2. \A y \in S : x <= y
  <2>1. TAKE y \in S
  <2>2. ~(y < x)
    BY <1>1 DEF OpToRel
  <2>3. x \in Nat /\ y \in Nat
    OBVIOUS
  <2> QED
    BY <2>2, <2>3
<1> QED
  BY <1>2 DEF Min

(* Everybody in a finite set has a place of its own in the sorted list: as
   many are before it as have smaller ids.                                 *)
LEMMA SortedHas ==
  ASSUME NEW S \in SUBSET Nat, IsFiniteSet(S)
  PROVE  /\ Cardinality(S) \in Nat /\ Len(SortedIds(S)) = Cardinality(S)
         /\ DOMAIN SortedIds(S) = 1 .. Cardinality(S)
         /\ \A u \in S : \E i \in DOMAIN SortedIds(S) : SortedIds(S)[i] = u
<1> DEFINE n == Cardinality(S)
           Below(u) == {v \in S : v < u}
           rank == [u \in S |-> Cardinality(Below(u))]
           ids == SortedIds(S)
<1>1. n \in Nat
  BY FS_CardinalityType
<1>2. ASSUME NEW u \in S
      PROVE  IsFiniteSet(Below(u)) /\ rank[u] = Cardinality(Below(u)) /\ rank[u] \in 0 .. n - 1
  <2>1. Below(u) \in SUBSET (S \ {u})
    OBVIOUS
  <2>2. IsFiniteSet(S \ {u}) /\ Cardinality(S \ {u}) = n - 1
    BY FS_RemoveElement
  <2> DEFINE B == Below(u)
  <2>3. rank[u] = Cardinality(B)
    OBVIOUS
  <2> HIDE DEF B
  <2>4. IsFiniteSet(B) /\ Cardinality(B) <= n - 1
    BY <2>1, <2>2, FS_Subset DEF B
  <2>5. Cardinality(B) \in Nat
    BY <2>4, FS_CardinalityType
  <2> HIDE DEF rank
  <2>6. rank[u] \in 0 .. n - 1
    BY <1>1, <2>3, <2>4, <2>5
  <2> QED
    BY <2>3, <2>4, <2>6 DEF B
<1>3. ASSUME NEW u \in S, NEW w \in S, u < w
      PROVE  rank[u] < rank[w]
  <2> DEFINE A == Below(u)
             B == Below(w)
  <2>1. A \cup {u} \in SUBSET B /\ u \notin A
    <3>1. u \in Nat /\ w \in Nat /\ S \subseteq Nat
      OBVIOUS
    <3>2. \A v \in Nat : v < u => v < w
      BY <1>3, <3>1
    <3>3. ~(u < u)
      BY <3>1
    <3> QED
      BY <1>3, <3>1, <3>2, <3>3
  <2>2. IsFiniteSet(A) /\ IsFiniteSet(B) /\ rank[u] = Cardinality(A) /\ rank[w] = Cardinality(B)
    BY <1>2
  <2> HIDE DEF A, B, rank
  <2>3. IsFiniteSet(A \cup {u}) /\ Cardinality(A \cup {u}) = Cardinality(A) + 1
    BY <2>1, <2>2, FS_AddElement
  <2>4. Cardinality(A \cup {u}) <= Cardinality(B)
    BY <2>1, <2>2, FS_Subset
  <2>5. Cardinality(A) \in Nat /\ Cardinality(B) \in Nat
    BY <2>2, FS_CardinalityType
  <2> QED
    BY <2>2, <2>3, <2>4, <2>5
<1>4. \A u \in S : rank[u] \in 0 .. n - 1
  BY <1>2
<1> HIDE DEF rank
<1>5. ASSUME NEW u \in S
      PROVE  \E i \in 1 .. n : ids[i] = u
  <2> DEFINE i == rank[u] + 1
  <2>1. i \in 1 .. n /\ i - 1 = rank[u]
    <3>1. rank[u] \in 0 .. n - 1
      BY <1>4
    <3> HIDE DEF n
    <3> QED
      BY <1>1, <3>1
  <2>2. ids[i] = CHOOSE w \in S : rank[w] = i - 1
    <3>1. ids[i] = CHOOSE w \in S : Cardinality(Below(w)) = i - 1
      BY <2>1 DEF SortedIds
    <3>2. \A w \in S : rank[w] = Cardinality(Below(w))
      BY <1>2
    <3> QED
      BY <3>1, <3>2
  <2> HIDE DEF ids, i
  <2>3. ASSUME NEW w \in S, rank[w] = i - 1
        PROVE  w = u
    <3>1. w \in Nat /\ u \in Nat
      OBVIOUS
    <3>2. w < u \/ u < w \/ w = u
      BY <3>1
    <3>3. rank[w] = rank[u] /\ rank[u] \in Int
      BY <1>4, <2>1, <2>3
    <3>4. ~(w < u) /\ ~(u < w)
      BY <1>3, <3>3
    <3> QED
      BY <3>2, <3>4
  <2>4. ids[i] = u
    BY <2>1, <2>2, <2>3
  <2> QED
    BY <2>1, <2>4
<1>6. Len(ids) = n /\ DOMAIN ids = 1 .. n
  <2> DEFINE T == {ids[i] : i \in 1 .. n}
  <2>1. ids = [i \in 1 .. n |-> ids[i]]
    <3> DEFINE Chosen(i) == CHOOSE u \in S : Cardinality(Below(u)) = i - 1
    <3>1. ids = [i \in 1 .. n |-> Chosen(i)]
      BY DEF SortedIds
    <3> HIDE DEF ids, n, Chosen
    <3> QED
      BY <3>1
  <2> HIDE DEF ids
  <2>2. [i \in 1 .. n |-> ids[i]] \in Seq(T)
    BY <1>1
  <2>3. ids \in Seq(T) /\ DOMAIN ids = 1 .. n
    BY <2>1, <2>2
  <2> QED
    BY <1>1, <2>3
<1> QED
  BY <1>1, <1>5, <1>6

(* Where an id is in a list, and -1 if it is nowhere.                      *)
LEMMA PositionIs ==
  ASSUME NEW ids, NEW u, NEW n \in Nat, DOMAIN ids = 1 .. n
  PROVE  /\ Position(ids, u) # -1 => ids[Position(ids, u) + 1] = u
         /\ (\E i \in DOMAIN ids : ids[i] = u) => Position(ids, u) # -1
<1>1. CASE \E i \in DOMAIN ids : ids[i] = u
  <2> DEFINE i == CHOOSE i \in DOMAIN ids : ids[i] = u
  <2>1. i \in DOMAIN ids /\ ids[i] = u
    BY <1>1
  <2> HIDE DEF i
  <2>2. i \in 1 .. n
    BY <2>1
  <2>3. Position(ids, u) = i - 1
    BY <1>1 DEF Position, i
  <2> QED
    BY <2>1, <2>2, <2>3
<1>2. CASE ~\E i \in DOMAIN ids : ids[i] = u
  BY <1>2 DEF Position
<1> QED
  BY <1>1, <1>2

-----------------------------------------------------------------------------
(* The people and the window: an account of this client is a member of every
   group, and what the window shows is a chat or none.                     *)
People ==
  /\ account \in Accounts /\ open \in Chats \cup {NoChat}
  /\ bar \in {"none", "main", "section", "gone"}
  /\ members \in [Groups -> SUBSET Users] /\ seen \in [Groups -> SUBSET Users]
  /\ \A g \in Groups : Accounts \subseteq members[g]

(* Who is in a chat.                                                       *)
Roster(c) == IF c \in Groups THEN members[c] ELSE {account, c}

LEMMA RosterIs ==
  ASSUME People, NEW c \in Chats
  PROVE  /\ Roster(c) \in SUBSET Nat /\ IsFiniteSet(Roster(c)) /\ account \in Roster(c)
         /\ Size(c) = Cardinality(Roster(c))
<1>1. Roster(c) \in SUBSET Users /\ account \in Roster(c)
  BY IdsAssumption DEF People, Roster, Chats, Users
<1>2. Users \subseteq Nat /\ IsFiniteSet(Users)
  BY IdsAssumption
<1> QED
  BY <1>1, <1>2, FS_Subset DEF Roster, Size

(* The list that an exchange of the chat that is open gets, and where the own
   id is in it.  Once the members are loaded the list is the whole roster. *)
LEMMA OpenIds ==
  ASSUME People, open \in Chats
  PROVE  LET ids == SortedIds(PeersOf(open))
             pos == Position(ids, account)
         IN /\ Len(ids) \in Nat
            /\ pos # -1 => ids[pos + 1] = account
            /\ Loaded => pos # -1 /\ ids = SortedIds(Roster(open))
<1> DEFINE S == PeersOf(open)
           ids == SortedIds(S)
           pos == Position(ids, account)
<1>1. S \in SUBSET Users
  BY IdsAssumption DEF People, PeersOf, Chats, Users
<1>2. S \in SUBSET Nat /\ IsFiniteSet(S)
  BY <1>1, IdsAssumption, FS_Subset
<1>3. Loaded => S = Roster(open)
  BY DEF Loaded, PeersOf, Roster
<1> HIDE DEF S
<1>4. /\ Cardinality(S) \in Nat /\ Len(ids) = Cardinality(S) /\ DOMAIN ids = 1 .. Cardinality(S)
      /\ \A u \in S : \E i \in DOMAIN ids : ids[i] = u
  BY <1>2, SortedHas
<1>5. Loaded => account \in S
  BY <1>3, RosterIs
<1> HIDE DEF ids
<1>6. /\ pos # -1 => ids[pos + 1] = account
      /\ Loaded => pos # -1
  BY <1>4, <1>5, PositionIs
<1> QED
  BY <1>3, <1>4, <1>6 DEF S, ids

-----------------------------------------------------------------------------
(* What update_chat_members does to the table.                             *)

(* Rows are the rows from before or the one that is written, and if nothing
   fails one in use has the chat and the members that are written.         *)
LEMMA UpdatedRows ==
  ASSUME RowsOK, NEW chat, NEW pos, NEW ids, NEW fail,
         rows' = UpdateChatMembers(chat, ids, pos, fail)
  PROVE  /\ \A i \in DOMAIN rows' :
              \/ /\ i \in DOMAIN rows
                 /\ rows'[i].pos = rows[i].pos /\ rows'[i].ids = rows[i].ids
                 /\ rows'[i].by = rows[i].by /\ rows'[i].loaded = rows[i].loaded
              \/ /\ rows'[i].pos = pos /\ rows'[i].ids = ids
                 /\ rows'[i].by = account /\ rows'[i].loaded = Loaded
         /\ fail = "none" => \E i \in DOMAIN rows' :
              rows'[i].active /\ rows'[i].chat = chat /\ rows'[i].ids = ids
<1> DEFINE row == [chat |-> chat, pos |-> pos, ids |-> ids, active |-> TRUE,
                   by |-> account, loaded |-> Loaded]
           kept == IF fail = "update" THEN rows ELSE DisableOtherRows(chat, pos)
<1>1. /\ \E S : kept \in Seq(S)
      /\ DOMAIN kept = DOMAIN rows
      /\ \A i \in DOMAIN rows :
           /\ kept[i].pos = rows[i].pos /\ kept[i].ids = rows[i].ids
           /\ kept[i].by = rows[i].by /\ kept[i].loaded = rows[i].loaded
  <2>1. CASE fail = "update"
    BY <2>1 DEF RowsOK
  <2>2. CASE fail # "update"
    BY <2>2, DisabledRows
  <2> QED
    BY <2>1, <2>2
<1>2. /\ row.chat = chat /\ row.pos = pos /\ row.ids = ids /\ row.active
      /\ row.by = account /\ row.loaded = Loaded
  OBVIOUS
<1>3. AddChatParams(chat, pos, ids, fail) = IF fail = "insert" THEN kept ELSE Append(kept, row)
  BY DEF AddChatParams
<1> HIDE DEF row, kept
<1>4. CASE StoredIds(chat, fail) = <<ids>>
  <2>1. rows' = rows
    BY <1>4 DEF UpdateChatMembers
  <2> DEFINE P == ActivePlaces(chat)
  <2>2. P # {} /\ rows[Min(P)].ids = ids
    BY <1>4 DEF StoredIds
  <2>3. PICK S : rows \in Seq(S)
    BY DEF RowsOK
  <2>4. P \in SUBSET Nat
    BY <2>3 DEF ActivePlaces
  <2>5. Min(P) \in P
    BY <2>2, <2>4, LeastElement
  <2>6. \A i \in P : i \in DOMAIN rows /\ rows[i].chat = chat /\ rows[i].active
    BY DEF ActivePlaces
  <2> QED
    BY <2>1, <2>2, <2>5, <2>6
<1>5. CASE StoredIds(chat, fail) # <<ids>> /\ fail = "insert"
  <2>1. rows' = kept
    BY <1>3, <1>5 DEF UpdateChatMembers
  <2> QED
    BY <1>1, <1>5, <2>1
<1>6. CASE StoredIds(chat, fail) # <<ids>> /\ fail # "insert"
  <2>1. rows' = Append(kept, row)
    BY <1>3, <1>6 DEF UpdateChatMembers
  <2>2. /\ DOMAIN rows' = 1 .. Len(kept) + 1 /\ DOMAIN kept = 1 .. Len(kept)
        /\ Len(kept) \in Nat
        /\ \A i \in 1 .. Len(kept) : rows'[i] = kept[i]
        /\ rows'[Len(kept) + 1] = row
    <3> DEFINE new == Append(kept, row)
    <3>1. /\ DOMAIN new = 1 .. Len(kept) + 1 /\ DOMAIN kept = 1 .. Len(kept)
          /\ Len(kept) \in Nat
          /\ \A i \in 1 .. Len(kept) : new[i] = kept[i]
          /\ new[Len(kept) + 1] = row
      BY <1>1, AppendedRow, Zenon
    <3> HIDE DEF new
    <3>2. rows' = new
      BY <2>1 DEF new
    <3> QED
      BY <3>1, <3>2, Zenon
  <2>3. /\ \A i \in DOMAIN rows' : i \in DOMAIN kept \/ i = Len(kept) + 1
        /\ Len(kept) + 1 \in DOMAIN rows'
    BY <2>2
  <2>4. \A i \in DOMAIN kept : rows'[i] = kept[i]
    BY <2>2
  <2> QED
    BY <1>1, <1>2, <2>2, <2>3, <2>4
<1> QED
  BY <1>4, <1>5, <1>6

-----------------------------------------------------------------------------
(* The invariant.                                                          *)

(* A row that was written when all members were loaded has the own position,
   and at the own position there is the id of whoever wrote it.            *)
RowsOfAccounts == \A i \in DOMAIN rows :
  /\ rows[i].by \in Accounts
  /\ rows[i].loaded => rows[i].pos # -1
  /\ rows[i].pos # -1 => rows[i].ids[rows[i].pos + 1] = rows[i].by

(* A message that is waiting has a position; one of the chat the exchange is
   about has that of a member, as long as nobody has joined or left.       *)
WaitsInList(m) ==
  /\ m.pos \in Nat
  /\ m.kind # "init" /\ m.chat = about.open /\ ~about.off => m.pos < MembersLen

(* A running exchange is about the chat that was open, which still is if no
   other was opened; its list is the roster of that chat if that has not
   changed, and the AES stage is reached with members only.                *)
ExchangeOK ==
  /\ ex = [chat |-> ex.chat, my |-> ex.my, ids |-> ex.ids, pos |-> ex.pos, stage |-> ex.stage]
  /\ about = [open |-> about.open, stray |-> about.stray, moved |-> about.moved,
              off |-> about.off]
  /\ ex.chat = about.open /\ about.open \in Chats
  /\ ~about.moved => open = ex.chat
  /\ MembersLen \in Nat
  /\ ex.stage = "aes" => MembersLen > 0
  /\ ~about.off => \E S : S = Roster(about.open) /\ ex.ids = SortedIds(S)
  /\ mail # <<>> => \E m : mail = <<m>> /\ WaitsInList(m)

PostsOK == \A p \in posts :
  /\ p = [bar |-> p.bar, chat |-> p.chat, moved |-> p.moved]
  /\ ~p.moved => p.chat = open

ChatsInv ==
  /\ People /\ RowsOfAccounts
  /\ Alive => PostsOK /\ (running => ExchangeOK)
  /\ RosterStored /\ FaultsExplained /\ KeyFiled /\ StaysInChat

LEMMA InitChats == Init => ChatsInv
<1> SUFFICES ASSUME Init PROVE ChatsInv
  OBVIOUS
<1>1. People
  BY IdsAssumption DEF Init, People, Users
<1>2. RowsOfAccounts
  BY DEF Init, RowsOfAccounts
<1> QED
  BY <1>1, <1>2 DEF Init, ChatsInv, PostsOK, RosterStored, FaultsExplained, KeyFiled, StaysInChat

(* The own id is that of whoever wrote the first row, if there is one.     *)
LEMMA MyIdIs ==
  ASSUME RowsOK, ChatsInv
  PROVE  /\ GetMyId = <<NoChat>> => rows # <<>> /\ ~rows[1].loaded
         /\ OwnIdIsOwn
<1>1. PICK S : rows \in Seq(S)
  BY DEF RowsOK
<1>2. rows # <<>> => 1 \in DOMAIN rows
  BY <1>1
<1>3. \A a \in Accounts : a # NoChat
  BY IdsAssumption DEF Users
<1>4. rows # <<>> => /\ rows[1].by \in Accounts /\ (rows[1].loaded => rows[1].pos # -1)
                     /\ rows[1].pos # -1 => rows[1].ids[rows[1].pos + 1] = rows[1].by
  BY <1>2 DEF ChatsInv, RowsOfAccounts
<1> QED
  BY <1>2, <1>3, <1>4 DEF GetMyId, OwnIdIsOwn

-----------------------------------------------------------------------------
(* set_chat_members_info: the rows stay those of accounts, and the exchange
   gets the list of the chat that is open and finds it in the table.       *)
LEMMA SetKeeps ==
  ASSUME RowsOK, ChatsInv, Alive, NEW stage, NEW fail, SetChatMembersInfo(stage, fail),
         UNCHANGED account, busy' = (busy \/ fail # "none")
  PROVE  /\ RowsOfAccounts'
         /\ fault' \in {"none", "nobar", "dangling", "nochat", "limit"}
         /\ Alive' =>
              /\ open \in Chats
              /\ ex' = [chat |-> open, my |-> ex'.my, ids |-> ex'.ids, pos |-> ex'.pos,
                        stage |-> stage]
              /\ Len(ex'.ids) \in Nat
              /\ Loaded => ex'.ids = SortedIds(Roster(open))
              /\ ~busy' => \E i \in DOMAIN rows' :
                   rows'[i].active /\ rows'[i].chat = open /\ rows'[i].ids = ex'.ids
<1> DEFINE ids == SortedIds(PeersOf(open))
           pos == Position(ids, account)
<1>1. CASE Broken # "none"
  <2>1. fault' = Broken /\ rows' = rows
    BY <1>1 DEF SetChatMembersInfo
  <2>2. Broken \in {"nobar", "dangling", "nochat"}
    BY <1>1 DEF ChatsInv, People, Broken
  <2>3. RowsOfAccounts'
    BY <2>1 DEF ChatsInv, RowsOfAccounts
  <2> QED
    BY <2>1, <2>2, <2>3 DEF Alive
<1>2. CASE Broken = "none"
  <2>1. open \in Chats
    BY <1>2 DEF ChatsInv, People, Broken
  <2>2. /\ Len(ids) \in Nat
        /\ pos # -1 => ids[pos + 1] = account
        /\ Loaded => pos # -1 /\ ids = SortedIds(Roster(open))
    BY <2>1, OpenIds DEF ChatsInv
  <2>3. /\ ex' = [chat |-> open, my |-> account, ids |-> ids, pos |-> pos, stage |-> stage]
        /\ rows' = UpdateChatMembers(open, ids, pos, fail)
        /\ fault' = IF Len(ids) >= MaxPeers THEN "limit" ELSE fault
    BY <1>2 DEF SetChatMembersInfo
  <2> HIDE DEF ids, pos
  <2>4. /\ \A i \in DOMAIN rows' :
             \/ /\ i \in DOMAIN rows
                /\ rows'[i].pos = rows[i].pos /\ rows'[i].ids = rows[i].ids
                /\ rows'[i].by = rows[i].by /\ rows'[i].loaded = rows[i].loaded
             \/ /\ rows'[i].pos = pos /\ rows'[i].ids = ids
                /\ rows'[i].by = account /\ rows'[i].loaded = Loaded
        /\ fail = "none" => \E i \in DOMAIN rows' :
             rows'[i].active /\ rows'[i].chat = open /\ rows'[i].ids = ids
    BY <2>3, UpdatedRows
  <2>5. RowsOfAccounts'
    <3> SUFFICES ASSUME NEW i \in DOMAIN rows'
                 PROVE  /\ rows'[i].by \in Accounts
                        /\ rows'[i].loaded => rows'[i].pos # -1
                        /\ rows'[i].pos # -1 => rows'[i].ids[rows'[i].pos + 1] = rows'[i].by
      BY DEF RowsOfAccounts
    <3>1. account \in Accounts
      BY DEF ChatsInv, People
    <3>2. \A j \in DOMAIN rows :
            /\ rows[j].by \in Accounts
            /\ rows[j].loaded => rows[j].pos # -1
            /\ rows[j].pos # -1 => rows[j].ids[rows[j].pos + 1] = rows[j].by
      BY DEF ChatsInv, RowsOfAccounts
    <3> QED
      BY <2>2, <2>4, <3>1, <3>2
  <2>6. fault' \in {"none", "limit"}
    BY <2>3 DEF Alive
  <2> QED
    BY <2>1, <2>2, <2>3, <2>4, <2>5, <2>6
<1> QED
  BY <1>1, <1>2

(* What is left alone by everything but the window and the other people.   *)
LEMMA PeopleStay ==
  ASSUME ChatsInv, UNCHANGED <<window, people>>
  PROVE  People' /\ \A c : Roster(c)' = Roster(c)
BY DEF ChatsInv, People, Roster, window, people

(* An exchange starts, with a message of a member.                         *)
LEMMA StartKeeps ==
  ASSUME RowsOK, ChatsInv, Alive, NEW stage, stage # "aes", NEW m, NEW fail,
         Start(stage, m, fail), busy' = (busy \/ fail # "none"),
         m.pos \in Nat, m.chat \in Chats, m.kind # "init" => m.pos < Size(m.chat),
         UNCHANGED <<window, people, posts, misfiled, astray>>
  PROVE  ChatsInv'
<1>1. SetChatMembersInfo(stage, fail) /\ running' /\ mail' = <<m>>
      /\ about' = [open |-> open, stray |-> FALSE, moved |-> FALSE, off |-> ~Loaded]
  BY DEF Start, Nothing
<1>2. UNCHANGED <<account, open>>
  BY DEF window
<1>3. /\ RowsOfAccounts'
      /\ fault' \in {"none", "nobar", "dangling", "nochat", "limit"}
      /\ Alive' =>
           /\ open \in Chats
           /\ ex' = [chat |-> open, my |-> ex'.my, ids |-> ex'.ids, pos |-> ex'.pos,
                     stage |-> stage]
           /\ Len(ex'.ids) \in Nat
           /\ Loaded => ex'.ids = SortedIds(Roster(open))
           /\ ~busy' => \E i \in DOMAIN rows' :
                rows'[i].active /\ rows'[i].chat = open /\ rows'[i].ids = ex'.ids
  BY <1>1, <1>2, SetKeeps
<1>4. People' /\ \A c : Roster(c)' = Roster(c)
  BY PeopleStay
<1>5. Alive' => ExchangeOK'
  <2> SUFFICES ASSUME Alive'
               PROVE  ExchangeOK'
    OBVIOUS
  <2>1. /\ open \in Chats /\ about'.open = open /\ about'.off = ~Loaded
        /\ ex'.chat = open /\ ex'.stage = stage
    BY <1>1, <1>3
  <2>2. Len(ex'.ids) \in Nat /\ (Loaded => ex'.ids = SortedIds(Roster(open)))
    BY <1>3
  <2>3. ~about'.off => \E S : S = Roster(about.open)' /\ ex'.ids = SortedIds(S)
    <3>1. Roster(about.open)' = Roster(open)
      BY <1>4, <2>1 DEF Roster, People, window, people
    <3> QED
      BY <2>1, <2>2, <3>1
  <2>4. WaitsInList(m)'
    <3>1. ASSUME m.kind # "init", m.chat = open, Loaded
          PROVE  m.pos < Len(ex'.ids)
      <4>1. Roster(open) \in SUBSET Nat /\ IsFiniteSet(Roster(open))
            /\ Size(open) = Cardinality(Roster(open))
        BY <2>1, RosterIs DEF ChatsInv
      <4>2. Len(SortedIds(Roster(open))) = Size(open)
        BY <4>1, SortedHas
      <4> QED
        BY <2>2, <3>1, <4>2
    <3> QED
      BY <2>1, <3>1 DEF WaitsInList, MembersLen
  <2> QED
    BY <1>1, <1>2, <1>3, <2>1, <2>2, <2>3, <2>4 DEF ExchangeOK, MembersLen
<1>6. RosterStored'
  BY <1>3 DEF RosterStored
<1>7. PostsOK' /\ KeyFiled' /\ StaysInChat' /\ FaultsExplained'
  BY <1>2, <1>3 DEF ChatsInv, PostsOK, KeyFiled, StaysInChat, FaultsExplained
<1> QED
  BY <1>3, <1>4, <1>5, <1>6, <1>7 DEF ChatsInv

(* A message of the chat is from a member of it.                           *)
LEMMA PressStartKeeps ==
  ASSUME RowsOK, ChatsInv, NEW fail, PressStart(fail)
  PROVE  ChatsInv'
<1>1. PICK n : Start("init", Message(open, "init", 0, n), fail)
  BY DEF PressStart
<1> DEFINE m == Message(open, "init", 0, n)
<1>2. m.pos \in Nat /\ m.chat \in Chats /\ m.kind = "init"
  BY DEF PressStart, Message, ChatsInv, People
<1> HIDE DEF m
<1>3. /\ Alive /\ busy' = (busy \/ fail # "none")
      /\ UNCHANGED <<window, people, posts, misfiled, astray>>
  BY DEF PressStart, Event
<1> QED
  BY <1>1, <1>2, <1>3, StartKeeps DEF m

LEMMA ReceiveKeeps ==
  ASSUME RowsOK, ChatsInv, NEW m \in Messages, NEW fail, Receive(m, fail)
  PROVE  ChatsInv'
<1>1. m.pos \in Nat /\ m.chat \in Chats /\ m.pos < Size(m.chat)
  <2>1. m.pos < Size(m.chat)
    BY DEF Receive
  <2>2. Cardinality(Users) \in Nat
    BY FS_CardinalityType, IdsAssumption
  <2>3. m.pos \in Nat /\ m.chat \in Chats
    BY <2>2 DEF Messages, Message
  <2> QED
    BY <2>1, <2>3
<1>2. /\ Alive /\ busy' = (busy \/ fail # "none")
      /\ UNCHANGED <<window, people, posts, misfiled, astray>>
  BY DEF Receive, Event
<1>3. CASE running
  <2>1. mail' = <<m>> /\ UNCHANGED <<ex, rows, running, about, fault>>
    BY <1>3 DEF Receive
  <2>2. People' /\ \A c : Roster(c)' = Roster(c)
    BY <1>2, PeopleStay
  <2>3. ExchangeOK
    BY <1>2, <1>3 DEF ChatsInv
  <2>4. WaitsInList(m)'
    <3>1. ASSUME m.kind # "init", m.chat = about.open, ~about.off
          PROVE  m.pos < MembersLen
      <4>1. /\ Roster(m.chat) \in SUBSET Nat /\ IsFiniteSet(Roster(m.chat))
            /\ Size(m.chat) = Cardinality(Roster(m.chat))
        BY <1>1, RosterIs DEF ChatsInv
      <4>2. PICK S : S = Roster(about.open) /\ ex.ids = SortedIds(S)
        BY <2>3, <3>1 DEF ExchangeOK
      <4>3. Len(SortedIds(S)) = Cardinality(S) /\ S = Roster(m.chat)
        BY <3>1, <4>1, <4>2, SortedHas
      <4> QED
        BY <1>1, <4>1, <4>2, <4>3 DEF MembersLen
    <3> QED
      BY <1>1, <2>1, <3>1 DEF WaitsInList, MembersLen
  <2>5. ExchangeOK'
    <3>1. Roster(about.open)' = Roster(about.open)
      BY <1>2, <2>1 DEF Roster, window, people
    <3>2. ~about'.off => \E S : S = Roster(about.open)' /\ ex'.ids = SortedIds(S)
      BY <2>1, <2>3, <3>1 DEF ExchangeOK
    <3> QED
      BY <1>2, <2>1, <2>3, <2>4, <3>2 DEF ExchangeOK, MembersLen, window
  <2>6. RowsOfAccounts' /\ PostsOK'
    BY <1>2, <2>1 DEF ChatsInv, RowsOfAccounts, PostsOK, window
  <2>7. RosterStored' /\ KeyFiled' /\ StaysInChat' /\ FaultsExplained'
    BY <1>2, <2>1 DEF ChatsInv, RosterStored, KeyFiled, StaysInChat, FaultsExplained, Alive
  <2> QED
    BY <2>2, <2>5, <2>6, <2>7 DEF ChatsInv
<1>4. CASE ~running
  <2>1. Start("rsa", m, fail)
    BY <1>4 DEF Receive
  <2> QED
    BY <1>1, <1>2, <2>1, StartKeeps
<1> QED
  BY <1>3, <1>4

(* stop() leaves no exchange; its message goes to the chat that is open.   *)
LEMMA PressStopKeeps ==
  ASSUME RowsOK, ChatsInv, NEW fail, PressStop(fail)
  PROVE  ChatsInv'
<1>1. /\ Alive /\ SetChatMembersInfo(ex.stage, fail) /\ busy' = (busy \/ fail # "none")
      /\ ~running' /\ UNCHANGED <<window, people, misfiled, astray>>
      /\ posts' = IF fault' = "none"
                  THEN posts \cup {[bar |-> bar, chat |-> ex'.chat, moved |-> FALSE]} ELSE posts
  BY DEF PressStop, Event
<1>2. UNCHANGED <<account, open>>
  BY <1>1 DEF window
<1>3. /\ RowsOfAccounts'
      /\ fault' \in {"none", "nobar", "dangling", "nochat", "limit"}
      /\ Alive' => ex'.chat = open
  <2> DEFINE stage == ex.stage
  <2>1. SetChatMembersInfo(stage, fail)
    BY <1>1
  <2> HIDE DEF stage
  <2> QED
    BY <1>1, <1>2, <2>1, SetKeeps
<1>4. People'
  BY <1>1, PeopleStay
<1>5. Alive' => PostsOK'
  <2> SUFFICES ASSUME Alive', NEW p \in posts'
               PROVE  /\ p = [bar |-> p.bar, chat |-> p.chat, moved |-> p.moved]
                      /\ ~p.moved => p.chat = open
    BY <1>2 DEF PostsOK
  <2>1. p \in posts \/ p = [bar |-> bar, chat |-> open, moved |-> FALSE]
    BY <1>1, <1>3 DEF Alive
  <2> QED
    BY <1>1, <2>1 DEF ChatsInv, PostsOK
<1>6. RosterStored' /\ KeyFiled' /\ StaysInChat' /\ FaultsExplained'
  BY <1>1, <1>3 DEF ChatsInv, RosterStored, KeyFiled, StaysInChat, FaultsExplained
<1> QED
  BY <1>1, <1>3, <1>4, <1>5, <1>6 DEF ChatsInv

-----------------------------------------------------------------------------
(* The worker.                                                             *)

(* The ends of the program: a message of a member is never out of the list,
   unless the exchange heard another chat or the list is out of date, and the
   number of members is not 0 in the AES stage.                            *)
LEMMA EndKeeps ==
  ASSUME RowsOK, ChatsInv, NEW with, End(with), with \notin {"none", "throw"},
         with = "index" => about.off \/ about.stray \/ mail[1].chat # about.open,
         with = "outside" => ~rows[1].loaded, with # "division"
  PROVE  ChatsInv'
<1>1. fault' = with /\ UNCHANGED <<window, people, rows, exchange, seenSoFar, posts>>
  BY DEF End
<1>2. People'
  BY <1>1, PeopleStay
<1>3. RowsOfAccounts'
  BY <1>1 DEF ChatsInv, RowsOfAccounts
<1>4. ~Alive'
  BY <1>1 DEF Alive
<1>5. FaultsExplained'
  BY <1>1 DEF FaultsExplained, exchange
<1>6. RosterStored' /\ KeyFiled' /\ StaysInChat'
  BY <1>1, <1>4 DEF ChatsInv, RosterStored, KeyFiled, StaysInChat, seenSoFar
<1> QED
  BY <1>2, <1>3, <1>4, <1>5, <1>6 DEF ChatsInv

LEMMA OutsideKeeps ==
  ASSUME RowsOK, ChatsInv, ReadMyIdOutside
  PROVE  ChatsInv'
<1>1. ~rows[1].loaded
  BY MyIdIs DEF ReadMyIdOutside
<1> QED
  BY <1>1, EndKeeps DEF ReadMyIdOutside

(* A round files the key under the chat of the exchange, finds the row it
   needs, and sends to the chat that is open if it is still that one.      *)
LEMMA RoundKeeps ==
  ASSUME RowsOK, ChatsInv, Working, NEW m, NEW stage, NEW stores, NEW sends, NEW fail,
         Round(m, stage, stores, sends, fail), stage = "aes" => MembersLen > 0
  PROVE  ChatsInv'
<1> DEFINE throws == stores /\ (fail = "select" \/ ActivePlaces(ex.chat) = {})
           stray == about.stray \/ m.chat # about.open
<1>1. /\ mail' = <<>>
      /\ ex' = [ex EXCEPT !.stage = stage] /\ about' = [about EXCEPT !.stray = stray]
      /\ fault' = IF throws THEN "throw"
                  ELSE IF sends /\ bar = "gone" THEN "dangling" ELSE "none"
      /\ posts' = IF sends /\ fault' = "none"
                  THEN posts \cup {[bar |-> bar, chat |-> ex.chat, moved |-> about.moved]}
                  ELSE posts
      /\ misfiled' = (misfiled \/ (stores /\ ~stray /\ NewKey(m).chat # about.open))
      /\ busy' = (busy \/ fail # "none")
      /\ UNCHANGED <<window, people, rows, running, astray>>
  BY DEF Round
<1>2. ExchangeOK /\ PostsOK /\ Alive /\ running
  BY DEF ChatsInv, Working
<1>3. UNCHANGED open
  BY <1>1 DEF window
<1>4. throws => busy'
  <2>1. ~busy => ActivePlaces(ex.chat) # {}
    BY <1>2 DEF ChatsInv, RosterStored, ActivePlaces
  <2> QED
    BY <1>1, <2>1
<1> HIDE DEF throws, stray
<1>5. /\ ex' = [chat |-> ex.chat, my |-> ex.my, ids |-> ex.ids, pos |-> ex.pos, stage |-> stage]
      /\ about' = [open |-> about.open, stray |-> stray, moved |-> about.moved,
                   off |-> about.off]
  BY <1>1, <1>2 DEF ExchangeOK
<1>6. /\ ex'.chat = ex.chat /\ ex'.my = ex.my /\ ex'.ids = ex.ids /\ ex'.pos = ex.pos
      /\ ex'.stage = stage /\ about'.open = about.open /\ about'.stray = stray
      /\ about'.moved = about.moved /\ about'.off = about.off
  BY <1>5
<1>7. People' /\ \A c : Roster(c)' = Roster(c)
  BY <1>1, PeopleStay
<1>8. ExchangeOK'
  <2>1. Roster(about.open)' = Roster(about.open)
    BY <1>1, <1>6 DEF Roster, window, people
  <2>2. ~about'.off => \E S : S = Roster(about.open)' /\ ex'.ids = SortedIds(S)
    BY <1>2, <1>6, <2>1 DEF ExchangeOK
  <2>3. MembersLen' = MembersLen
    BY <1>6 DEF MembersLen
  <2>4. /\ ex'.chat = about'.open /\ about'.open \in Chats
        /\ (~about'.moved => open' = ex'.chat) /\ MembersLen' \in Nat
    BY <1>2, <1>3, <1>6, <2>3 DEF ExchangeOK
  <2>5. ex'.stage = "aes" => MembersLen' > 0
    BY <1>6, <2>3
  <2>6. /\ ex' = [chat |-> ex'.chat, my |-> ex'.my, ids |-> ex'.ids, pos |-> ex'.pos,
                  stage |-> ex'.stage]
        /\ about' = [open |-> about'.open, stray |-> about'.stray, moved |-> about'.moved,
                     off |-> about'.off]
    BY <1>5, <1>6
  <2> QED
    BY <1>1, <2>2, <2>4, <2>5, <2>6 DEF ExchangeOK
<1>9. PostsOK'
  <2> SUFFICES ASSUME NEW p \in posts'
               PROVE  /\ p = [bar |-> p.bar, chat |-> p.chat, moved |-> p.moved]
                      /\ ~p.moved => p.chat = open
    BY <1>3 DEF PostsOK
  <2>1. p \in posts \/ p = [bar |-> bar, chat |-> ex.chat, moved |-> about.moved]
    BY <1>1
  <2>2. ~about.moved => open = ex.chat
    BY <1>2 DEF ExchangeOK
  <2> QED
    BY <1>2, <2>1, <2>2 DEF PostsOK
<1>10. RowsOfAccounts' /\ StaysInChat'
  BY <1>1 DEF ChatsInv, RowsOfAccounts, StaysInChat
<1>11. KeyFiled'
  BY <1>1, <1>2 DEF ChatsInv, ExchangeOK, KeyFiled, NewKey
<1>12. RosterStored'
  BY <1>1, <1>2, <1>6 DEF ChatsInv, RosterStored
<1>13. FaultsExplained'
  BY <1>1, <1>4 DEF FaultsExplained
<1> QED
  BY <1>7, <1>8, <1>9, <1>10, <1>11, <1>12, <1>13 DEF ChatsInv

LEMMA WorkerKeeps ==
  ASSUME RowsOK, ChatsInv, NEW fail,
         RsaStage(fail) \/ \E stores, sends \in BOOLEAN : AesStage(stores, sends, fail)
  PROVE  ChatsInv'
<1>1. Working
  BY DEF RsaStage, AesStage
<1>2. PICK m : mail = <<m>> /\ WaitsInList(m)
  BY <1>1 DEF ChatsInv, Working, ExchangeOK
<1>3. mail[1] = m /\ m.pos \in Nat /\ MembersLen \in Nat
  BY <1>1, <1>2 DEF ChatsInv, Working, ExchangeOK, WaitsInList
<1>4. CASE RsaStage(fail)
  <2>1. CASE IsIndex(m)
    <3>1. PICK stage, stores, sends :
            /\ Round(m, stage, stores, sends, fail)
            /\ stage = IF RsaEnds(m) THEN "aes" ELSE "rsa"
      BY <1>3, <1>4, <2>1, Zenon DEF RsaStage
    <3>2. RsaEnds(m) => MembersLen > 0
      BY <1>3 DEF RsaEnds, MyTurn
    <3> QED
      BY <1>1, <3>1, <3>2, RoundKeeps
  <2>2. CASE ~IsIndex(m)
    <3>1. End("index")
      BY <1>3, <1>4, <2>2, Zenon DEF RsaStage
    <3>2. m.kind # "init" /\ ~(m.pos < MembersLen)
      BY <2>2 DEF IsIndex
    <3>3. about.off \/ about.stray \/ m.chat # about.open
      BY <1>2, <3>2 DEF WaitsInList
    <3> QED
      BY <1>3, <3>1, <3>3, EndKeeps
  <2> QED
    BY <2>1, <2>2
<1>5. CASE \E stores, sends \in BOOLEAN : AesStage(stores, sends, fail)
  <2>1. PICK stores, sends \in BOOLEAN : AesStage(stores, sends, fail)
    BY <1>5
  <2>2. ex.stage = "aes"
    BY <2>1 DEF AesStage
  <2>3. MembersLen > 0
    BY <1>1, <2>2 DEF ChatsInv, Working, ExchangeOK
  <2>4. Round(m, "aes", stores, sends, fail)
    <3>1. MembersLen # 0
      BY <1>3, <2>3
    <3> QED
      BY <1>3, <2>1, <3>1, Zenon DEF AesStage
  <2> QED
    BY <1>1, <2>3, <2>4, RoundKeeps
<1> QED
  BY <1>4, <1>5

-----------------------------------------------------------------------------
(* The window, the other people, and what needs no thread.                 *)

(* What is the same in all of them: the rows, and how the program ended.   *)
LEMMA TableKeeps ==
  ASSUME ChatsInv, Alive, UNCHANGED <<rows, fault, misfiled, busy>>
  PROVE  /\ RowsOfAccounts' /\ FaultsExplained' /\ KeyFiled' /\ Alive'
         /\ running' /\ running /\ ex' = ex => RosterStored'
         /\ ~running' => RosterStored'
BY DEF ChatsInv, RowsOfAccounts, FaultsExplained, KeyFiled, Alive, RosterStored

(* A running exchange goes on being about its chat, when another is opened,
   and with its list, unless that is marked as out of date.                *)
LEMMA ExchangeKeeps ==
  ASSUME ExchangeOK, UNCHANGED <<ex, mail>>, NEW moved, NEW off,
         about' = [about EXCEPT !.moved = moved, !.off = off],
         moved \/ (open' = open /\ moved = about.moved),
         off \/ ((\A c : Roster(c)' = Roster(c)) /\ off = about.off)
  PROVE  ExchangeOK'
<1>1. about' = [open |-> about.open, stray |-> about.stray, moved |-> moved, off |-> off]
  BY DEF ExchangeOK
<1>2. /\ about'.open = about.open /\ about'.stray = about.stray /\ about'.moved = moved
      /\ about'.off = off
  BY <1>1
<1>3. ~about'.moved => open' = ex'.chat
  BY <1>2 DEF ExchangeOK
<1>4. ~about'.off => \E S : S = Roster(about.open)' /\ ex'.ids = SortedIds(S)
  <2> SUFFICES ASSUME ~off
               PROVE  \E S : S = Roster(about.open)' /\ ex'.ids = SortedIds(S)
    BY <1>2
  <2>1. \A c : Roster(c)' = Roster(c)
    OBVIOUS
  <2>2. PICK S : S = Roster(about.open) /\ ex.ids = SortedIds(S)
    BY DEF ExchangeOK
  <2>3. PICK c : c = about.open
    OBVIOUS
  <2>4. Roster(c)' = Roster(about.open)'
    BY <1>2, <2>3 DEF Roster
  <2> QED
    BY <2>1, <2>2, <2>3, <2>4
<1>5. mail # <<>> => \E m : mail = <<m>> /\ WaitsInList(m)'
  <2> SUFFICES ASSUME NEW m, WaitsInList(m)
               PROVE  WaitsInList(m)'
    BY DEF ExchangeOK
  <2>1. ~off => ~about.off
    OBVIOUS
  <2> QED
    BY <1>2, <2>1 DEF WaitsInList, MembersLen
<1> QED
  BY <1>1, <1>2, <1>3, <1>4, <1>5 DEF ExchangeOK, MembersLen

LEMMA ShowMainKeeps ==
  ASSUME ChatsInv, NEW a \in Accounts, ShowMain(a)
  PROVE  ChatsInv'
<1>1. /\ Alive /\ bar' = "main" /\ account' = a /\ open' = NoChat /\ posts' = {}
      /\ seen' = [g \in Groups |-> {}]
      /\ about' = [about EXCEPT !.moved = running, !.off = running]
      /\ UNCHANGED <<members, rows, ex, running, mail, fault, misfiled, astray, busy>>
  BY DEF ShowMain, seenSoFar
<1>2. People'
  BY <1>1 DEF ChatsInv, People
<1>3. running => ExchangeOK'
  <2> SUFFICES ASSUME running PROVE ExchangeOK'
    OBVIOUS
  <2>1. ExchangeOK
    BY <1>1 DEF ChatsInv
  <2> DEFINE on == running
  <2>2. on /\ about' = [about EXCEPT !.moved = on, !.off = on]
    BY <1>1
  <2> HIDE DEF on
  <2> QED
    BY <1>1, <2>1, <2>2, ExchangeKeeps
<1>4. RowsOfAccounts' /\ FaultsExplained' /\ KeyFiled' /\ Alive' /\ RosterStored'
  BY <1>1, TableKeeps
<1>5. PostsOK' /\ StaysInChat'
  BY <1>1 DEF ChatsInv, PostsOK, StaysInChat
<1> QED
  BY <1>1, <1>2, <1>3, <1>4, <1>5 DEF ChatsInv

LEMMA OpenChatKeeps ==
  ASSUME ChatsInv, NEW c \in Chats, OpenChat(c)
  PROVE  ChatsInv'
<1>1. /\ Alive /\ open' = c /\ bar' = CloseBar
      /\ posts' = {[p EXCEPT !.moved = TRUE] : p \in KeptPosts}
      /\ about' = [about EXCEPT !.moved = running]
      /\ UNCHANGED <<account, people, rows, ex, running, mail, fault, misfiled, astray, busy>>
  BY DEF OpenChat, Event, seenSoFar
<1>2. People' /\ \A d : Roster(d)' = Roster(d)
  BY <1>1 DEF ChatsInv, People, CloseBar, people, Roster
<1>3. running => ExchangeOK'
  <2> SUFFICES ASSUME running PROVE ExchangeOK'
    OBVIOUS
  <2>1. ExchangeOK
    BY <1>1 DEF ChatsInv
  <2> DEFINE on == running
             off == about.off
  <2>2. on /\ about' = [about EXCEPT !.moved = on, !.off = off]
    BY <1>1, <2>1 DEF ExchangeOK
  <2>3. off = about.off
    OBVIOUS
  <2> HIDE DEF on, off
  <2> QED
    BY <1>1, <1>2, <2>1, <2>2, <2>3, ExchangeKeeps
<1>4. RowsOfAccounts' /\ FaultsExplained' /\ KeyFiled' /\ Alive' /\ RosterStored'
  BY <1>1, TableKeeps
<1>5. PostsOK' /\ StaysInChat'
  <2>1. ASSUME NEW p \in posts'
        PROVE  p = [bar |-> p.bar, chat |-> p.chat, moved |-> p.moved] /\ p.moved
    <3>1. PICK q \in posts : p = [q EXCEPT !.moved = TRUE]
      BY <1>1 DEF KeptPosts
    <3>2. q = [bar |-> q.bar, chat |-> q.chat, moved |-> q.moved]
      BY <1>1 DEF ChatsInv, PostsOK
    <3>3. p = [bar |-> q.bar, chat |-> q.chat, moved |-> TRUE]
      BY <3>1, <3>2
    <3> QED
      BY <3>3
  <2> QED
    BY <1>1, <2>1 DEF ChatsInv, PostsOK, StaysInChat
<1> QED
  BY <1>1, <1>2, <1>3, <1>4, <1>5 DEF ChatsInv

LEMMA ChangeKeeps ==
  ASSUME ChatsInv, NEW g \in Groups, NEW u \in Others, Change(g, u)
  PROVE  ChatsInv'
<1>1. /\ Alive /\ members' = [members EXCEPT ![g] = IF u \in @ THEN @ \ {u} ELSE @ \cup {u}]
      /\ about' = [about EXCEPT !.off = running]
      /\ UNCHANGED <<window, seen, rows, ex, running, mail, posts, fault, misfiled, astray, busy>>
  BY DEF Change, Event, seenSoFar
<1>2. People'
  <2>1. u \in Users /\ u \notin Accounts
    BY IdsAssumption DEF Users
  <2>2. members' \in [Groups -> SUBSET Users] /\ \A h \in Groups : Accounts \subseteq members'[h]
    BY <1>1, <2>1 DEF ChatsInv, People
  <2> QED
    BY <1>1, <2>2 DEF ChatsInv, People, window
<1>3. running => ExchangeOK'
  <2> SUFFICES ASSUME running PROVE ExchangeOK'
    OBVIOUS
  <2>1. ExchangeOK
    BY <1>1 DEF ChatsInv
  <2> DEFINE on == running
             moved == about.moved
  <2>2. on /\ about' = [about EXCEPT !.moved = moved, !.off = on]
    BY <1>1, <2>1 DEF ExchangeOK
  <2>3. moved = about.moved /\ open' = open
    BY <1>1 DEF window
  <2> HIDE DEF on, moved
  <2> QED
    BY <1>1, <2>1, <2>2, <2>3, ExchangeKeeps
<1>4. RowsOfAccounts' /\ FaultsExplained' /\ KeyFiled' /\ Alive' /\ RosterStored'
  BY <1>1, TableKeeps
<1>5. PostsOK' /\ StaysInChat'
  BY <1>1 DEF ChatsInv, PostsOK, StaysInChat, window
<1> QED
  BY <1>1, <1>2, <1>3, <1>4, <1>5 DEF ChatsInv

(* A section, a list that is loaded, and a message that is sent.           *)
LEMMA QuietKeeps ==
  ASSUME ChatsInv, Alive, open' = open, bar' \in {"section", "gone", bar},
         account' = account, members' = members, seen' \in [Groups -> SUBSET Users],
         posts' \subseteq posts, ~astray',
         UNCHANGED <<rows, exchange, fault, misfiled, busy>>
  PROVE  ChatsInv'
<1>1. UNCHANGED <<ex, running, mail, about>>
  BY DEF exchange
<1>2. People' /\ \A c : Roster(c)' = Roster(c)
  BY DEF ChatsInv, People, Roster
<1>3. running => ExchangeOK'
  <2> SUFFICES ASSUME running PROVE ExchangeOK'
    OBVIOUS
  <2>1. ExchangeOK
    BY DEF ChatsInv
  <2> DEFINE moved == about.moved
             off == about.off
  <2>2. about' = [about EXCEPT !.moved = moved, !.off = off]
    BY <1>1, <2>1 DEF ExchangeOK
  <2>3. moved = about.moved /\ off = about.off
    OBVIOUS
  <2> HIDE DEF moved, off
  <2> QED
    BY <1>1, <1>2, <2>1, <2>2, <2>3, ExchangeKeeps
<1>4. RowsOfAccounts' /\ FaultsExplained' /\ KeyFiled' /\ Alive' /\ RosterStored'
  BY <1>1, TableKeeps
<1>5. PostsOK' /\ StaysInChat'
  BY DEF ChatsInv, PostsOK, StaysInChat
<1> QED
  BY <1>1, <1>2, <1>3, <1>4, <1>5 DEF ChatsInv

(* The exchange ends, with the program or without it.                      *)
LEMMA RestartKeeps ==
  ASSUME ChatsInv, Restart \/ Stop
  PROVE  ChatsInv'
<1>1. /\ Alive /\ ~running' /\ UNCHANGED <<account, members, rows, fault, misfiled, astray, busy>>
      /\ bar' \in {"none", bar} /\ open' \in {NoChat, open}
      /\ seen' = seen \/ seen' = [g \in Groups |-> {}]
      /\ posts' = {} \/ (posts' = posts /\ open' = open)
  BY DEF Restart, Stop, Event, seenSoFar, window, people
<1>2. People'
  BY <1>1 DEF ChatsInv, People
<1>3. RowsOfAccounts' /\ FaultsExplained' /\ KeyFiled' /\ Alive' /\ RosterStored'
  BY <1>1, TableKeeps
<1>4. PostsOK' /\ StaysInChat'
  BY <1>1 DEF ChatsInv, PostsOK, StaysInChat
<1> QED
  BY <1>1, <1>2, <1>3, <1>4 DEF ChatsInv

LEMMA StutterKeeps ==
  ASSUME ChatsInv, UNCHANGED vars
  PROVE  ChatsInv'
<1>1. UNCHANGED <<window, people, rows, exchange, posts, fault, seenSoFar>>
  BY DEF vars
<1>2. CASE Alive
  <2>1. /\ UNCHANGED <<open, bar, account, members, seen, misfiled, astray, busy>>
        /\ UNCHANGED <<rows, exchange, fault, posts>>
    BY <1>1 DEF window, people, seenSoFar
  <2>2. seen \in [Groups -> SUBSET Users] /\ ~astray
    BY DEF ChatsInv, People, StaysInChat
  <2> QED
    BY <1>2, <2>1, <2>2, QuietKeeps
<1>3. CASE ~Alive
  <2>1. ~Alive' /\ UNCHANGED <<rows, fault, mail, about, misfiled, astray, busy>>
    BY <1>1, <1>3 DEF Alive, exchange, seenSoFar
  <2>2. People'
    BY <1>1, PeopleStay
  <2> QED
    BY <2>1, <2>2 DEF ChatsInv, RowsOfAccounts, RosterStored, FaultsExplained, KeyFiled,
                      StaysInChat
<1> QED
  BY <1>2, <1>3

LEMMA WindowKeeps ==
  ASSUME ChatsInv,
         \/ OpenSection \/ CloseSection
         \/ \E g \in Groups : Load(g)
         \/ \E p \in posts : Deliver(p)
  PROVE  ChatsInv'
<1>1. seen \in [Groups -> SUBSET Users] /\ members \in [Groups -> SUBSET Users] /\ ~astray
  BY DEF ChatsInv, People, StaysInChat
<1>2. CASE OpenSection
  <2>1. /\ Alive /\ bar' = "section" /\ open' = open /\ account' = account
        /\ UNCHANGED <<members, seen, rows, exchange, posts, fault, misfiled, astray, busy>>
    BY <1>2 DEF OpenSection, Event, people, seenSoFar
  <2> QED
    BY <1>1, <2>1, QuietKeeps
<1>3. CASE CloseSection
  <2>1. /\ Alive /\ bar' \in {"gone", bar} /\ open' = open /\ account' = account
        /\ posts' \subseteq posts
        /\ UNCHANGED <<members, seen, rows, exchange, fault, misfiled, astray, busy>>
    BY <1>3 DEF CloseSection, CloseBar, KeptPosts, Event, people, seenSoFar
  <2> QED
    BY <1>1, <2>1, QuietKeeps
<1>4. CASE \E g \in Groups : Load(g)
  <2>1. PICK g \in Groups : Load(g)
    BY <1>4
  <2>2. /\ Alive /\ UNCHANGED <<bar, account, open, members>>
        /\ seen' = [seen EXCEPT ![g] = members[g]]
        /\ UNCHANGED <<rows, exchange, posts, fault, misfiled, astray, busy>>
    BY <2>1 DEF Load, window, seenSoFar
  <2>3. seen' \in [Groups -> SUBSET Users]
    BY <1>1, <2>2
  <2> QED
    BY <1>1, <2>2, <2>3, QuietKeeps
<1>5. CASE \E p \in posts : Deliver(p)
  <2>1. PICK p \in posts : Deliver(p)
    BY <1>5
  <2>2. /\ Alive /\ UNCHANGED <<bar, account, open, members, seen>>
        /\ posts' \subseteq posts /\ astray' = (astray \/ (~p.moved /\ p.chat # open))
        /\ UNCHANGED <<rows, exchange, fault, misfiled, busy>>
    BY <2>1 DEF Deliver, window, people
  <2>3. ~p.moved => p.chat = open
    BY <2>2 DEF ChatsInv, PostsOK
  <2> QED
    BY <1>1, <2>2, <2>3, QuietKeeps
<1> QED
  BY <1>2, <1>3, <1>4, <1>5

LEMMA ChatsStep ==
  ASSUME RowsOK, ChatsInv, [Next]_vars
  PROVE  ChatsInv'
<1>1. CASE UNCHANGED vars
  BY <1>1, StutterKeeps
<1>2. CASE \E a \in Accounts : ShowMain(a)
  BY <1>2, ShowMainKeeps
<1>3. CASE \E c \in Chats : OpenChat(c)
  BY <1>3, OpenChatKeeps
<1>4. CASE \E g \in Groups, u \in Others : Change(g, u)
  BY <1>4, ChangeKeeps
<1>5. CASE Restart \/ Stop
  BY <1>5, RestartKeeps
<1>6. CASE \/ OpenSection \/ CloseSection
           \/ \E g \in Groups : Load(g)
           \/ \E p \in posts : Deliver(p)
  BY <1>6, WindowKeeps
<1>7. CASE \E fail \in Fails : PressStart(fail) \/ PressStop(fail)
  BY <1>7, PressStartKeeps, PressStopKeeps
<1>8. CASE \E m \in Messages, fail \in Fails : Receive(m, fail)
  BY <1>8, ReceiveKeeps
<1>9. CASE ReadMyIdOutside
  BY <1>9, OutsideKeeps
<1>10. CASE \E fail \in Fails \cap {"none", "select", "insert"} :
              RsaStage(fail) \/ \E stores, sends \in BOOLEAN : AesStage(stores, sends, fail)
  BY <1>10, WorkerKeeps
<1> QED
  BY <1>1, <1>2, <1>3, <1>4, <1>5, <1>6, <1>7, <1>8, <1>9, <1>10 DEF Next

LEMMA ChatsHold == Spec => [](RowsOK /\ ChatsInv)
<1>1. RowsOK /\ ChatsInv /\ [Next]_vars => (RowsOK /\ ChatsInv)'
  BY NextOnRows, RowsStay, ChatsStep
<1> QED
  BY <1>1, InitRows, InitChats, PTL DEF Spec

(* Whatever the users do, who joins and leaves, and which statement fails: a
   sender is out of the list only if the exchange heard of another chat or the
   list is out of date, add_aes_key throws only if a statement failed, the own
   id is read outside only if the members were not loaded, and the worker never
   divides by the number of no members.                                    *)
THEOREM EndsAreExplained == Spec => []FaultsExplained
<1>1. ChatsInv => FaultsExplained
  BY DEF ChatsInv
<1> QED
  BY <1>1, ChatsHold, PTL

(* The list that a running exchange works on is that of a row in use of its
   chat, as long as no statement failed.                                   *)
THEOREM RosterIsStored == Spec => []RosterStored
<1>1. ChatsInv => RosterStored
  BY DEF ChatsInv
<1> QED
  BY <1>1, ChatsHold, PTL

(* The own id is that of the account that is logged in, as long as no other
   took part in an exchange and every list was loaded when it was written. *)
THEOREM OwnIdOfAccount == Spec => []OwnIdIsOwn
<1>1. RowsOK /\ ChatsInv => OwnIdIsOwn
  BY MyIdIs
<1> QED
  BY <1>1, ChatsHold, PTL

(* A key that was formed by the messages of the chat that was open is filed
   under that chat.                                                        *)
THEOREM KeysAreFiled == Spec => []KeyFiled
<1>1. ChatsInv => KeyFiled
  BY DEF ChatsInv
<1> QED
  BY <1>1, ChatsHold, PTL

(* The messages of an exchange go to its chat, unless another was opened
   before the interface thread sent them.                                  *)
THEOREM MessagesStay == Spec => []StaysInChat
<1>1. ChatsInv => StaysInChat
  BY DEF ChatsInv
<1> QED
  BY <1>1, ChatsHold, PTL

=============================================================================
